-------------------------- MODULE ValueRangeProofs --------------------------
(* Ranges and constant folding of integers, for every width of the word,     *)
(* every set of integral types and all operands.                             *)
EXTENDS ValueRange, WellFoundedInduction, TLAPS

(* A set of naturals has a least element.                                    *)
LEMMA LeastElement ==
  ASSUME NEW T \in SUBSET Nat, T # {}
  PROVE  \E n \in T : \A m \in T : n <= m
<1> DEFINE R == OpToRel(<, Nat)
<1>1. \A x, y \in Nat : x < y => <<x, y>> \in R BY DEF OpToRel
<1>2. IsWellFoundedOn(R, Nat) BY NatLessThanWellFounded
<1> HIDE DEF R
<1>3. PICK x \in T : \A y \in T : <<y, x>> \notin R BY <1>2, WFMin
<1>4. \A y \in T : ~(y < x) BY <1>1, <1>3
<1> QED BY <1>4

-------------------------------------------------------------------------------
(* Division with remainder is what it is for one pair only. *)
LEMMA DivMod ==
    ASSUME NEW x \in Int, NEW m \in Nat \ {0}
    PROVE  x = m * (x \div m) + (x % m) /\ x \div m \in Int /\ x % m \in 0 .. m - 1
OBVIOUS

LEMMA DivUnique ==
    ASSUME NEW m \in Nat \ {0}, NEW q \in Int, NEW r \in 0 .. m - 1
    PROVE  (m * q + r) \div m = q /\ (m * q + r) % m = r
<1> DEFINE x == m * q + r
           d == x \div m
           s == x % m
<1>1. x \in Int /\ m * q \in Int OBVIOUS
<1> HIDE DEF x
<1>2. x = m * d + s /\ d \in Int /\ s \in 0 .. m - 1 BY <1>1
<1> HIDE DEF d, s
<1>3. m * d \in Int /\ x = m * q + r BY <1>2 DEF x
<1>4. ~(d + 1 <= q)
  <2>1. ASSUME d + 1 <= q PROVE m * (d + 1) <= m * q BY <1>2, <2>1
  <2>2. m * (d + 1) = m * d + m BY <1>2
  <2> QED BY <1>1, <1>2, <1>3, <2>1, <2>2
<1>5. ~(q + 1 <= d)
  <2>1. ASSUME q + 1 <= d PROVE m * (q + 1) <= m * d BY <1>2, <2>1
  <2>2. m * (q + 1) = m * q + m OBVIOUS
  <2> QED BY <1>1, <1>2, <1>3, <2>1, <2>2
<1>6. d = q BY <1>2, <1>4, <1>5
<1>7. s = r BY <1>1, <1>2, <1>3, <1>6
<1> QED BY <1>6, <1>7 DEF d, s, x

(* A multiple of the divisor leaves the remainder as it is, *)
LEMMA ModMultiple ==
    ASSUME NEW m \in Nat \ {0}, NEW x \in Int, NEW k \in Int
    PROVE  (x + m * k) % m = x % m
<1> DEFINE q == x \div m
           r == x % m
<1>1. x = m * q + r /\ q \in Int /\ r \in 0 .. m - 1 OBVIOUS
<1> HIDE DEF q, r
<1>2. m * (q + k) = m * q + m * k /\ m * q \in Int /\ m * k \in Int /\ q + k \in Int BY <1>1
<1>3. x + m * k = m * (q + k) + r BY <1>1, <1>2
<1>4. (m * (q + k) + r) % m = r BY <1>1, <1>2, DivUnique
<1> QED BY <1>3, <1>4 DEF r

(* and numbers of one remainder differ by one. *)
LEMMA ModWitness ==
    ASSUME NEW m \in Nat \ {0}, NEW x \in Int, NEW y \in Int, x % m = y % m
    PROVE  \E k \in Int : x = y + m * k
<1> DEFINE p == x \div m
           q == y \div m
           r == y % m
<1>1. x = m * p + r /\ y = m * q + r /\ p \in Int /\ q \in Int /\ r \in Int
  <2>1. x = m * (x \div m) + (x % m) /\ x \div m \in Int BY DivMod
  <2>2. y = m * (y \div m) + (y % m) /\ y \div m \in Int /\ y % m \in Int BY DivMod
  <2> QED BY <2>1, <2>2
<1> HIDE DEF p, q, r
<1>2. m * (p - q) = m * p - m * q /\ m * p \in Int /\ m * q \in Int BY <1>1
<1> DEFINE k == p - q
<1>3. x = y + m * k /\ k \in Int BY <1>1, <1>2
<1> HIDE DEF k
<1> QED BY <1>3

(* A remainder is its own. *)
LEMMA ModSmall ==
    ASSUME NEW m \in Nat \ {0}, NEW x \in 0 .. m - 1
    PROVE  x % m = x /\ x \div m = 0
<1>1. m * 0 + x = x OBVIOUS
<1> QED BY <1>1, DivUnique

LEMMA ModMod ==
    ASSUME NEW m \in Nat \ {0}, NEW x \in Int
    PROVE  (x % m) % m = x % m
<1>1. x % m \in 0 .. m - 1 BY DivMod
<1> QED BY <1>1, ModSmall

-------------------------------------------------------------------------------
(* Powers of 2 *)
LEMMA PowerSteps ==
    /\ 2 ^ 0 = 1
    /\ \A n \in 0 .. Bits : 2 ^ n \in Nat \ {0} /\ 2 ^ (n + 1) = 2 * 2 ^ n
<1> DEFINE Bad == {n \in 0 .. Bits : 2 ^ n \notin Nat \ {0}}
<1>1. Bits \in Nat \ {0} BY WordAssumption
<1>2. 2 ^ 0 = 1 /\ \A n \in 0 .. Bits : 2 ^ n \in Nat /\ 2 ^ (n + 1) = 2 * 2 ^ n
  BY PowersAssumption
<1>3. ASSUME Bad # {} PROVE FALSE
  <2>1. Bad \in SUBSET Nat BY <1>1
  <2>2. PICK n \in Bad : \A m \in Bad : n <= m BY <1>3, <2>1, LeastElement
  <2>3. n # 0
    <3>1. 2 ^ n \notin Nat \ {0} BY <2>2
    <3>2. ASSUME n = 0 PROVE 2 ^ n = 1 BY <1>2, <3>2
    <3> QED BY <3>1, <3>2
  <2>4. n - 1 \in 0 .. Bits /\ (n - 1) + 1 = n BY <1>1, <2>2, <2>3
  <2>5. n - 1 \notin Bad BY <2>1, <2>2, <2>4
  <2>6. 2 ^ (n - 1) \in Nat \ {0} BY <2>4, <2>5
  <2>7. 2 ^ n = 2 * 2 ^ (n - 1) BY <1>2, <2>4
  <2> QED BY <2>2, <2>6, <2>7
<1> QED BY <1>2, <1>3

LEMMA PowerSum ==
    ASSUME NEW m \in Nat, NEW n \in Nat, m + n <= Bits
    PROVE  2 ^ (m + n) = 2 ^ m * 2 ^ n /\ 2 ^ m \in Nat \ {0} /\ 2 ^ n \in Nat \ {0}
<1> DEFINE Bad == {k \in 0 .. Bits - m : 2 ^ (m + k) # 2 ^ m * 2 ^ k}
<1>1. Bits \in Nat \ {0} BY WordAssumption
<1>2. 2 ^ m \in Nat \ {0} /\ 2 ^ n \in Nat \ {0} BY <1>1, PowerSteps
<1>3. ASSUME Bad # {} PROVE FALSE
  <2>1. Bad \in SUBSET Nat BY <1>1
  <2>2. PICK k \in Bad : \A j \in Bad : k <= j BY <1>3, <2>1, LeastElement
  <2>3. k \in 0 .. Bits - m /\ 2 ^ (m + k) # 2 ^ m * 2 ^ k BY <2>2
  <2>4. k # 0
    <3>1. m + 0 = m /\ 2 ^ m * 1 = 2 ^ m BY <1>2
    <3> QED BY <2>3, <3>1, PowerSteps
  <2>5. k - 1 \in 0 .. Bits - m /\ k - 1 \in 0 .. Bits /\ m + (k - 1) \in 0 .. Bits
        /\ (k - 1) + 1 = k /\ (m + (k - 1)) + 1 = m + k /\ ~(k <= k - 1)
    BY <1>1, <2>3, <2>4
  <2>6. 2 ^ (m + (k - 1)) = 2 ^ m * 2 ^ (k - 1) BY <2>2, <2>5
  <2>7. 2 ^ k = 2 * 2 ^ (k - 1) /\ 2 ^ (k - 1) \in Nat BY <2>5, PowerSteps
  <2>8. 2 ^ (m + k) = 2 * 2 ^ (m + (k - 1)) BY <2>5, PowerSteps
  <2>9. 2 ^ m * (2 * 2 ^ (k - 1)) = 2 * (2 ^ m * 2 ^ (k - 1)) BY <1>2, <2>7
  <2> QED BY <2>3, <2>6, <2>7, <2>8, <2>9
<1>4. n \in 0 .. Bits - m BY <1>1
<1> QED BY <1>2, <1>3, <1>4

(* The length of a narrower word divides the one of a word, *)
LEMMA PowerDivides ==
    ASSUME NEW w \in 0 .. Bits
    PROVE  /\ Top = 2 ^ w * 2 ^ (Bits - w) /\ 2 ^ w \in 1 .. Top
           /\ 2 ^ (Bits - w) \in 1 .. Top /\ Top \in Nat \ {0}
<1>1. Bits \in Nat \ {0} BY WordAssumption
<1>2. w \in Nat /\ Bits - w \in Nat /\ w + (Bits - w) = Bits BY <1>1
<1>3. Top = 2 ^ w * 2 ^ (Bits - w) /\ 2 ^ w \in Nat \ {0} /\ 2 ^ (Bits - w) \in Nat \ {0}
  <2>1. w + (Bits - w) <= Bits BY <1>1, <1>2
  <2>2. 2 ^ (w + (Bits - w)) = 2 ^ w * 2 ^ (Bits - w) /\ 2 ^ w \in Nat \ {0}
        /\ 2 ^ (Bits - w) \in Nat \ {0}
    BY <1>2, <2>1, PowerSum
  <2> QED BY <1>2, <2>2 DEF Top
<1>4. 2 ^ w <= 2 ^ w * 2 ^ (Bits - w) /\ 2 ^ (Bits - w) <= 2 ^ w * 2 ^ (Bits - w)
  <2> DEFINE p == 2 ^ w
             q == 2 ^ (Bits - w)
  <2>1. p \in Nat \ {0} /\ q \in Nat \ {0} BY <1>3
  <2> HIDE DEF p, q
  <2>2. p * 1 <= p * q /\ 1 * q <= p * q BY <2>1
  <2>3. p <= p * q /\ q <= p * q BY <2>1, <2>2
  <2> QED BY <2>3 DEF p, q
<1> QED BY <1>3, <1>4, WordAssumption

(* so a word has the remainder of the number that it is the word of. *)
LEMMA WordMod ==
    ASSUME NEW n \in Int, NEW w \in 0 .. Bits
    PROVE  Word(n) % 2 ^ w = n % 2 ^ w /\ Word(n) \in Words
<1> DEFINE p == 2 ^ w
           q == 2 ^ (Bits - w)
           d == n \div Top
<1>1. Top = p * q /\ p \in Nat \ {0} /\ q \in Nat \ {0} /\ Top \in Nat \ {0} BY PowerDivides
<1>2. n = Top * d + Word(n) /\ d \in Int /\ Word(n) \in 0 .. Top - 1 BY <1>1, DivMod DEF Word
<1> HIDE DEF p, q, d
<1>3. Top * d = p * (q * d) /\ q * d \in Int
  <2>1. (p * q) * d = p * (q * d) /\ q * d \in Int BY <1>1, <1>2
  <2> QED BY <1>1, <2>1
<1>4. Word(n) \in Int /\ p * (q * d) \in Int BY <1>1, <1>2, <1>3
<1>5. n = Word(n) + p * (q * d) BY <1>2, <1>3, <1>4
<1>6. (Word(n) + p * (q * d)) % p = Word(n) % p BY <1>1, <1>3, <1>4, ModMultiple
<1>7. Word(n) \in Words BY <1>2 DEF Words, AllOnes
<1> QED BY <1>5, <1>6, <1>7 DEF p

(* What divides a power of 2 is another. *)
LEMMA DivisorsOfPowers ==
    ASSUME NEW n \in 0 .. Bits, NEW d \in Nat \ {0}, 2 ^ n % d = 0
    PROVE  \E m \in 0 .. Bits : d = 2 ^ m
<1> DEFINE Good(k, e) == \E m \in 0 .. k : e = 2 ^ m
           Bad == {k \in 0 .. Bits : \E e \in Nat \ {0} : 2 ^ k % e = 0 /\ ~Good(k, e)}
<1>1. Bits \in Nat \ {0} BY WordAssumption
<1>2. ASSUME Bad # {} PROVE FALSE
  <2>1. Bad \in SUBSET Nat BY <1>1
  <2>2. PICK k \in Bad : \A j \in Bad : k <= j BY <1>2, <2>1, LeastElement
  <2>3. PICK e \in Nat \ {0} : 2 ^ k % e = 0 /\ ~Good(k, e) BY <2>2
  <2>4. k \in 0 .. Bits /\ 2 ^ k \in Nat \ {0} BY <2>2, PowerSteps
  <2> DEFINE q == 2 ^ k \div e
  <2>5. 2 ^ k = e * q /\ q \in Int
    <3>1. 2 ^ k = e * q + (2 ^ k % e) /\ q \in Int BY <2>3, <2>4
    <3> QED BY <2>3, <3>1
  <2> HIDE DEF q
  <2>6. CASE k = 0
    <3>1. e * q = 1 BY <2>5, <2>6, PowerSteps
    <3>2. q >= 1
      <4>1. ASSUME q <= 0 PROVE e * q <= 0 BY <2>3, <2>5, <4>1
      <4> QED BY <2>5, <3>1, <4>1
    <3>3. e <= e * q BY <2>3, <2>5, <3>2
    <3>4. e = 2 ^ 0 BY <2>3, <3>1, <3>3, PowerSteps
    <3>5. 0 \in 0 .. k BY <2>6
    <3> QED BY <2>3, <3>4, <3>5
  <2>7. CASE k # 0
    <3> DEFINE j == k - 1
               y == 2 ^ j
    <3>1. j \in 0 .. Bits /\ j + 1 = k /\ ~(k <= j) BY <1>1, <2>4, <2>7
    <3>2. y \in Nat \ {0} /\ 2 ^ k = 2 * y BY <3>1, PowerSteps
    <3>3. \A f \in Nat \ {0} : y % f = 0 => Good(j, f) BY <2>2, <3>1
    <3> HIDE DEF j, y
    <3>4. 2 * y = e * q BY <2>5, <3>2
    <3>5. CASE e % 2 = 0
      <4> DEFINE f == e \div 2
      <4>1. e = 2 * f /\ f \in Nat \ {0} BY <2>3, <3>5
      <4> HIDE DEF f
      <4>2. (2 * f) * q = 2 * (f * q) /\ f * q \in Int BY <2>5, <4>1
      <4>3. y = f * q BY <3>2, <3>4, <4>1, <4>2
      <4>4. y % f = 0
        <5>1. f * q + 0 = y /\ 0 \in 0 .. f - 1 BY <4>1, <4>2, <4>3
        <5>2. (f * q + 0) % f = 0 BY <2>5, <4>1, <5>1, DivUnique
        <5> QED BY <5>1, <5>2
      <4>5. PICK m \in 0 .. j : f = 2 ^ m BY <3>3, <4>1, <4>4
      <4>6. m \in 0 .. Bits /\ m + 1 \in 0 .. k BY <1>1, <3>1, <4>5
      <4>7. e = 2 ^ (m + 1) BY <4>1, <4>5, <4>6, PowerSteps
      <4> QED BY <2>3, <4>6, <4>7
    <3>6. CASE e % 2 # 0
      <4> DEFINE f == e \div 2
                 g == q \div 2
                 h == q % 2
      <4>1. e = 2 * f + 1 /\ f \in Int BY <2>3, <3>6
      <4>2. q = 2 * g + h /\ g \in Int /\ h \in {0, 1} BY <2>5
      <4> HIDE DEF f, g, h
      <4>3. e * q = 2 * (e * g) + e * h /\ e * g \in Int
        <5>1. e * (2 * g + h) = 2 * (e * g) + e * h /\ e * g \in Int BY <2>3, <4>2
        <5> QED BY <4>2, <5>1
      <4>4. h = 0
        <5>1. ASSUME h = 1 PROVE 2 * y = 2 * (e * g) + (2 * f + 1)
          BY <2>3, <3>4, <4>1, <4>3, <5>1
        <5> QED BY <3>2, <4>1, <4>2, <4>3, <5>1
      <4>5. y = e * g + 0
        <5>1. e * 0 = 0 BY <2>3
        <5> QED BY <3>2, <3>4, <4>3, <4>4, <5>1
      <4>6. y % e = 0 BY <2>3, <4>2, <4>5, DivUnique
      <4>7. PICK m \in 0 .. j : e = 2 ^ m BY <2>3, <3>3, <4>6
      <4>8. m \in 0 .. k BY <3>1, <4>7
      <4> QED BY <2>3, <4>7, <4>8
    <3> QED BY <3>5, <3>6
  <2> QED BY <2>6, <2>7
<1>3. Good(n, d) BY <1>2
<1>4. \A m \in 0 .. n : m \in 0 .. Bits BY <1>1
<1> QED BY <1>3, <1>4

-------------------------------------------------------------------------------
(* The 65-bit numbers of intrange.c, for every width of the word.            *)

(* The remainder, within two lengths of a word *)
LEMMA WordOf ==
    ASSUME NEW n \in Int, -Top <= n, n < 2 * Top
    PROVE  Word(n) = IF n < 0 THEN n + Top ELSE IF n < Top THEN n ELSE n - Top
<1>1. Top \in Nat \ {0} BY WordAssumption
<1> DEFINE Splits(q, r) == r \in 0 .. Top - 1 /\ n = Top * q + r
<1>2. \A q, r \in Int : Splits(q, r) => n % Top = r BY <1>1
<1>3. CASE n < 0
  <2>1. Splits(-1, n + Top) BY <1>1, <1>3
  <2> QED BY <1>2, <1>3, <2>1 DEF Word
<1>4. CASE 0 <= n /\ n < Top BY <1>1, <1>4 DEF Word
<1>5. CASE Top <= n BY <1>1, <1>5 DEF Word
<1> QED BY <1>1, <1>3, <1>4, <1>5

(* A number is its word and its sign. *)
LEMMA NumberFacts ==
    ASSUME NEW a \in Numbers
    PROVE  /\ a.value \in Nat /\ a.value < Top /\ a.negative \in BOOLEAN
           /\ a = Number(a.value, a.negative)
           /\ Value(a) = (IF a.negative THEN a.value - Top ELSE a.value)
           /\ Value(a) \in Int /\ -Top <= Value(a) /\ Value(a) < Top
<1>1. Top \in Nat \ {0} BY WordAssumption
<1> QED BY <1>1 DEF Numbers, Words, AllOnes, Value, Number

(* operator+ is the sum, cut off at the ends of the numbers. *)
THEOREM PlusSaturates ==
    \A a, b \in Numbers :
        Plus(a, b) \in Numbers /\ Value(Plus(a, b)) = Saturated(Value(a) + Value(b))
<1> SUFFICES ASSUME NEW a \in Numbers, NEW b \in Numbers
             PROVE  Plus(a, b) \in Numbers /\ Value(Plus(a, b)) = Saturated(Value(a) + Value(b))
  OBVIOUS
<1>1. Top \in Nat \ {0} BY WordAssumption
<1>2. /\ a.value \in Nat /\ a.value < Top /\ a.negative \in BOOLEAN
      /\ b.value \in Nat /\ b.value < Top /\ b.negative \in BOOLEAN
      /\ Value(a) = (IF a.negative THEN a.value - Top ELSE a.value)
      /\ Value(b) = (IF b.negative THEN b.value - Top ELSE b.value)
  BY NumberFacts
<1> DEFINE sum == Word(a.value + b.value)
           carry == sum < a.value /\ sum < b.value
<1>3. /\ sum = (IF a.value + b.value < Top THEN a.value + b.value ELSE a.value + b.value - Top)
      /\ sum \in 0 .. AllOnes
  BY <1>1, <1>2, WordOf DEF AllOnes
<1>4. carry <=> a.value + b.value >= Top BY <1>1, <1>2, <1>3
<1> HIDE DEF sum, carry
<1>5. CASE a.negative # b.negative
  <2>1. Plus(a, b) = Number(sum, ~carry)
    <3>1. CASE a.negative /\ ~b.negative BY <1>5, <3>1 DEF Plus, sum, carry
    <3>2. CASE ~a.negative /\ b.negative BY <1>5, <3>2 DEF Plus, sum, carry
    <3> QED BY <1>2, <1>5, <3>1, <3>2
  <2>2. Plus(a, b).value = sum /\ Plus(a, b).negative = ~carry /\ Plus(a, b) \in Numbers
    BY <1>3, <2>1 DEF Number, Numbers, Words, carry
  <2>3. Value(Plus(a, b)) = (IF carry THEN sum ELSE sum - Top) BY <2>2 DEF Value
  <2> QED BY <1>1, <1>2, <1>3, <1>4, <1>5, <2>2, <2>3 DEF Saturated, AllOnes
<1>6. CASE a.negative /\ b.negative
  <2>1. Plus(a, b) = Number(IF carry THEN sum ELSE 0, TRUE) BY <1>2, <1>6 DEF Plus, sum, carry
  <2>2. /\ Plus(a, b).value = (IF carry THEN sum ELSE 0) /\ Plus(a, b).negative
        /\ Plus(a, b) \in Numbers
    BY <1>1, <1>3, <2>1 DEF Number, Numbers, Words, AllOnes
  <2>3. Value(Plus(a, b)) = (IF carry THEN sum ELSE 0) - Top BY <2>2 DEF Value
  <2> QED BY <1>1, <1>2, <1>3, <1>4, <1>6, <2>2, <2>3 DEF Saturated, AllOnes
<1>7. CASE ~a.negative /\ ~b.negative
  <2>1. Plus(a, b) = Number(IF carry THEN AllOnes ELSE sum, FALSE)
    BY <1>2, <1>7 DEF Plus, FromNat, sum, carry
  <2>2. /\ Plus(a, b).value = (IF carry THEN AllOnes ELSE sum) /\ ~Plus(a, b).negative
        /\ Plus(a, b) \in Numbers
    BY <1>1, <1>3, <2>1 DEF Number, Numbers, Words, AllOnes
  <2>3. Value(Plus(a, b)) = (IF carry THEN AllOnes ELSE sum) BY <2>2 DEF Value
  <2> QED BY <1>1, <1>2, <1>3, <1>4, <1>7, <2>2, <2>3 DEF Saturated, AllOnes
<1> QED BY <1>2, <1>5, <1>6, <1>7

(* Every number but the least has a negative. *)
LEMMA NegateNegates ==
    ASSUME NEW b \in Numbers, ~IsMinimum(b)
    PROVE  Negate(b) \in Numbers /\ Value(Negate(b)) = 0 - Value(b)
<1>1. Top \in Nat \ {0} BY WordAssumption
<1>2. /\ b.value \in Nat /\ b.value < Top /\ b.negative \in BOOLEAN
      /\ Value(b) = (IF b.negative THEN b.value - Top ELSE b.value)
  BY NumberFacts
<1>3. CASE b.value = 0
  <2>1. ~b.negative BY <1>3 DEF IsMinimum
  <2>2. Negate(b) = [value |-> 0, negative |-> FALSE] BY <1>3, <2>1 DEF Negate, FromNat, Number
  <2>3. Negate(b) \in Numbers BY <1>1, <2>2 DEF Numbers, Words, AllOnes
  <2>4. Value(Negate(b)) = 0 BY <2>2 DEF Value
  <2>5. Value(b) = 0 BY <1>2, <1>3, <2>1
  <2> QED BY <2>3, <2>4, <2>5
<1>4. CASE b.value # 0
  <2>1. Word(-b.value) = Top - b.value BY <1>1, <1>2, <1>4, WordOf
  <2>2. CASE b.negative
    <3>1. Negate(b) = [value |-> Top - b.value, negative |-> FALSE]
      BY <1>4, <2>1, <2>2 DEF Negate, Number
    <3> QED BY <1>1, <1>2, <1>4, <2>2, <3>1 DEF Numbers, Words, AllOnes, Value
  <2>3. CASE ~b.negative
    <3>1. Negate(b) = [value |-> Top - b.value, negative |-> TRUE]
      BY <1>4, <2>1, <2>3 DEF Negate, Number
    <3> QED BY <1>1, <1>2, <1>4, <2>3, <3>1 DEF Numbers, Words, AllOnes, Value
  <2> QED BY <1>2, <2>2, <2>3
<1> QED BY <1>3, <1>4

(* operator- is the difference, cut off at the ends, although the least      *)
(* number has no negative.                                                   *)
THEOREM SubtractSaturates ==
    \A a, b \in Numbers :
        Subtract(a, b) \in Numbers /\ Value(Subtract(a, b)) = Saturated(Value(a) - Value(b))
<1> SUFFICES ASSUME NEW a \in Numbers, NEW b \in Numbers
             PROVE  /\ Subtract(a, b) \in Numbers
                    /\ Value(Subtract(a, b)) = Saturated(Value(a) - Value(b))
  OBVIOUS
<1>1. Top \in Nat \ {0} BY WordAssumption
<1>2. /\ a.value \in Nat /\ a.value < Top /\ a.negative \in BOOLEAN
      /\ Value(a) = (IF a.negative THEN a.value - Top ELSE a.value)
      /\ Value(a) \in Int /\ Value(b) \in Int
  BY NumberFacts
<1>3. CASE ~IsMinimum(b)
  <2>1. Negate(b) \in Numbers /\ Value(Negate(b)) = 0 - Value(b) BY <1>3, NegateNegates
  <2>2. Subtract(a, b) = Plus(a, Negate(b)) BY <1>3 DEF Subtract
  <2>3. Value(a) + (0 - Value(b)) = Value(a) - Value(b) BY <1>2
  <2> QED BY <2>1, <2>2, <2>3, PlusSaturates
<1>4. CASE IsMinimum(b)
  <2>1. Value(b) = -Top BY <1>1, <1>4 DEF IsMinimum, Value
  <2>2. CASE a.negative
    <3>1. Subtract(a, b) = [value |-> a.value, negative |-> FALSE]
      BY <1>4, <2>2 DEF Subtract, FromNat, Number
    <3> QED BY <1>1, <1>2, <2>1, <2>2, <3>1 DEF Numbers, Words, AllOnes, Value, Saturated
  <2>3. CASE ~a.negative
    <3>1. Subtract(a, b) = [value |-> AllOnes, negative |-> FALSE]
      BY <1>4, <2>3 DEF Subtract, Greatest, Number
    <3> QED BY <1>1, <1>2, <2>1, <2>3, <3>1 DEF Numbers, Words, AllOnes, Value, Saturated
  <2> QED BY <1>2, <2>2, <2>3
<1> QED BY <1>3, <1>4

(* operator< is the order of the numbers that are meant. *)
THEOREM LessIsLess == \A a, b \in Numbers : Less(a, b) <=> Value(a) < Value(b)
<1> SUFFICES ASSUME NEW a \in Numbers, NEW b \in Numbers
             PROVE  Less(a, b) <=> Value(a) < Value(b)
  OBVIOUS
<1>1. Top \in Nat \ {0} BY WordAssumption
<1>2. /\ a.value \in Nat /\ a.value < Top /\ a.negative \in BOOLEAN
      /\ b.value \in Nat /\ b.value < Top /\ b.negative \in BOOLEAN
      /\ Value(a) = (IF a.negative THEN a.value - Top ELSE a.value)
      /\ Value(b) = (IF b.negative THEN b.value - Top ELSE b.value)
  BY NumberFacts
<1>3. CASE a.negative /\ b.negative BY <1>1, <1>2, <1>3 DEF Less
<1>4. CASE a.negative /\ ~b.negative
  <2>1. Value(a) < Value(b) BY <1>1, <1>2, <1>4
  <2> QED BY <1>4, <2>1 DEF Less
<1>5. CASE ~a.negative /\ b.negative
  <2>1. ~(Value(a) < Value(b)) BY <1>1, <1>2, <1>5
  <2>2. ~Less(a, b) BY <1>5 DEF Less
  <2> QED BY <2>1, <2>2
<1>6. CASE ~a.negative /\ ~b.negative BY <1>1, <1>2, <1>6 DEF Less
<1> QED BY <1>2, <1>3, <1>4, <1>5, <1>6

(* Two naturals whose product the word holds *)
LEMMA ProductBound ==
    ASSUME NEW x \in Nat \ {0}, NEW y \in Nat \ {0}, NEW m \in Nat
    PROVE  m \div x < y <=> x * y > m
<1> DEFINE q == m \div x
<1>1. q \in Int /\ q * x <= m /\ m < q * x + x
  <2>1. m = (x * q) + (m % x) /\ m % x \in 0 .. x - 1 /\ q \in Int OBVIOUS
  <2> QED BY <2>1
<1> HIDE DEF q
<1>2. q < y => x * y > m
  <2>1. ASSUME q + 1 <= y PROVE (q + 1) * x <= y * x BY <1>1, <2>1
  <2>2. (q + 1) * x = q * x + x BY <1>1
  <2> QED BY <1>1, <2>1, <2>2
<1>3. y <= q => x * y <= m
  <2>1. ASSUME y <= q PROVE y * x <= q * x BY <1>1, <2>1
  <2> QED BY <1>1, <2>1
<1> QED BY <1>1, <1>2, <1>3 DEF q

(* A number that is neither 0 nor the least has an absolute value in a word. *)
LEMMA AbsoluteFacts ==
    ASSUME NEW a \in Numbers, a.value # 0
    PROVE  /\ CopySign(a.value, a.negative) \in 1 .. AllOnes
           /\ Value(a) = IF a.negative THEN -CopySign(a.value, a.negative)
                         ELSE CopySign(a.value, a.negative)
<1>1. Top \in Nat \ {0} BY WordAssumption
<1>2. /\ a.value \in Nat /\ a.value < Top /\ a.negative \in BOOLEAN
      /\ Value(a) = (IF a.negative THEN a.value - Top ELSE a.value)
  BY NumberFacts
<1>3. Word(-a.value) = Top - a.value BY <1>1, <1>2, WordOf
<1> QED BY <1>1, <1>2, <1>3 DEF CopySign, AllOnes

(* A word that is not 0 with a sign *)
LEMMA SignedFacts ==
    ASSUME NEW n \in 1 .. AllOnes, NEW negative \in BOOLEAN
    PROVE  /\ Number(CopySign(n, negative), negative) \in Numbers
           /\ Value(Number(CopySign(n, negative), negative)) = IF negative THEN -n ELSE n
<1>1. Top \in Nat \ {0} BY WordAssumption
<1>2. Word(-n) = Top - n BY <1>1, WordOf DEF AllOnes
<1> QED BY <1>1, <1>2 DEF CopySign, Number, Numbers, Words, AllOnes, Value

(* The ends *)
LEMMA ExtremeFacts ==
    /\ Greatest \in Numbers /\ Value(Greatest) = AllOnes
    /\ Least \in Numbers /\ Value(Least) = -Top
<1>1. Top \in Nat \ {0} BY WordAssumption
<1> QED BY <1>1 DEF Greatest, Least, Number, Numbers, Words, AllOnes, Value

(* A product with zero or with the least number *)
LEMMA TimesZeroSaturates ==
    ASSUME NEW a \in Numbers, NEW b \in Numbers, a.value = 0
    PROVE  /\ TimesZero(a, b) \in Numbers
           /\ Value(TimesZero(a, b)) = Saturated(Value(a) * Value(b))
<1>1. Top \in Nat \ {0} BY WordAssumption
<1>2. /\ a.negative \in BOOLEAN /\ Value(a) = (IF a.negative THEN -Top ELSE 0)
      /\ b.value \in Nat /\ b.value < Top /\ b.negative \in BOOLEAN
      /\ Value(b) = (IF b.negative THEN b.value - Top ELSE b.value) /\ Value(b) \in Int
  BY <1>1, NumberFacts
<1>3. CASE ~a.negative
  <2>1. TimesZero(a, b) = a /\ Value(a) = 0 BY <1>2, <1>3 DEF TimesZero
  <2>2. 0 * Value(b) = 0 BY <1>2
  <2> QED BY <1>1, <2>1, <2>2 DEF Saturated, AllOnes
<1>4. CASE a.negative /\ b.negative
  <2>1. TimesZero(a, b) = Greatest BY <1>4 DEF TimesZero
  <2>2. Value(a) = -Top /\ -Value(b) >= 1 BY <1>1, <1>2, <1>4
  <2>3. Top * (-Value(b)) >= Top BY <1>1, <1>2, <2>2
  <2>4. Value(a) * Value(b) = Top * (-Value(b)) BY <1>1, <1>2, <2>2
  <2>5. Value(a) * Value(b) \in Int BY <1>1, <1>2, <2>2
  <2> QED BY <1>1, <2>1, <2>3, <2>4, <2>5, ExtremeFacts DEF Saturated, AllOnes
<1>5. CASE a.negative /\ ~b.negative /\ b.value = 0
  <2>1. TimesZero(a, b) = b /\ Value(b) = 0 BY <1>2, <1>5 DEF TimesZero
  <2>2. Value(a) * 0 = 0 BY <1>1, <1>2
  <2> QED BY <1>1, <2>1, <2>2 DEF Saturated, AllOnes
<1>6. CASE a.negative /\ ~b.negative /\ b.value # 0
  <2>1. TimesZero(a, b) = a BY <1>6 DEF TimesZero
  <2>2. Value(a) = -Top /\ Value(b) >= 1 BY <1>1, <1>2, <1>6
  <2>3. Top * Value(b) >= Top BY <1>1, <1>2, <2>2
  <2>4. Value(a) * Value(b) = -(Top * Value(b)) BY <1>1, <1>2, <2>2
  <2>5. Value(a) * Value(b) \in Int /\ Top * Value(b) \in Int BY <1>1, <1>2, <2>2
  <2> QED BY <1>1, <2>1, <2>2, <2>3, <2>4, <2>5 DEF Saturated, AllOnes
<1> QED BY <1>2, <1>3, <1>4, <1>5, <1>6

(* operator* is the product, cut off at the ends: the division by which it   *)
(* finds an overflow is exact.                                               *)
THEOREM TimesSaturates ==
    \A a, b \in Numbers :
        Times(a, b) \in Numbers /\ Value(Times(a, b)) = Saturated(Value(a) * Value(b))
<1> SUFFICES ASSUME NEW a \in Numbers, NEW b \in Numbers
             PROVE  /\ Times(a, b) \in Numbers
                    /\ Value(Times(a, b)) = Saturated(Value(a) * Value(b))
  OBVIOUS
<1>1. Top \in Nat \ {0} BY WordAssumption
<1>2. /\ a.negative \in BOOLEAN /\ Value(a) \in Int
      /\ b.negative \in BOOLEAN /\ Value(b) \in Int
  BY NumberFacts
<1>3. CASE a.value = 0
  <2>1. Times(a, b) = TimesZero(a, b) BY <1>3 DEF Times
  <2> QED BY <1>3, <2>1, TimesZeroSaturates
<1>4. CASE a.value # 0 /\ b.value = 0
  <2>1. Times(a, b) = TimesZero(b, a) BY <1>4 DEF Times
  <2>2. Value(b) * Value(a) = Value(a) * Value(b) BY <1>2
  <2> QED BY <1>4, <2>1, <2>2, TimesZeroSaturates
<1>5. CASE a.value # 0 /\ b.value # 0
  <2> DEFINE x == CopySign(a.value, a.negative)
             y == CopySign(b.value, b.negative)
             negative == a.negative # b.negative
             p == x * y
  <2>1. /\ x \in Nat \ {0} /\ y \in Nat \ {0}
        /\ Value(a) = (IF a.negative THEN -x ELSE x)
        /\ Value(b) = (IF b.negative THEN -y ELSE y)
    BY <1>1, <1>5, AbsoluteFacts DEF AllOnes
  <2>2. Times(a, b) = IF AllOnes \div x < y THEN Extreme(negative)
                      ELSE Number(CopySign(p, negative), negative)
    BY <1>5 DEF Times
  <2>3. AllOnes \in Nat BY <1>1 DEF AllOnes
  <2>4. negative \in BOOLEAN /\ (negative <=> ~(a.negative <=> b.negative)) BY <1>2
  <2> HIDE DEF x, y, negative
  <2>5. AllOnes \div x < y <=> p > AllOnes BY <2>1, <2>3, ProductBound
  <2>6. p \in Nat \ {0} BY <2>1
  <2>7. Value(a) * Value(b) = IF negative THEN -p ELSE p
    <3>1. CASE a.negative /\ b.negative
      <4>1. (-x) * (-y) = x * y BY <2>1
      <4> QED BY <2>1, <2>4, <3>1, <4>1
    <3>2. CASE a.negative /\ ~b.negative
      <4>1. (-x) * y = -(x * y) BY <2>1
      <4> QED BY <2>1, <2>4, <3>2, <4>1
    <3>3. CASE ~a.negative /\ b.negative
      <4>1. x * (-y) = -(x * y) BY <2>1
      <4> QED BY <2>1, <2>4, <3>3, <4>1
    <3>4. CASE ~a.negative /\ ~b.negative BY <2>1, <2>4, <3>4
    <3> QED BY <3>1, <3>2, <3>3, <3>4
  <2> HIDE DEF p
  <2>8. CASE p > AllOnes
    <3>1. Times(a, b) = IF negative THEN Least ELSE Greatest BY <2>2, <2>5, <2>8 DEF Extreme
    <3>2. Saturated(Value(a) * Value(b)) = IF negative THEN -Top ELSE AllOnes
      BY <1>1, <2>4, <2>6, <2>7, <2>8 DEF Saturated, AllOnes
    <3> QED BY <2>4, <3>1, <3>2, ExtremeFacts
  <2>9. CASE p <= AllOnes
    <3>1. Times(a, b) = Number(CopySign(p, negative), negative)
      BY <2>2, <2>3, <2>5, <2>6, <2>9
    <3>2. p \in 1 .. AllOnes BY <2>3, <2>6, <2>9
    <3>3. Saturated(Value(a) * Value(b)) = IF negative THEN -p ELSE p
      BY <1>1, <2>4, <2>6, <2>7, <2>9 DEF Saturated, AllOnes
    <3> QED BY <2>4, <3>1, <3>2, <3>3, SignedFacts
  <2> QED BY <2>3, <2>6, <2>8, <2>9
<1> QED BY <1>3, <1>4, <1>5

(* Division by its two bounds *)
LEMMA QuotientIs ==
    ASSUME NEW m \in Nat, NEW y \in Nat \ {0}, NEW q \in Int, q * y <= m, m < q * y + y
    PROVE  m \div y = q
<1> DEFINE d == m \div y
<1>1. d \in Int /\ d * y <= m /\ m < d * y + y
  <2>1. m = (y * d) + (m % y) /\ m % y \in 0 .. y - 1 /\ d \in Int OBVIOUS
  <2> QED BY <2>1
<1> HIDE DEF d
<1>2. ~(d + 1 <= q)
  <2>1. ASSUME d + 1 <= q PROVE (d + 1) * y <= q * y BY <1>1, <2>1
  <2>2. (d + 1) * y = d * y + y BY <1>1
  <2>3. d * y \in Int /\ q * y \in Int BY <1>1
  <2> QED BY <1>1, <2>1, <2>2, <2>3
<1>3. ~(q + 1 <= d)
  <2>1. ASSUME q + 1 <= d PROVE (q + 1) * y <= d * y BY <1>1, <2>1
  <2>2. (q + 1) * y = q * y + y OBVIOUS
  <2>3. d * y \in Int /\ q * y \in Int BY <1>1
  <2> QED BY <1>1, <2>1, <2>2, <2>3
<1> QED BY <1>1, <1>2, <1>3 DEF d

(* What a division of the greatest word by something other than a power of 2 *)
(* gives is what a division of the first number beyond it would give.        *)
LEMMA LeastDivided ==
    ASSUME NEW y \in 2 .. AllOnes
    PROVE  /\ Top \div y \in 0 .. AllOnes
           /\ ~(\E n \in 0 .. Bits : y = 2 ^ n) => AllOnes \div y = Top \div y
<1>1. Top \in Nat \ {0} BY WordAssumption
<1> DEFINE q == Top \div y
           r == Top % y
<1>2. y \in Nat \ {0} /\ 2 <= y /\ y \in 1 .. Top BY <1>1 DEF AllOnes
<1>3. Top = (y * q) + r /\ r \in 0 .. y - 1 /\ q \in Int BY <1>1, <1>2
<1>4. ~(\E n \in 0 .. Bits : y = 2 ^ n) => r # 0
  <2>1. Top % y = 0 => \E n \in 0 .. Bits : y = 2 ^ n
    BY <1>2, DivisorsOfPowers, WordAssumption DEF Top
  <2> QED BY <2>1
<1> HIDE DEF q, r
<1>5. y * q = q * y /\ q * y \in Int BY <1>2, <1>3
<1>6. q >= 0
  <2>1. ASSUME q + 1 <= 0 PROVE (q + 1) * y <= 0 BY <1>2, <1>3, <2>1
  <2>2. (q + 1) * y = q * y + y BY <1>2, <1>3
  <2> QED BY <1>1, <1>2, <1>3, <1>5, <2>1, <2>2
<1>7. q <= AllOnes
  <2>1. q * 2 <= q * y BY <1>2, <1>3, <1>6
  <2>2. q * 2 <= Top BY <1>1, <1>2, <1>3, <1>5, <2>1
  <2> QED BY <1>1, <1>3, <1>6, <2>2 DEF AllOnes
<1>8. ASSUME r # 0 PROVE AllOnes \div y = q
  <2>1. q * y <= AllOnes /\ AllOnes < q * y + y /\ AllOnes \in Nat
    BY <1>1, <1>2, <1>3, <1>5, <1>8 DEF AllOnes
  <2> QED BY <1>2, <1>3, <2>1, QuotientIs
<1>9. q \in 0 .. AllOnes BY <1>1, <1>3, <1>6, <1>7 DEF AllOnes
<1> QED BY <1>4, <1>8, <1>9 DEF q

(* The absolute value of a number, which only the least has beyond the words *)
LEMMA MagnitudeFacts ==
    ASSUME NEW a \in Numbers
    PROVE  /\ Value(a) < 0 <=> a.negative
           /\ IsMinimum(a) => Abs(Value(a)) = Top
           /\ ~IsMinimum(a) => /\ Abs(Value(a)) = CopySign(a.value, a.negative)
                               /\ Abs(Value(a)) \in 0 .. AllOnes
           /\ a.value # 0 => Abs(Value(a)) \in 1 .. AllOnes
<1>1. Top \in Nat \ {0} BY WordAssumption
<1>2. /\ a.value \in Nat /\ a.value < Top /\ a.negative \in BOOLEAN
      /\ Value(a) = (IF a.negative THEN a.value - Top ELSE a.value)
  BY NumberFacts
<1>3. CASE a.value # 0
  <2>1. ~IsMinimum(a) BY <1>3 DEF IsMinimum
  <2> QED BY <1>1, <1>2, <1>3, <2>1, AbsoluteFacts DEF Abs, AllOnes
<1>4. CASE a.value = 0 BY <1>1, <1>2, <1>4 DEF IsMinimum, Abs, CopySign, AllOnes
<1> QED BY <1>3, <1>4

(* operator/ is the quotient, cut off at the ends, for all but zero: also of *)
(* the least number, which it divides by shifts or as the greatest word.     *)
THEOREM DivideSaturates ==
    \A a, b \in Numbers : Value(b) # 0 =>
        /\ Divide(a, b) \in Numbers
        /\ Value(Divide(a, b)) = Saturated(Quotient(Value(a), Value(b)))
<1> SUFFICES ASSUME NEW a \in Numbers, NEW b \in Numbers, Value(b) # 0
             PROVE  /\ Divide(a, b) \in Numbers
                    /\ Value(Divide(a, b)) = Saturated(Quotient(Value(a), Value(b)))
  OBVIOUS
<1> DEFINE x == Abs(Value(a))
           y == Abs(Value(b))
           negative == a.negative # b.negative
<1>1. Top \in Nat \ {0} /\ AllOnes \in Nat /\ AllOnes = Top - 1
  BY WordAssumption DEF AllOnes
<1>2. a.negative \in BOOLEAN /\ b.negative \in BOOLEAN BY NumberFacts
<1>3. negative \in BOOLEAN /\ (negative <=> ~(a.negative <=> b.negative)) BY <1>2
<1>4. Quotient(Value(a), Value(b)) = IF negative THEN -(x \div y) ELSE x \div y
  <2>1. /\ Value(a) < 0 <=> a.negative
        /\ Value(b) < 0 <=> b.negative
    BY MagnitudeFacts
  <2>2. ((Value(a) < 0) = (Value(b) < 0)) <=> ~negative BY <1>2, <2>1
  <2> QED BY <2>2 DEF Quotient
<1>5. /\ IsMinimum(a) => x = Top
      /\ ~IsMinimum(a) => x = CopySign(a.value, a.negative) /\ x \in 0 .. AllOnes
  BY MagnitudeFacts
<1>6. CASE b.value = 0
  <2>1. b.negative /\ IsMinimum(b) BY <1>2, <1>6 DEF Value, IsMinimum
  <2>2. y = Top BY <2>1, MagnitudeFacts
  <2> HIDE DEF x, y, negative
  <2>3. Divide(a, b) = FromNat(IF IsMinimum(a) THEN 1 ELSE 0) BY <1>6, <2>1 DEF Divide
  <2>4. CASE IsMinimum(a)
    <3>1. x \div y = 1 BY <1>1, <1>5, <2>2, <2>4, QuotientIs
    <3>2. ~negative BY <1>3, <2>1, <2>4 DEF IsMinimum
    <3>3. Divide(a, b) = [value |-> 1, negative |-> FALSE]
      BY <2>3, <2>4 DEF FromNat, Number
    <3>4. Top # 1 BY WordAssumption
    <3> QED BY <1>1, <1>4, <3>1, <3>2, <3>3, <3>4 DEF Numbers, Words, Value, Saturated
  <2>5. CASE ~IsMinimum(a)
    <3>1. x \div y = 0 BY <1>1, <1>5, <2>2, <2>5, QuotientIs
    <3>2. Divide(a, b) = [value |-> 0, negative |-> FALSE]
      BY <2>3, <2>5 DEF FromNat, Number
    <3> QED BY <1>1, <1>3, <1>4, <3>1, <3>2 DEF Numbers, Words, Value, Saturated
  <2> QED BY <2>4, <2>5
<1>7. CASE b.value # 0
  <2>1. y \in 1 .. AllOnes /\ y = CopySign(b.value, b.negative)
    BY <1>7, MagnitudeFacts DEF IsMinimum
  <2>2. CASE IsMinimum(a) /\ y = 1
    <3>1. Divide(a, b) = Extreme(~b.negative) BY <1>7, <2>1, <2>2 DEF Divide
    <3>2. a.negative BY <2>2 DEF IsMinimum
    <3>3. Divide(a, b) = IF negative THEN Least ELSE Greatest
      BY <1>3, <3>1, <3>2 DEF Extreme
    <3> HIDE DEF x, y, negative
    <3>4. x \div y = Top BY <1>1, <1>5, <2>2, QuotientIs
    <3>5. Saturated(Quotient(Value(a), Value(b))) = IF negative THEN -Top ELSE AllOnes
      BY <1>1, <1>3, <1>4, <3>4 DEF Saturated
    <3> QED BY <1>3, <3>3, <3>5, ExtremeFacts
  <2>3. CASE ~(IsMinimum(a) /\ y = 1)
    <3> DEFINE q == x \div y
    <3>1. Divide(a, b) = Number(CopySign(q, negative), q # 0 /\ negative) /\ q \in 0 .. AllOnes
      <4> DEFINE power == \E n \in 0 .. Bits : y = 2 ^ n
                 quotient == IF ~IsMinimum(a) THEN CopySign(a.value, a.negative) \div y
                             ELSE IF power THEN Top \div y ELSE AllOnes \div y
      <4>1. Divide(a, b) = Number(CopySign(quotient, negative), quotient # 0 /\ negative)
        BY <1>7, <2>1, <2>3 DEF Divide
      <4> HIDE DEF x, y, negative
      <4>2. CASE IsMinimum(a)
        <5>1. y \in 2 .. AllOnes /\ x = Top BY <1>1, <1>5, <2>1, <2>3, <4>2
        <5>2. quotient = q /\ q \in 0 .. AllOnes BY <4>2, <5>1, LeastDivided
        <5> QED BY <4>1, <5>2
      <4>3. CASE ~IsMinimum(a)
        <5>1. quotient = q BY <1>5, <4>3
        <5>2. x \in Nat /\ x <= AllOnes /\ y \in Nat \ {0} /\ 1 <= y BY <1>1, <1>5, <2>1, <4>3
        <5> HIDE DEF q
        <5>3. q \in Nat /\ q <= x
          <6>1. x = (y * q) + (x % y) /\ x % y \in 0 .. y - 1 /\ q \in Int BY <5>2 DEF q
          <6>2. q >= 0
            <7>1. ASSUME q + 1 <= 0 PROVE (q + 1) * y <= 0 BY <5>2, <6>1, <7>1
            <7>2. (q + 1) * y = (y * q) + y /\ y * q \in Int BY <5>2, <6>1
            <7> QED BY <5>2, <6>1, <7>1, <7>2
          <6>3. q <= y * q BY <5>2, <6>1, <6>2
          <6> QED BY <5>2, <6>1, <6>2, <6>3
        <5>4. q \in 0 .. AllOnes BY <1>1, <5>2, <5>3
        <5> QED BY <4>1, <5>1, <5>4
      <4> QED BY <4>2, <4>3
    <3> HIDE DEF x, y, negative
    <3>2. Quotient(Value(a), Value(b)) = IF negative THEN -q ELSE q BY <1>4
    <3> HIDE DEF q
    <3>3. Saturated(Quotient(Value(a), Value(b))) = IF negative THEN -q ELSE q
      BY <1>1, <1>3, <3>1, <3>2 DEF Saturated
    <3>4. CASE q = 0
      <4>1. Word(-0) = 0 BY <1>1, WordOf
      <4>2. Divide(a, b) = [value |-> 0, negative |-> FALSE]
        BY <1>3, <3>1, <3>4, <4>1 DEF Number, CopySign
      <4> QED BY <1>1, <1>3, <3>3, <3>4, <4>2 DEF Numbers, Words, Value
    <3>5. CASE q # 0
      <4>1. q \in 1 .. AllOnes BY <1>1, <3>1, <3>5
      <4>2. Divide(a, b) = Number(CopySign(q, negative), negative) BY <1>3, <3>1, <3>5
      <4> QED BY <1>3, <3>3, <4>1, <4>2, SignedFacts
    <3> QED BY <3>4, <3>5
  <2> QED BY <2>2, <2>3
<1> QED BY <1>6, <1>7
-------------------------------------------------------------------------------
(* The bits of a word from the lowest up: WordAndTable is the function that  *)
(* its definition describes, for there is one on every initial segment.      *)
AndRow(f, a) == [b \in Words |-> IF a = 0 THEN 0 ELSE 2 * f[a \div 2][b \div 2] + (a % 2) * (b % 2)]
IsAndTable(f, n) == f = [a \in 0 .. n |-> AndRow(f, a)]

LEMMA HalfFacts ==
    ASSUME NEW x \in Nat
    PROVE  /\ x = 2 * (x \div 2) + (x % 2) /\ x \div 2 \in Nat /\ x % 2 \in {0, 1}
           /\ x \div 2 <= x /\ (x # 0 => x \div 2 < x)
OBVIOUS

LEMMA AndTableExists == \E f : IsAndTable(f, AllOnes)
<1> DEFINE Bad == {n \in Words : ~\E f : IsAndTable(f, n)}
<1>1. AllOnes \in Nat /\ Words = 0 .. AllOnes BY WordAssumption DEF AllOnes, Words
<1>2. ASSUME Bad # {} PROVE FALSE
  <2>1. Bad \in SUBSET Nat BY <1>1
  <2>2. PICK n \in Bad : \A m \in Bad : n <= m BY <1>2, <2>1, LeastElement
  <2>3. n \in 0 .. AllOnes /\ ~\E f : IsAndTable(f, n) BY <1>1, <2>2
  <2>4. \E g : \A a \in 0 .. n - 1 : g[a] = AndRow(g, a)
    <3>1. CASE n = 0 BY <3>1
    <3>2. CASE n # 0
      <4>1. n - 1 \in Words /\ n - 1 \notin Bad BY <1>1, <2>2, <2>3, <3>2
      <4>2. PICK g : IsAndTable(g, n - 1) BY <4>1
      <4>3. \A a \in 0 .. n - 1 : g[a] = AndRow(g, a) BY <4>2 DEF IsAndTable
      <4> QED BY <4>3
    <3> QED BY <3>1, <3>2
  <2>5. PICK g : \A a \in 0 .. n - 1 : g[a] = AndRow(g, a) BY <2>4
  <2> DEFINE f == [a \in 0 .. n |-> AndRow(g, a)]
  <2>6. \A a \in 0 .. n - 1 : f[a] = g[a] BY <2>3, <2>5, <1>1
  <2>7. ASSUME NEW a \in 0 .. n PROVE AndRow(f, a) = AndRow(g, a)
    <3>1. CASE a = 0 BY <3>1 DEF AndRow
    <3>2. CASE a # 0
      <4>1. a \div 2 \in 0 .. n - 1
        <5>1. a \in Nat /\ a <= n BY <1>1, <2>3
        <5> QED BY <3>2, <5>1, HalfFacts, <1>1, <2>3
      <4>2. f[a \div 2] = g[a \div 2] BY <2>6, <4>1
      <4> HIDE DEF f
      <4> QED BY <3>2, <4>2 DEF AndRow
    <3> QED BY <3>1, <3>2
  <2>8. IsAndTable(f, n)
    <3>1. [a \in 0 .. n |-> AndRow(f, a)] = [a \in 0 .. n |-> AndRow(g, a)] BY <2>7
    <3> QED BY <3>1 DEF IsAndTable
  <2> QED BY <2>3, <2>8
<1>3. AllOnes \in Words /\ AllOnes \notin Bad BY <1>1, <1>2
<1> QED BY <1>3

(* WordAnd takes the lowest bits and halves both words. *)
LEMMA AndStep ==
    ASSUME NEW a \in Words, NEW b \in Words
    PROVE  WordAnd(a, b) =
               IF a = 0 THEN 0 ELSE 2 * WordAnd(a \div 2, b \div 2) + (a % 2) * (b % 2)
<1>1. AllOnes \in Nat /\ Words = 0 .. AllOnes BY WordAssumption DEF AllOnes, Words
<1>2. WordAndTable =
        CHOOSE f : f = [x \in Words |-> [y \in Words |->
            IF x = 0 THEN 0 ELSE 2 * f[x \div 2][y \div 2] + (x % 2) * (y % 2)]]
  BY DEF WordAndTable
<1>3. \E f : f = [x \in Words |-> [y \in Words |->
            IF x = 0 THEN 0 ELSE 2 * f[x \div 2][y \div 2] + (x % 2) * (y % 2)]]
  BY <1>1, AndTableExists DEF IsAndTable, AndRow
<1>4. WordAndTable = [x \in Words |-> [y \in Words |->
            IF x = 0 THEN 0 ELSE 2 * WordAndTable[x \div 2][y \div 2] + (x % 2) * (y % 2)]]
  BY <1>2, <1>3
<1> QED BY <1>4 DEF WordAnd

LEMMA WordHalf ==
    ASSUME NEW a \in Words
    PROVE  /\ a \in Nat /\ a = 2 * (a \div 2) + (a % 2) /\ a \div 2 \in Words /\ a % 2 \in {0, 1}
           /\ a # 0 => a \div 2 < a
<1>1. AllOnes \in Nat /\ Words = 0 .. AllOnes BY WordAssumption DEF AllOnes, Words
<1>2. a \in Nat /\ a <= AllOnes BY <1>1
<1> QED BY <1>1, <1>2, HalfFacts

(* x & y is neither greater than x nor than y. *)
LEMMA AndBounds ==
    ASSUME NEW a \in Words, NEW b \in Words
    PROVE  WordAnd(a, b) \in Words /\ WordAnd(a, b) <= a /\ WordAnd(a, b) <= b
<1> DEFINE Good(x) == \A y \in Words : /\ WordAnd(x, y) \in Nat
                                       /\ WordAnd(x, y) <= x /\ WordAnd(x, y) <= y
           Bad == {x \in Words : ~Good(x)}
<1>1. AllOnes \in Nat /\ Words = 0 .. AllOnes BY WordAssumption DEF AllOnes, Words
<1>2. ASSUME Bad # {} PROVE FALSE
  <2>1. Bad \in SUBSET Nat BY <1>1
  <2>2. PICK x \in Bad : \A m \in Bad : x <= m BY <1>2, <2>1, LeastElement
  <2>3. x \in Words /\ ~Good(x) BY <2>2
  <2>4. ASSUME NEW y \in Words
        PROVE  WordAnd(x, y) \in Nat /\ WordAnd(x, y) <= x /\ WordAnd(x, y) <= y
    <3>1. CASE x = 0
      <4>1. WordAnd(x, y) = 0 BY <2>3, <3>1, AndStep
      <4> QED BY <1>1, <3>1, <4>1
    <3>2. CASE x # 0
      <4> DEFINE p == x \div 2
                 q == y \div 2
                 c == x % 2
                 d == y % 2
      <4>1. /\ x \in Nat /\ x = 2 * p + c /\ p \in Words /\ c \in {0, 1} /\ p < x
            /\ y \in Nat /\ y = 2 * q + d /\ q \in Words /\ d \in {0, 1}
        BY <2>3, <3>2, WordHalf
      <4>2. WordAnd(x, y) = 2 * WordAnd(p, q) + c * d BY <2>3, <3>2, AndStep
      <4> HIDE DEF p, q, c, d
      <4>3. p \notin Bad BY <1>1, <2>2, <4>1
      <4>4. WordAnd(p, q) \in Nat /\ WordAnd(p, q) <= p /\ WordAnd(p, q) <= q
        BY <4>1, <4>3
      <4>5. c * d \in {0, 1} /\ c * d <= c /\ c * d <= d BY <4>1
      <4>6. p \in Nat /\ q \in Nat BY <1>1, <4>1
      <4> QED BY <4>1, <4>2, <4>4, <4>5, <4>6
    <3> QED BY <3>1, <3>2
  <2> QED BY <2>3, <2>4
<1>3. WordAnd(a, b) \in Nat /\ WordAnd(a, b) <= a /\ WordAnd(a, b) <= b BY <1>2
<1> QED BY <1>1, <1>3

LEMMA AndHalves ==
    ASSUME NEW a \in Words, NEW b \in Words
    PROVE  WordAnd(a, b) = 2 * WordAnd(a \div 2, b \div 2) + (a % 2) * (b % 2)
<1>1. CASE a = 0
  <2>1. a \div 2 = 0 /\ a % 2 = 0 /\ b \div 2 \in Words /\ b % 2 \in {0, 1} /\ 0 \in Words
    BY <1>1, WordHalf
  <2>2. WordAnd(0, b) = 0 /\ WordAnd(0, b \div 2) = 0 BY <2>1, AndStep
  <2> QED BY <1>1, <2>1, <2>2
<1>2. CASE a # 0 BY <1>2, AndStep
<1> QED BY <1>1, <1>2

LEMMA AndCommutes ==
    ASSUME NEW a \in Words, NEW b \in Words
    PROVE  WordAnd(a, b) = WordAnd(b, a)
<1> DEFINE Good(x) == \A y \in Words : WordAnd(x, y) = WordAnd(y, x)
           Bad == {x \in Words : ~Good(x)}
<1>1. AllOnes \in Nat /\ Words = 0 .. AllOnes BY WordAssumption DEF AllOnes, Words
<1>2. ASSUME Bad # {} PROVE FALSE
  <2>1. Bad \in SUBSET Nat BY <1>1
  <2>2. PICK x \in Bad : \A m \in Bad : x <= m BY <1>2, <2>1, LeastElement
  <2>3. x \in Words /\ ~Good(x) BY <2>2
  <2>4. ASSUME NEW y \in Words PROVE WordAnd(x, y) = WordAnd(y, x)
    <3>1. CASE x = 0
      <4>1. /\ WordAnd(x, y) \in Words /\ WordAnd(x, y) <= x
            /\ WordAnd(y, x) \in Words /\ WordAnd(y, x) <= x
        BY <2>3, AndBounds
      <4> QED BY <1>1, <3>1, <4>1
    <3>2. CASE x # 0
      <4> DEFINE p == x \div 2
                 q == y \div 2
                 c == x % 2
                 d == y % 2
      <4>1. p \in Words /\ q \in Words /\ x \in Nat /\ p < x /\ c \in {0, 1} /\ d \in {0, 1}
        BY <2>3, <3>2, WordHalf
      <4>2. WordAnd(x, y) = 2 * WordAnd(p, q) + c * d /\ WordAnd(y, x) = 2 * WordAnd(q, p) + d * c
        BY <2>3, AndHalves
      <4> HIDE DEF p, q, c, d
      <4>3. p \notin Bad BY <1>1, <2>2, <4>1
      <4>4. WordAnd(p, q) = WordAnd(q, p) BY <4>1, <4>3
      <4>5. c * d = d * c BY <4>1
      <4> QED BY <4>2, <4>4, <4>5
    <3> QED BY <3>1, <3>2
  <2> QED BY <2>3, <2>4
<1> QED BY <1>2

LEMMA ModTwice ==
    ASSUME NEW x \in Nat, NEW p \in Nat \ {0}
    PROVE  /\ x \div (2 * p) = (x \div 2) \div p
           /\ x % (2 * p) = 2 * ((x \div 2) % p) + (x % 2)
           /\ (x % (2 * p)) \div 2 = (x \div 2) % p
           /\ (x % (2 * p)) % 2 = x % 2
<1> DEFINE h == x \div 2
           c == x % 2
           q == h \div p
           r == h % p
<1>1. x = 2 * h + c /\ h \in Nat /\ c \in 0 .. 1 BY HalfFacts
<1> HIDE DEF h, c
<1>2. h = p * q + r /\ q \in Int /\ r \in 0 .. p - 1 BY <1>1
<1> HIDE DEF q, r
<1> DEFINE m == 2 * p
           s == 2 * r + c
<1>3. m \in Nat \ {0} /\ s \in 0 .. m - 1 BY <1>1, <1>2
<1>4. m * q = 2 * (p * q) /\ p * q \in Int BY <1>2
<1>5. x = m * q + s BY <1>1, <1>2, <1>4
<1> HIDE DEF m
<1>6. (m * q + s) \div m = q /\ (m * q + s) % m = s
  <2> HIDE DEF s
  <2> QED BY <1>2, <1>3, DivUnique
<1>7. (2 * r + c) \div 2 = r /\ (2 * r + c) % 2 = c BY <1>1, <1>2, DivUnique
<1>8. x \div m = q /\ x % m = s BY <1>5, <1>6
<1> QED BY <1>7, <1>8 DEF m, h, c, q, r

LEMMA WordDivMod ==
    ASSUME NEW z \in Words, NEW m \in Nat \ {0}
    PROVE  z % m \in Words /\ z \div m \in Words
<1> DEFINE q == z \div m
           r == z % m
<1>1. AllOnes \in Nat /\ Words = 0 .. AllOnes BY WordAssumption DEF AllOnes, Words
<1>2. z \in Nat /\ z <= AllOnes BY <1>1
<1>3. z = m * q + r /\ q \in Int /\ r \in Nat /\ r < m BY <1>2
<1> HIDE DEF q, r
<1>4. q >= 0
  <2>1. ASSUME q + 1 <= 0 PROVE m * (q + 1) <= 0 BY <1>3, <2>1
  <2>2. m * (q + 1) = m * q + m /\ m * q \in Int BY <1>3
  <2> QED BY <1>2, <1>3, <2>1, <2>2
<1>5. q <= m * q /\ m * q \in Int BY <1>3, <1>4
<1>6. q <= z /\ r <= z BY <1>2, <1>3, <1>4, <1>5
<1>7. q \in Words /\ r \in Words BY <1>1, <1>2, <1>3, <1>4, <1>6
<1> QED BY <1>7 DEF q, r

(* The bits above and below any place are taken for themselves. *)
LEMMA AndSplit ==
    ASSUME NEW a \in Words, NEW b \in Words, NEW k \in 0 .. Bits
    PROVE  WordAnd(a, b) = 2 ^ k * WordAnd(a \div 2 ^ k, b \div 2 ^ k)
                               + WordAnd(a % 2 ^ k, b % 2 ^ k)
<1> DEFINE Good(n) == \A x, y \in Words :
               WordAnd(x, y) = 2 ^ n * WordAnd(x \div 2 ^ n, y \div 2 ^ n)
                                   + WordAnd(x % 2 ^ n, y % 2 ^ n)
           Bad == {n \in 0 .. Bits : ~Good(n)}
<1>1. AllOnes \in Nat /\ Words = 0 .. AllOnes /\ Bits \in Nat BY WordAssumption DEF AllOnes, Words
<1>2. ASSUME Bad # {} PROVE FALSE
  <2>1. Bad \in SUBSET Nat BY <1>1
  <2>2. PICK n \in Bad : \A m \in Bad : n <= m BY <1>2, <2>1, LeastElement
  <2>3. n \in 0 .. Bits /\ ~Good(n) BY <2>2
  <2>4. CASE n = 0
    <3>1. ASSUME NEW x \in Words, NEW y \in Words
          PROVE  WordAnd(x, y) = 1 * WordAnd(x \div 1, y \div 1) + WordAnd(x % 1, y % 1)
      <4>1. x \div 1 = x /\ x % 1 = 0 /\ y \div 1 = y /\ y % 1 = 0 /\ 0 \in Words BY <1>1
      <4>2. WordAnd(0, 0) = 0 BY <4>1, AndStep
      <4>3. WordAnd(x, y) \in Words BY AndBounds
      <4>4. WordAnd(x, y) \in Nat BY <1>1, <4>3
      <4> QED BY <4>1, <4>2, <4>4
    <3>2. 2 ^ n = 1 BY <2>4, PowerSteps
    <3> QED BY <2>3, <3>1, <3>2
  <2>5. CASE n # 0
    <3> DEFINE j == n - 1
               p == 2 ^ j
    <3>1. j \in 0 .. Bits /\ j + 1 = n /\ ~(n <= j) BY <1>1, <2>3, <2>5
    <3>2. p \in Nat \ {0} /\ 2 ^ n = 2 * p BY <3>1, PowerSteps
    <3>3. Good(j) BY <2>2, <3>1
    <3>4. ASSUME NEW x \in Words, NEW y \in Words
          PROVE  WordAnd(x, y) = 2 ^ n * WordAnd(x \div 2 ^ n, y \div 2 ^ n)
                                     + WordAnd(x % 2 ^ n, y % 2 ^ n)
      <4> DEFINE g == x \div 2
                 h == y \div 2
                 c == x % 2
                 d == y % 2
                 u == WordAnd(g \div p, h \div p)
                 v == WordAnd(g % p, h % p)
                 s == x % (2 * p)
                 t == y % (2 * p)
      <4>1. /\ x \in Nat /\ y \in Nat /\ g \in Words /\ h \in Words
            /\ c \in {0, 1} /\ d \in {0, 1}
        BY WordHalf
      <4>2. WordAnd(x, y) = 2 * WordAnd(g, h) + c * d BY AndHalves
      <4>3. WordAnd(g, h) = p * u + v BY <3>3, <4>1
      <4>4. /\ x \div (2 * p) = g \div p /\ s \div 2 = g % p /\ s % 2 = c
            /\ y \div (2 * p) = h \div p /\ t \div 2 = h % p /\ t % 2 = d
        BY <3>2, <4>1, ModTwice
      <4>5. s \in Words /\ t \in Words /\ g \div p \in Words /\ h \div p \in Words
            /\ g % p \in Words /\ h % p \in Words
        <5> HIDE DEF g, h
        <5>1. 2 * p \in Nat \ {0} BY <3>2
        <5> QED BY <3>2, <4>1, <5>1, WordDivMod
      <4>6. WordAnd(s, t) = 2 * v + c * d
        <5>1. WordAnd(s, t) = 2 * WordAnd(s \div 2, t \div 2) + (s % 2) * (t % 2)
          <6> HIDE DEF s, t
          <6> QED BY <4>5, AndHalves
        <5> QED BY <4>4, <5>1
      <4>7. u \in Nat /\ v \in Nat /\ c * d \in Nat
        <5> HIDE DEF g, h
        <5>1. u \in Words /\ v \in Words BY <4>5, AndBounds
        <5>2. c * d \in Nat BY <4>1
        <5> QED BY <1>1, <5>1, <5>2
      <4>8. WordAnd(x \div (2 * p), y \div (2 * p)) = u BY <4>4
      <4> HIDE DEF u, v, c, d, g, h, p
      <4>9. WordAnd(x, y) = 2 * (p * u + v) + c * d BY <4>2, <4>3
      <4>10. (2 * p) * u = 2 * (p * u) /\ p * u \in Int BY <3>2, <4>7
      <4>11. WordAnd(x, y) = (2 * p) * u + (2 * v + c * d) BY <4>7, <4>9, <4>10
      <4> QED BY <3>2, <4>6, <4>8, <4>11
    <3> QED BY <2>3, <3>4
  <2> QED BY <2>4, <2>5
<1> QED BY <1>2
-------------------------------------------------------------------------------
(* The integral types: the numbers of a type, and the words that stand for   *)
(* them                                                                      *)
Size(t) == 2 ^ Width[t]
Half(t) == 2 ^ (Width[t] - 1)
NumbersOf(t) == IF t \in Unsigned THEN 0 .. Size(t) - 1 ELSE -Half(t) .. Half(t) - 1

LEMMA TypeFacts ==
    ASSUME NEW t \in Types
    PROVE  /\ Width[t] \in 0 .. Bits /\ Width[t] - 1 \in 0 .. Bits
           /\ Size(t) \in Nat \ {0} /\ Half(t) \in Nat \ {0} /\ Size(t) = 2 * Half(t)
           /\ Top \in Nat \ {0} /\ Size(t) <= Top
           /\ Top \div 2 \in Nat /\ Top = 2 * (Top \div 2)
<1>1. Bits \in Nat \ {0} /\ Width[t] \in 1 .. Bits BY WordAssumption, TypesAssumption DEF Types
<1>2. Width[t] \in 0 .. Bits /\ Width[t] - 1 \in 0 .. Bits /\ (Width[t] - 1) + 1 = Width[t]
  BY <1>1
<1>3. Size(t) \in Nat \ {0} /\ Half(t) \in Nat \ {0} /\ Size(t) = 2 * Half(t)
  BY <1>2, PowerSteps DEF Size, Half
<1>4. Top \in Nat \ {0} /\ Size(t) <= Top BY <1>2, <1>3, PowerDivides DEF Size
<1>5. Top = 2 * 2 ^ (Bits - 1) /\ 2 ^ (Bits - 1) \in Nat
  <2>1. Bits - 1 \in 0 .. Bits /\ (Bits - 1) + 1 = Bits BY <1>1
  <2> QED BY <2>1, PowerSteps DEF Top
<1> QED BY <1>2, <1>3, <1>4, <1>5

(* What is kept of a number in a register is a number of the type. *)
LEMMA WrappedFacts ==
    ASSUME NEW t \in Types, t # "bool", NEW n \in Int
    PROVE  Wrapped(n, t) \in NumbersOf(t) /\ Wrapped(n, t) % Size(t) = n % Size(t)
<1> DEFINE low == n % Size(t)
<1>1. Size(t) \in Nat \ {0} /\ Half(t) \in Nat \ {0} /\ Size(t) = 2 * Half(t) BY TypeFacts
<1>2. low \in 0 .. Size(t) - 1 BY <1>1, DivMod
<1>3. Wrapped(n, t) = IF t \notin Unsigned /\ low >= Half(t) THEN low - Size(t) ELSE low
  BY DEF Wrapped, Size, Half
<1> HIDE DEF low
<1>4. Wrapped(n, t) \in NumbersOf(t) BY <1>1, <1>2, <1>3 DEF NumbersOf
<1>5. low % Size(t) = low BY <1>1, <1>2, ModSmall
<1>6. (low + Size(t) * (-1)) % Size(t) = low % Size(t) BY <1>1, <1>2, ModMultiple
<1>7. low - Size(t) = low + Size(t) * (-1) BY <1>1, <1>2
<1> QED BY <1>3, <1>4, <1>5, <1>6, <1>7 DEF low

(* A type has one number for every remainder. *)
LEMMA NumberUnique ==
    ASSUME NEW t \in Types, NEW m \in NumbersOf(t), NEW n \in NumbersOf(t), m % Size(t) = n % Size(t)
    PROVE  m = n
<1>1. Size(t) \in Nat \ {0} /\ Half(t) \in Nat \ {0} /\ Size(t) = 2 * Half(t) BY TypeFacts
<1>2. m \in Int /\ n \in Int /\ m - n < Size(t) /\ n - m < Size(t) BY <1>1 DEF NumbersOf
<1>3. PICK k \in Int : m = n + Size(t) * k BY <1>1, <1>2, ModWitness
<1>4. CASE k >= 1
  <2>1. Size(t) * 1 <= Size(t) * k BY <1>1, <1>4
  <2> QED BY <1>1, <1>2, <1>3, <2>1
<1>5. CASE k <= -1
  <2>1. Size(t) * k <= Size(t) * (-1) BY <1>1, <1>5
  <2> QED BY <1>1, <1>2, <1>3, <2>1
<1>6. CASE k = 0
  <2>1. Size(t) * 0 = 0 BY <1>1
  <2> QED BY <1>2, <1>3, <1>6, <2>1
<1> QED BY <1>4, <1>5, <1>6

LEMMA WrappedSelf ==
    ASSUME NEW t \in Types, t # "bool", NEW n \in NumbersOf(t)
    PROVE  Wrapped(n, t) = n
<1>1. n \in Int BY TypeFacts DEF NumbersOf
<1> QED BY <1>1, WrappedFacts, NumberUnique

LEMMA WrappedSame ==
    ASSUME NEW t \in Types, t # "bool", NEW m \in Int, NEW n \in Int, m % Size(t) = n % Size(t)
    PROVE  Wrapped(m, t) = Wrapped(n, t)
BY WrappedFacts, NumberUnique

(* A word means the number of the type that it is the word of. *)
LEMMA MeaningOfWord ==
    ASSUME NEW t \in Types, NEW n \in NumbersOf(t)
    PROVE  /\ n \in Int /\ Word(n) \in Words /\ Word(n) % Size(t) = n % Size(t)
           /\ Word(n) = (IF n < 0 THEN n + Top ELSE n)
           /\ Meaning(Word(n), t) = n
<1>1. /\ Size(t) \in Nat \ {0} /\ Half(t) \in Nat \ {0} /\ Size(t) = 2 * Half(t)
      /\ Top \in Nat \ {0} /\ Size(t) <= Top
      /\ Top \div 2 \in Nat /\ Top = 2 * (Top \div 2)
  BY TypeFacts
<1> DEFINE h == Top \div 2
<1>2. h \in Nat /\ Top = 2 * h BY <1>1
<1>3. n \in Int /\ -h <= n /\ n < Top /\ (t \notin Unsigned => n < h) /\ (t \in Unsigned => 0 <= n)
  <2> HIDE DEF h
  <2> QED BY <1>1, <1>2 DEF NumbersOf
<1>4. Word(n) = IF n < 0 THEN n + Top ELSE n BY <1>1, <1>2, <1>3, WordOf
<1>5. Word(n) \in Words /\ Word(n) % Size(t) = n % Size(t) BY <1>3, TypeFacts, WordMod DEF Size
<1>6. Meaning(Word(n), t) = IF t \in Unsigned THEN Word(n)
                            ELSE IF Word(n) >= h THEN Word(n) - Top ELSE Word(n)
  BY DEF Meaning, Signed
<1> HIDE DEF h
<1>7. Meaning(Word(n), t) = n BY <1>2, <1>3, <1>4, <1>6
<1> QED BY <1>3, <1>4, <1>5, <1>7

(* IntegerExp::normalize leaves the word of what a register of the type      *)
(* keeps.                                                                    *)
LEMMA NormalizeIs ==
    ASSUME NEW t \in Types, t # "bool", NEW w \in Int, NEW n \in Int, w % Size(t) = n % Size(t)
    PROVE  Normalize(w, t) = Word(Wrapped(n, t))
<1> DEFINE low == n % Size(t)
<1>1. /\ Size(t) \in Nat \ {0} /\ Half(t) \in Nat \ {0} /\ Size(t) = 2 * Half(t)
      /\ Top \in Nat \ {0} /\ Size(t) <= Top
  BY TypeFacts
<1>2. low \in 0 .. Size(t) - 1 BY <1>1, DivMod
<1>3. Wrapped(n, t) = IF t \notin Unsigned /\ low >= Half(t) THEN low - Size(t) ELSE low
  BY DEF Wrapped, Size, Half
<1>4. Normalize(w, t) = IF t \notin Unsigned /\ low >= Half(t) THEN Word(low - Size(t)) ELSE low
  BY DEF Normalize, Size, Half
<1> HIDE DEF low
<1>5. Word(low) = low BY <1>1, <1>2, WordOf
<1> QED BY <1>3, <1>4, <1>5
-------------------------------------------------------------------------------
(* The operators agree on numbers and on their words.                        *)
Congruent(a, x, m) == a % m = x % m

LEMMA SumsAgree ==
    ASSUME NEW m \in Nat \ {0}, NEW a \in Int, NEW b \in Int, NEW x \in Int, NEW y \in Int,
           Congruent(a, x, m), Congruent(b, y, m)
    PROVE  /\ Congruent(a + b, x + y, m)
           /\ Congruent(a - b, x - y, m)
           /\ Congruent(a * b, x * y, m)
<1>1. PICK i \in Int : a = x + m * i BY ModWitness DEF Congruent
<1>2. PICK j \in Int : b = y + m * j BY ModWitness DEF Congruent
<1>3. m * i \in Int /\ m * j \in Int OBVIOUS
<1> DEFINE s == x + y
           d == x - y
           i1 == i + j
           i2 == i - j
<1>4. (s + m * i1) % m = s % m /\ (d + m * i2) % m = d % m
  <2>1. s \in Int /\ d \in Int /\ i1 \in Int /\ i2 \in Int OBVIOUS
  <2> HIDE DEF s, d, i1, i2
  <2> QED BY <2>1, ModMultiple
<1>5. a + b = x + y + m * (i + j)
  <2>1. m * (i + j) = m * i + m * j OBVIOUS
  <2> QED BY <1>1, <1>2, <1>3, <2>1
<1>6. a - b = x - y + m * (i - j)
  <2>1. m * (i - j) = m * i - m * j OBVIOUS
  <2> QED BY <1>1, <1>2, <1>3, <2>1
<1> DEFINE k == x * j + y * i + m * (i * j)
<1>7. k \in Int /\ x * y \in Int OBVIOUS
<1>8. a * b = x * y + m * k
  <2>1. (x + m * i) * (y + m * j) = x * y + m * (x * j + y * i + m * (i * j)) OBVIOUS
  <2> QED BY <1>1, <1>2, <2>1
<1> HIDE DEF k
<1>9. (x * y + m * k) % m = (x * y) % m BY <1>7, ModMultiple
<1> QED BY <1>4, <1>5, <1>6, <1>8, <1>9 DEF Congruent

(* The bitwise operators do not look beyond the bits of the type. *)
LEMMA BitwiseAgree ==
    ASSUME NEW t \in Types, NEW a \in Words, NEW b \in Words
    PROVE  LET c == a % Size(t)
               d == b % Size(t)
           IN  /\ c \in Words /\ d \in Words
               /\ WordAnd(a, b) \in Int /\ WordAnd(c, d) \in Int
               /\ WordAnd(a, b) % Size(t) = WordAnd(c, d) % Size(t)
               /\ WordOr(a, b) % Size(t) = WordOr(c, d) % Size(t)
               /\ WordXor(a, b) % Size(t) = WordXor(c, d) % Size(t)
<1> DEFINE m == Size(t)
           c == a % m
           d == b % m
           g == a \div m
           h == b \div m
           q == WordAnd(g, h)
           r == WordAnd(c, d)
<1>1. m \in Nat \ {0} /\ Width[t] \in 0 .. Bits BY TypeFacts
<1>2. AllOnes \in Nat /\ Words = 0 .. AllOnes BY WordAssumption DEF AllOnes, Words
<1>3. a \in Int /\ b \in Int BY <1>2
<1> HIDE DEF m
<1>4. a = m * g + c /\ b = m * h + d /\ g \in Int /\ h \in Int /\ c \in Int /\ d \in Int
  BY <1>1, <1>3, DivMod
<1>5. c \in Words /\ d \in Words /\ g \in Words /\ h \in Words BY <1>1, WordDivMod
<1>6. WordAnd(a, b) = m * q + r BY <1>1, AndSplit DEF m, Size
<1> HIDE DEF c, d, g, h
<1>7. q \in Int /\ r \in Int
  <2>1. q \in Words /\ r \in Words BY <1>5, AndBounds
  <2> QED BY <1>2, <2>1
<1> HIDE DEF q, r
<1>8. m * g \in Int /\ m * h \in Int /\ m * q \in Int BY <1>1, <1>4, <1>7
<1>9. WordAnd(a, b) = r + m * q /\ (r + m * q) % m = r % m
  <2>1. (r + m * q) % m = r % m BY <1>1, <1>7, ModMultiple
  <2>2. WordAnd(a, b) = r + m * q BY <1>6, <1>7, <1>8
  <2> QED BY <2>1, <2>2
<1> DEFINE u == g + h - q
           v == g + h - 2 * q
<1>10. WordOr(a, b) = (c + d - r) + m * u
  <2>1. m * (g + h - q) = m * g + m * h - m * q BY <1>1, <1>4, <1>7
  <2> QED BY <1>4, <1>6, <1>7, <1>8, <2>1 DEF WordOr
<1>11. WordXor(a, b) = (c + d - 2 * r) + m * v
  <2>1. m * (g + h - 2 * q) = m * g + m * h - 2 * (m * q) BY <1>1, <1>4, <1>7
  <2> QED BY <1>4, <1>6, <1>7, <1>8, <2>1 DEF WordXor
<1>12. u \in Int /\ v \in Int /\ c + d - r \in Int /\ c + d - 2 * r \in Int BY <1>4, <1>7
<1> HIDE DEF u, v
<1>13. /\ ((c + d - r) + m * u) % m = (c + d - r) % m
       /\ ((c + d - 2 * r) + m * v) % m = (c + d - 2 * r) % m
  BY <1>1, <1>12, ModMultiple
<1>14. WordOr(c, d) = c + d - r /\ WordXor(c, d) = c + d - 2 * r
  BY DEF WordOr, WordXor, r
<1>15. /\ WordAnd(a, b) % m = r % m
       /\ WordOr(a, b) % m = WordOr(c, d) % m
       /\ WordXor(a, b) % m = WordXor(c, d) % m
  BY <1>9, <1>10, <1>11, <1>13, <1>14
<1>16. WordAnd(a, b) \in Int BY <1>7, <1>8, <1>9
<1> QED BY <1>5, <1>7, <1>15, <1>16 DEF m, c, d, r

(* Division towards zero gives an integer. *)
LEMMA QuotientInt ==
    ASSUME NEW a \in Int, NEW b \in Int, b # 0
    PROVE  /\ Quotient(a, b) \in Int /\ Remainder(a, b) \in Int
           /\ (a >= 0 /\ b >= 0 => Quotient(a, b) = a \div b /\ Remainder(a, b) = a % b)
<1>1. Abs(a) \in Nat /\ Abs(b) \in Nat \ {0} BY DEF Abs
<1>2. Abs(a) \div Abs(b) \in Int BY <1>1, DivMod
<1>3. Quotient(a, b) \in Int BY <1>2 DEF Quotient
<1>4. b * Quotient(a, b) \in Int BY <1>3
<1>5. Remainder(a, b) \in Int BY <1>4 DEF Remainder
<1>6. ASSUME a >= 0, b >= 0 PROVE Quotient(a, b) = a \div b /\ Remainder(a, b) = a % b
  <2>1. Abs(a) = a /\ Abs(b) = b /\ ~(a < 0) /\ ~(b < 0) BY <1>6 DEF Abs
  <2>2. Quotient(a, b) = a \div b BY <2>1 DEF Quotient
  <2>3. b \in Nat \ {0} BY <1>6
  <2>4. a = b * (a \div b) + (a % b) /\ b * (a \div b) \in Int /\ a % b \in Int
    <3>1. a = b * (a \div b) + (a % b) /\ a \div b \in Int /\ a % b \in Int BY <2>3, DivMod
    <3> QED BY <3>1
  <2>5. a % b = a - b * (a \div b) BY <2>4
  <2> QED BY <2>2, <2>5 DEF Remainder
<1> QED BY <1>3, <1>5, <1>6

(* constfold.c computes on the words of two numbers of a type the word of    *)
(* what compiled code computes on the numbers.                               *)
LEMMA BinaryAgrees ==
    ASSUME NEW t \in Types, t # "bool", NEW op \in Arithmetic,
           NEW x \in NumbersOf(t), NEW y \in NumbersOf(t),
           op \in {"/", "%"} => ~DivError(Word(x), Word(y), t)
    PROVE  /\ RunBin(op, x, y, t) \in NumbersOf(t)
           /\ FoldBin(op, Word(x), Word(y), t) = Word(RunBin(op, x, y, t))
<1> DEFINE m == Size(t)
           a == Word(x)
           b == Word(y)
<1>1. m \in Nat \ {0} /\ Width[t] \in 0 .. Bits BY TypeFacts
<1>2. /\ x \in Int /\ a \in Words /\ a % m = x % m /\ Meaning(a, t) = x
      /\ y \in Int /\ b \in Words /\ b % m = y % m /\ Meaning(b, t) = y
  BY MeaningOfWord
<1>3. AllOnes \in Nat /\ Words = 0 .. AllOnes BY WordAssumption DEF AllOnes, Words
<1>4. a \in Int /\ b \in Int BY <1>2, <1>3
<1> HIDE DEF a, b
<1> DEFINE Agree(w, n) == w \in Int /\ n \in Int /\ w % m = n % m
<1>5. ASSUME NEW w, NEW n, Agree(w, n)
      PROVE  Wrapped(n, t) \in NumbersOf(t) /\ Normalize(w, t) = Word(Wrapped(n, t))
  BY <1>5, WrappedFacts, NormalizeIs
<1>6. ASSUME NEW w \in Int, NEW n \in Int, w % m = n % m PROVE Agree(Word(w), n)
  <2>1. Word(w) % m = w % m /\ Word(w) \in Words BY <1>1, WordMod DEF Size
  <2> QED BY <1>3, <1>6, <2>1
<1>7. CASE op \in {"+", "-", "*"}
  <2>1. /\ (a + b) % m = (x + y) % m
        /\ (a - b) % m = (x - y) % m
        /\ (a * b) % m = (x * y) % m
    <3> HIDE DEF m
    <3>1. Congruent(a, x, m) /\ Congruent(b, y, m) /\ x \in Int /\ y \in Int BY <1>2 DEF Congruent
    <3>2. Congruent(a + b, x + y, m) /\ Congruent(a - b, x - y, m) /\ Congruent(a * b, x * y, m)
      BY <1>1, <1>4, <3>1, SumsAgree
    <3> QED BY <3>2 DEF Congruent
  <2>2. a + b \in Int /\ a - b \in Int /\ a * b \in Int /\ x + y \in Int /\ x - y \in Int /\ x * y \in Int
    BY <1>2, <1>4
  <2>3. Agree(Word(a + b), x + y) /\ Agree(Word(a - b), x - y) /\ Agree(Word(a * b), x * y)
    BY <1>6, <2>1, <2>2
  <2> HIDE DEF Agree, m
  <2>4. /\ op = "+" => /\ FoldBin(op, a, b, t) = Normalize(Word(a + b), t)
                       /\ RunBin(op, x, y, t) = Wrapped(x + y, t)
        /\ op = "-" => /\ FoldBin(op, a, b, t) = Normalize(Word(a - b), t)
                       /\ RunBin(op, x, y, t) = Wrapped(x - y, t)
        /\ op = "*" => /\ FoldBin(op, a, b, t) = Normalize(Word(a * b), t)
                       /\ RunBin(op, x, y, t) = Wrapped(x * y, t)
    BY DEF FoldBin, FoldAdd, FoldMin, FoldMul, RunBin
  <2> QED BY <1>5, <1>7, <2>3, <2>4 DEF a, b
<1>8. CASE op \in {"/", "%"}
  <2>1. b # 0 BY <1>8 DEF DivError, b
  <2>2. t \in Unsigned => a = x /\ b = y /\ x >= 0 /\ y >= 0
    BY <1>1, <1>2 DEF Meaning, NumbersOf
  <2>3. t \notin Unsigned => Signed(a) = x /\ Signed(b) = y BY <1>2 DEF Meaning
  <2>4. y # 0
    <3>1. Top \in Nat \ {0} BY WordAssumption
    <3>2. y = 0 => Word(y) = 0 BY <3>1, ModSmall DEF Word
    <3> QED BY <2>1, <3>2 DEF b
  <2>5. /\ Quotient(x, y) \in Int /\ Remainder(x, y) \in Int
        /\ t \in Unsigned => Quotient(x, y) = a \div b /\ Remainder(x, y) = a % b
    BY <1>2, <2>2, <2>4, QuotientInt, ZenonT(60)
  <2>6. FoldDiv(a, b, t) = Word(Quotient(x, y)) /\ FoldMod(a, b, t) = Word(Remainder(x, y))
    BY <2>3, <2>5 DEF FoldDiv, FoldMod
  <2>7. Agree(FoldDiv(a, b, t), Quotient(x, y)) /\ Agree(FoldMod(a, b, t), Remainder(x, y))
    BY <1>6, <2>5, <2>6
  <2> HIDE DEF Agree, m
  <2>8. /\ op = "/" => /\ FoldBin(op, a, b, t) = Normalize(FoldDiv(a, b, t), t)
                       /\ RunBin(op, x, y, t) = Wrapped(Quotient(x, y), t)
        /\ op = "%" => /\ FoldBin(op, a, b, t) = Normalize(FoldMod(a, b, t), t)
                       /\ RunBin(op, x, y, t) = Wrapped(Remainder(x, y), t)
    BY DEF FoldBin, RunBin
  <2> QED BY <1>5, <1>8, <2>7, <2>8 DEF a, b
<1>9. CASE op \in {"&", "|", "^"}
  <2> DEFINE c == a % m
             d == b % m
  <2>1. BitsOf(x, t) = c /\ BitsOf(y, t) = d BY <1>2 DEF BitsOf, Size
  <2>2. /\ c \in Words /\ d \in Words
        /\ WordAnd(a, b) \in Int /\ WordAnd(c, d) \in Int
        /\ WordAnd(a, b) % m = WordAnd(c, d) % m
        /\ WordOr(a, b) % m = WordOr(c, d) % m
        /\ WordXor(a, b) % m = WordXor(c, d) % m
    BY <1>2, BitwiseAgree
  <2> HIDE DEF c, d
  <2>3. /\ WordOr(a, b) \in Int /\ WordXor(a, b) \in Int
        /\ WordOr(c, d) \in Int /\ WordXor(c, d) \in Int
    <3>1. c \in Int /\ d \in Int BY <1>3, <2>2
    <3> QED BY <1>4, <2>2, <3>1 DEF WordOr, WordXor
  <2>4. Agree(WordAnd(a, b), WordAnd(c, d)) /\ Agree(WordOr(a, b), WordOr(c, d))
        /\ Agree(WordXor(a, b), WordXor(c, d))
    BY <2>2, <2>3
  <2> HIDE DEF Agree, m
  <2>5. /\ op = "&" => /\ FoldBin(op, a, b, t) = Normalize(WordAnd(a, b), t)
                       /\ RunBin(op, x, y, t) = Wrapped(WordAnd(c, d), t)
        /\ op = "|" => /\ FoldBin(op, a, b, t) = Normalize(WordOr(a, b), t)
                       /\ RunBin(op, x, y, t) = Wrapped(WordOr(c, d), t)
        /\ op = "^" => /\ FoldBin(op, a, b, t) = Normalize(WordXor(a, b), t)
                       /\ RunBin(op, x, y, t) = Wrapped(WordXor(c, d), t)
    BY <2>1 DEF FoldBin, RunBin
  <2> QED BY <1>5, <1>9, <2>4, <2>5 DEF a, b
<1> QED BY <1>7, <1>8, <1>9 DEF Arithmetic

(* The same for shifts by less than the width, *)
LEMMA ShiftAgrees ==
    ASSUME NEW t \in Types, t # "bool", NEW op \in Shifts,
           NEW x \in NumbersOf(t), NEW c \in 0 .. Width[t] - 1
    PROVE  /\ RunBin(op, x, c, t) \in NumbersOf(t)
           /\ FoldBin(op, Word(x), c, t) = Word(RunBin(op, x, c, t))
<1> DEFINE m == Size(t)
           a == Word(x)
           p == 2 ^ c
<1>1. m \in Nat \ {0} /\ Width[t] \in 0 .. Bits /\ Bits \in Nat BY TypeFacts, WordAssumption
<1>2. x \in Int /\ a \in Words /\ a % m = x % m /\ Meaning(a, t) = x BY MeaningOfWord
<1>3. AllOnes \in Nat /\ Words = 0 .. AllOnes BY WordAssumption DEF AllOnes, Words
<1>4. a \in Int BY <1>2, <1>3
<1>5. p \in Nat \ {0}
  <2>1. c \in 0 .. Bits BY <1>1
  <2> QED BY <2>1, PowerSteps
<1>6. Normalize(a, t) = a BY <1>2, <1>4, NormalizeIs, WrappedSelf
<1> HIDE DEF a, p
<1> DEFINE Agree(w, n) == w \in Int /\ n \in Int /\ w % m = n % m
<1>7. ASSUME NEW w, NEW n, Agree(w, n)
      PROVE  Wrapped(n, t) \in NumbersOf(t) /\ Normalize(w, t) = Word(Wrapped(n, t))
  BY <1>7, WrappedFacts, NormalizeIs
<1>8. ASSUME NEW w \in Int, NEW n \in Int, w % m = n % m PROVE Agree(Word(w), n)
  <2>1. Word(w) % m = w % m /\ Word(w) \in Words BY <1>1, WordMod DEF Size
  <2> QED BY <1>3, <1>8, <2>1
<1>9. Agree(Word(a * p), x * p)
  <2> HIDE DEF m
  <2>1. Congruent(a, x, m) /\ Congruent(p, p, m) BY <1>2 DEF Congruent
  <2>2. Congruent(a * p, x * p, m) BY <1>1, <1>2, <1>4, <1>5, <2>1, SumsAgree
  <2>3. a * p \in Int /\ x * p \in Int BY <1>2, <1>4, <1>5
  <2> QED BY <1>8, <2>2, <2>3 DEF Congruent
<1>10. Agree(FoldShr(a, c, t), x \div p)
  <2>1. FoldShr(a, c, t) = Word(x \div p) BY <1>2, <1>6 DEF FoldShr, p
  <2>2. x \div p \in Int BY <1>2, <1>5, DivMod
  <2> QED BY <1>8, <2>1, <2>2
<1>11. Agree(FoldUshr(a, c, t), BitsOf(x, t) \div p)
  <2>1. FoldUshr(a, c, t) = BitsOf(x, t) \div p BY <1>2 DEF FoldUshr, BitsOf, Size, p
  <2>2. BitsOf(x, t) \in Int
    <3>1. BitsOf(x, t) = x % m BY DEF BitsOf, Size
    <3> HIDE DEF m
    <3> QED BY <1>1, <1>2, <3>1, DivMod
  <2>3. BitsOf(x, t) \div p \in Int BY <1>5, <2>2, DivMod
  <2> QED BY <2>1, <2>3
<1> HIDE DEF Agree, m
<1>12. /\ op = "<<" => /\ FoldBin(op, a, c, t) = Normalize(Word(a * p), t)
                       /\ RunBin(op, x, c, t) = Wrapped(x * p, t)
       /\ op = ">>" => /\ FoldBin(op, a, c, t) = Normalize(FoldShr(a, c, t), t)
                       /\ RunBin(op, x, c, t) = Wrapped(x \div p, t)
       /\ op = ">>>" => /\ FoldBin(op, a, c, t) = Normalize(FoldUshr(a, c, t), t)
                        /\ RunBin(op, x, c, t) = Wrapped(BitsOf(x, t) \div p, t)
  BY DEF FoldBin, FoldShl, RunBin, p
<1>13. op \in {"<<", ">>", ">>>"} BY DEF Shifts
<1> QED BY <1>7, <1>9, <1>10, <1>11, <1>12, <1>13 DEF a

(* for the operators with one operand, *)
LEMMA UnaryAgrees ==
    ASSUME NEW t \in Types, t # "bool", NEW x \in NumbersOf(t)
    PROVE  /\ Wrapped(-x, t) \in NumbersOf(t) /\ FoldNeg(Word(x), t) = Word(Wrapped(-x, t))
           /\ Wrapped(-x - 1, t) \in NumbersOf(t) /\ FoldCom(Word(x), t) = Word(Wrapped(-x - 1, t))
<1> DEFINE m == Size(t)
           a == Word(x)
<1>1. m \in Nat \ {0} /\ Width[t] \in 0 .. Bits BY TypeFacts
<1>2. x \in Int /\ a \in Words /\ a % m = x % m BY MeaningOfWord
<1>3. Top \in Nat \ {0} /\ AllOnes = Top - 1 /\ Words = 0 .. AllOnes
  BY WordAssumption DEF AllOnes, Words
<1>4. a \in Int /\ 0 <= a /\ a < Top BY <1>2, <1>3
<1> HIDE DEF a
<1> DEFINE Agree(w, n) == w \in Int /\ n \in Int /\ Congruent(w, n, m)
<1>5. ASSUME NEW w, NEW n, Agree(w, n)
      PROVE  Wrapped(n, t) \in NumbersOf(t) /\ Normalize(w, t) = Word(Wrapped(n, t))
  BY <1>5, WrappedFacts, NormalizeIs DEF Congruent
<1>6. ASSUME NEW w \in Int, NEW n \in Int, Congruent(w, n, m) PROVE Agree(Word(w), n)
  <2>1. Word(w) % m = w % m /\ Word(w) \in Words BY <1>1, WordMod DEF Size
  <2> QED BY <1>3, <1>6, <2>1 DEF Congruent
<1>7. Congruent(a, x, m) /\ Congruent(0, 0, m) /\ Congruent(1, 1, m) BY <1>2 DEF Congruent
<1> HIDE DEF m
<1>8. Congruent(0 - a, 0 - x, m) BY <1>1, <1>2, <1>4, <1>7, SumsAgree
<1> DEFINE b == 0 - a
           y == 0 - x
<1>9. b \in Int /\ y \in Int /\ b = -a /\ y = -x BY <1>2, <1>4
<1>10. Congruent(b, y, m) BY <1>8
<1>11. b - 1 = -a - 1 /\ y - 1 = -x - 1 /\ b - 1 \in Int /\ y - 1 \in Int BY <1>2, <1>4
<1> HIDE DEF b, y
<1>12. Congruent(b - 1, y - 1, m) BY <1>1, <1>7, <1>9, <1>10, SumsAgree
<1>13. Word(-a - 1) = AllOnes - a BY <1>3, <1>4, WordOf
<1>14. Agree(Word(-a), -x) BY <1>6, <1>9, <1>10
<1>15. Agree(AllOnes - a, -x - 1) BY <1>6, <1>11, <1>12, <1>13
<1> HIDE DEF Agree
<1> QED BY <1>5, <1>14, <1>15 DEF FoldNeg, FoldCom, a

(* for casts, where the one to bool asks whether the number is 0, *)
LEMMA CastAgrees ==
    ASSUME NEW t \in Types, NEW u \in Types, NEW x \in NumbersOf(u)
    PROVE  Wrapped(x, t) \in NumbersOf(t) /\ Normalize(Word(x), t) = Word(Wrapped(x, t))
<1>1. /\ Size(t) \in Nat \ {0} /\ Width[t] \in 0 .. Bits
      /\ Top \in Nat \ {0} /\ Top # 1
  BY TypeFacts, WordAssumption
<1>2. x \in Int /\ Word(x) \in Words /\ Word(x) = IF x < 0 THEN x + Top ELSE x BY MeaningOfWord
<1>3. Word(x) \in Int BY <1>1, <1>2 DEF Words, AllOnes
<1>4. CASE t # "bool"
  <2>1. Word(x) % Size(t) = x % Size(t) BY <1>1, <1>2, WordMod DEF Size
  <2> QED BY <1>2, <1>3, <1>4, <2>1, WrappedFacts, NormalizeIs
<1>5. CASE t = "bool"
  <2>1. Word(x) = 0 <=> x = 0
    <3>1. /\ Size(u) \in Nat \ {0} /\ Half(u) \in Nat \ {0} /\ Size(u) = 2 * Half(u) /\ Size(u) <= Top
      BY TypeFacts
    <3>2. -Top < x BY <1>1, <1>2, <3>1 DEF NumbersOf
    <3> QED BY <1>1, <1>2, <3>2
  <2>2. t \in Unsigned BY <1>5, TypesAssumption
  <2>3. Wrapped(x, t) = IF x = 0 THEN 0 ELSE 1 BY <1>5, <2>2 DEF Wrapped
  <2>4. Normalize(Word(x), t) = IF x = 0 THEN 0 ELSE 1 BY <1>5, <2>1, <2>2 DEF Normalize
  <2>5. NumbersOf(t) = 0 .. 1
    <3>1. Width[t] = 1 /\ t \in Unsigned BY <1>5, TypesAssumption
    <3>2. 2 ^ 1 = 2
      <4>1. 0 \in 0 .. Bits /\ 0 + 1 = 1 BY WordAssumption
      <4>2. 2 ^ (0 + 1) = 2 * 2 ^ 0 /\ 2 ^ 0 = 1 BY <4>1, PowerSteps
      <4> QED BY <4>1, <4>2
    <3> QED BY <3>1, <3>2 DEF NumbersOf, Size
  <2>6. Word(0) = 0 /\ Word(1) = 1 BY <1>1, WordOf
  <2> QED BY <2>3, <2>4, <2>5, <2>6
<1> QED BY <1>4, <1>5

(* and for literals and variables. *)
LEMMA LeafAgrees ==
    ASSUME NEW t \in Types, NEW w \in WordsOf(t)
    PROVE  /\ Meaning(w, t) \in NumbersOf(t) /\ w = Word(Meaning(w, t))
           /\ t = "dchar" => Meaning(w, t) <= LastDchar
<1>1. /\ Size(t) \in Nat \ {0} /\ Width[t] \in 0 .. Bits /\ Size(t) <= Top
      /\ Top \in Nat \ {0} /\ Top # 1
  BY TypeFacts, WordAssumption
<1>2. t = "dchar" => LastDchar \in 0 .. Size(t) - 1 /\ t \in Unsigned BY TypesAssumption DEF Size
<1>3. PICK n \in 0 .. Size(t) - 1 : w = Normalize(n, t) /\ (t = "dchar" => n <= LastDchar)
  <2>1. PICK n \in 0 .. (IF t = "dchar" THEN LastDchar ELSE 2 ^ Width[t] - 1) : w = Normalize(n, t)
    BY DEF WordsOf
  <2>2. CASE t = "dchar" BY <1>1, <1>2, <2>1, <2>2
  <2>3. CASE t # "dchar" BY <1>1, <2>1, <2>3 DEF Size
  <2> QED BY <2>2, <2>3
<1>4. n \in Int /\ 0 <= n /\ n < Size(t) BY <1>1, <1>3
<1>5. CASE t # "bool"
  <2>1. w = Word(Wrapped(n, t)) /\ Wrapped(n, t) \in NumbersOf(t)
    BY <1>3, <1>4, <1>5, WrappedFacts, NormalizeIs
  <2>2. Meaning(w, t) = Wrapped(n, t) BY <2>1, MeaningOfWord
  <2>3. CASE t = "dchar"
    <3>1. n \in NumbersOf(t) BY <1>2, <1>4, <2>3 DEF NumbersOf
    <3>2. Wrapped(n, t) = n BY <1>5, <3>1, WrappedSelf
    <3> QED BY <1>3, <2>1, <2>2, <2>3, <3>2
  <2> QED BY <2>1, <2>2, <2>3
<1>6. CASE t = "bool"
  <2>1. t \in Unsigned /\ t # "dchar" BY <1>6, TypesAssumption
  <2>2. w = (IF n = 0 THEN 0 ELSE 1) BY <1>3, <1>6, <2>1 DEF Normalize
  <2>3. Meaning(w, t) = w BY <2>1 DEF Meaning
  <2>4. w <= n BY <1>4, <2>2
  <2>5. w \in NumbersOf(t) BY <1>1, <1>4, <2>1, <2>2, <2>4 DEF NumbersOf
  <2>6. Word(w) = w BY <1>1, <2>2, WordOf
  <2> QED BY <2>1, <2>3, <2>5, <2>6
<1> QED BY <1>5, <1>6
-------------------------------------------------------------------------------
(* Expressions: the word is the one of the number, which is of the type.     *)
Agrees(e) == /\ e.ty \in Types /\ e.run \in NumbersOf(e.ty) /\ e.folded = Word(e.run)
             /\ e.ty = "dchar" /\ "character" \in Avoided => e.run <= LastDchar

LEMMA PromotedTypes == \A t \in Promoted : t \in Types /\ t # "bool" /\ t # "dchar"
BY DEF Promoted

LEMMA LeavesAgree ==
    ASSUME NEW t \in Types, NEW e \in Leaves[t]
    PROVE  Agrees(e) /\ e.ty = t
<1> DEFINE words == WordsOf(t) \cap Operands[t]
<1>1. e \in {Literal(t, w) : w \in words} \cup {Variable(t, w) : w \in words} BY DEF Leaves
<1>2. PICK w \in WordsOf(t) : e = Literal(t, w) \/ e = Variable(t, w) BY <1>1
<1>3. e.ty = t /\ e.folded = w /\ e.run = Meaning(w, t) BY <1>2 DEF Literal, Variable, Expr
<1> QED BY <1>3, LeafAgrees DEF Agrees

LEMMA ApplyAgrees ==
    ASSUME NEW e1, NEW e2, NEW op \in Arithmetic, Agrees(e1), Agrees(e2),
           e1.ty = e2.ty, e1.ty # "bool", e1.ty # "dchar", ~Undefined(op, e1, e2)
    PROVE  Agrees(Apply(op, e1, e2)) /\ Apply(op, e1, e2).ty = e1.ty
<1>1. Apply(op, e1, e2).ty = e1.ty BY DEF Apply
<1>2. Apply(op, e1, e2).run = RunBin(op, e1.run, e2.run, e1.ty) BY DEF Apply
<1>3. Apply(op, e1, e2).folded = FoldBin(op, e1.folded, e2.folded, e1.ty) BY DEF Apply
<1>4. op \in {"/", "%"} => ~DivError(e1.folded, e2.folded, e1.ty) BY DEF Undefined
<1>5. /\ RunBin(op, e1.run, e2.run, e1.ty) \in NumbersOf(e1.ty)
      /\ FoldBin(op, e1.folded, e2.folded, e1.ty) = Word(RunBin(op, e1.run, e2.run, e1.ty))
  BY <1>4, BinaryAgrees DEF Agrees
<1> QED BY <1>1, <1>2, <1>3, <1>5 DEF Agrees

LEMMA CountsAgree == \A n \in ShiftCounts : Agrees(n) /\ n.ty = "int"
<1>1. "int" \in Types /\ "int" # "bool" /\ "int" # "dchar" BY TypesAssumption
<1>2. ASSUME NEW w \in WordsOf("int"), NEW mask \in WordsOf("int")
      PROVE  /\ Agrees(Apply("&", Variable("int", w), Literal("int", mask)))
             /\ Apply("&", Variable("int", w), Literal("int", mask)).ty = "int"
  <2> DEFINE e1 == Variable("int", w)
             e2 == Literal("int", mask)
  <2>1. e1.ty = "int" /\ e1.folded = w /\ e1.run = Meaning(w, "int") BY DEF Variable, Expr
  <2>2. e2.ty = "int" /\ e2.folded = mask /\ e2.run = Meaning(mask, "int") BY DEF Literal, Expr
  <2>3. Agrees(e1) /\ Agrees(e2) BY <1>1, <2>1, <2>2, LeafAgrees DEF Agrees
  <2>4. "&" \in Arithmetic /\ ~Undefined("&", e1, e2) BY DEF Arithmetic, Undefined
  <2> HIDE DEF e1, e2
  <2>5. Agrees(Apply("&", e1, e2)) /\ Apply("&", e1, e2).ty = e1.ty
    BY <1>1, <2>1, <2>2, <2>3, <2>4, ApplyAgrees
  <2> QED BY <2>1, <2>5 DEF e1, e2
<1>3. ASSUME NEW n \in ShiftCounts PROVE Agrees(n) /\ n.ty = "int"
  <2>1. CASE n \in Leaves["int"] BY <1>1, <2>1, LeavesAgree
  <2>2. CASE n \notin Leaves["int"] BY <1>2, <2>2 DEF ShiftCounts
  <2> QED BY <2>1, <2>2
<1> QED BY <1>3

LEMMA Becoming ==
    ASSUME NEW e, Agrees(e), Becomes(e)
    PROVE  Agrees(Now)'
<1>1. ty' = e.ty /\ run' = e.run /\ folded' = e.folded BY DEF Becomes
<1> QED BY <1>1 DEF Agrees, Now

LEMMA InitAgrees == Init => Agrees(Now)
<1> SUFFICES ASSUME Init PROVE Agrees(Now) OBVIOUS
<1>1. PICK t \in Types : \E e \in Leaves[t] :
          ty = e.ty /\ folded = e.folded /\ run = e.run /\ range = e.range
  BY DEF Init
<1>2. PICK e \in Leaves[t] : ty = e.ty /\ folded = e.folded /\ run = e.run BY <1>1
<1> QED BY <1>2, LeavesAgree DEF Agrees, Now

LEMMA NextAgrees ==
    ASSUME Agrees(Now), [Next]_vars
    PROVE  Agrees(Now)'
<1>1. /\ Now.ty = ty /\ Now.run = run /\ Now.folded = folded /\ Now.range = range
      /\ ty \in Types /\ run \in NumbersOf(ty) /\ folded = Word(run)
      /\ ty = "dchar" /\ "character" \in Avoided => run <= LastDchar
  BY DEF Now, Agrees
<1>2. ASSUME NEW t \in Types, Cast(t) PROVE Agrees(Now)'
  <2>1. Becomes(CastTo(t, Now)) BY <1>2 DEF Cast
  <2>2. CastTo(t, Now).ty = t /\ CastTo(t, Now).run = Wrapped(run, t)
        /\ CastTo(t, Now).folded = Normalize(folded, t)
    BY <1>1 DEF CastTo
  <2>3. t = "dchar" /\ "character" \in Avoided => Wrapped(run, t) <= LastDchar
    BY <1>2 DEF Cast, Character
  <2>4. Agrees(CastTo(t, Now)) BY <1>1, <2>2, <2>3, CastAgrees DEF Agrees
  <2> QED BY <2>1, <2>4, Becoming
<1>3. ASSUME NEW op \in Arithmetic, NEW e \in Leaves[ty], Binary(op, e) \/ BinaryRight(op, e)
      PROVE  Agrees(Now)'
  <2>1. Agrees(e) /\ e.ty = ty BY <1>1, LeavesAgree
  <2>2. ty # "bool" /\ ty # "dchar" BY <1>3, PromotedTypes DEF Binary, BinaryRight
  <2>3. CASE Binary(op, e)
    <3>1. ~Undefined(op, Now, e) /\ Becomes(Apply(op, Now, e)) BY <2>3 DEF Binary
    <3>2. Agrees(Apply(op, Now, e)) BY <1>1, <2>1, <2>2, <3>1, ApplyAgrees
    <3> QED BY <3>1, <3>2, Becoming
  <2>4. CASE BinaryRight(op, e)
    <3>1. ~Undefined(op, e, Now) /\ Becomes(Apply(op, e, Now)) BY <2>4 DEF BinaryRight
    <3>2. Agrees(Apply(op, e, Now)) BY <1>1, <2>1, <2>2, <3>1, ApplyAgrees
    <3> QED BY <3>1, <3>2, Becoming
  <2> QED BY <1>3, <2>3, <2>4
<1>4. ASSUME NEW op \in Shifts, NEW n \in ShiftCounts, Shift(op, n) PROVE Agrees(Now)'
  <2>1. ty # "bool" /\ ty # "dchar" BY <1>4, PromotedTypes DEF Shift
  <2>2. Agrees(n) /\ n.ty = "int" BY CountsAgree
  <2>3. n.run \in NumbersOf("int") /\ n.folded = Word(n.run) /\ "int" \in Types
    BY <2>2 DEF Agrees
  <2>4. n.run \in Int /\ n.folded = IF n.run < 0 THEN n.run + Top ELSE n.run
    BY <2>3, MeaningOfWord
  <2>5. n.folded = n.run /\ n.run \in 0 .. Width[ty] - 1
    <3>1. Width[ty] \in Int BY <1>1, TypeFacts, WordAssumption
    <3>2. n.run >= 0 /\ n.run < Width[ty] BY <1>4 DEF Shift, CountFits
    <3> QED BY <2>4, <3>1, <3>2
  <2>6. /\ Apply(op, Now, n).ty = ty
        /\ Apply(op, Now, n).run = RunBin(op, run, n.run, ty)
        /\ Apply(op, Now, n).folded = FoldBin(op, folded, n.folded, ty)
    BY <1>1 DEF Apply
  <2>7. Agrees(Apply(op, Now, n)) BY <1>1, <2>1, <2>5, <2>6, ShiftAgrees DEF Agrees
  <2>8. Becomes(Apply(op, Now, n)) BY <1>4 DEF Shift
  <2> QED BY <2>7, <2>8, Becoming
<1>5. CASE Complement
  <2> DEFINE e == [ty |-> ty, folded |-> FoldCom(folded, ty), run |-> Wrapped(-run - 1, ty),
                   range |-> CastRange(RangeCom(range), ty)]
  <2>1. ty # "bool" /\ ty # "dchar" /\ Becomes(e) BY <1>5, PromotedTypes DEF Complement
  <2>2. Agrees(e) BY <1>1, <2>1, UnaryAgrees DEF Agrees
  <2> QED BY <2>1, <2>2, Becoming
<1>6. CASE Negation
  <2> DEFINE e == [ty |-> ty, folded |-> FoldNeg(folded, ty), run |-> Wrapped(-run, ty),
                   range |-> CastRange(RangeNeg(range), ty)]
  <2>1. ty # "bool" /\ ty # "dchar" /\ Becomes(e) BY <1>6, PromotedTypes DEF Negation
  <2>2. Agrees(e) BY <1>1, <2>1, UnaryAgrees DEF Agrees
  <2> QED BY <2>1, <2>2, Becoming
<1>7. ASSUME NEW e \in Leaves[ty], Either(e) PROVE Agrees(Now)'
  <2>1. ty' = ty /\ run' = run /\ folded' = folded BY <1>7 DEF Either, Becomes, Now
  <2> QED BY <1>1, <2>1 DEF Agrees, Now
<1>8. ASSUME NEW upr \in Leaves[ty], NEW word \in WordsOf(ty), Foreach(upr, word)
      PROVE  Agrees(Now)'
  <2>1. ty' = ty /\ run' = Meaning(word, ty) /\ folded' = word
    BY <1>8 DEF Foreach, Becomes, Expr
  <2> QED BY <1>1, <2>1, LeafAgrees DEF Agrees, Now
<1>9. CASE UNCHANGED vars
  <2>1. ty' = ty /\ run' = run /\ folded' = folded BY <1>9 DEF vars
  <2> QED BY <1>1, <2>1 DEF Agrees, Now
<1> QED BY <1>2, <1>3, <1>4, <1>5, <1>6, <1>7, <1>8, <1>9 DEF Next

(* An expression folds to what the compiled code computes, whatever the      *)
(* widths of the types and the operands are (FoldAsCompiled: constfold.c     *)
(* against build_binary_op).                                                 *)
THEOREM FoldsAsCompiled == Spec => []FoldAsCompiled
<1>1. Agrees(Now) => FoldAsCompiled
  <2> SUFFICES ASSUME Agrees(Now) PROVE FoldAsCompiled OBVIOUS
  <2>1. ty \in Types /\ run \in NumbersOf(ty) /\ folded = Word(run) BY DEF Agrees, Now
  <2> QED BY <2>1, MeaningOfWord DEF FoldAsCompiled
<1>2. Agrees(Now) /\ [Next]_vars => Agrees(Now)' BY NextAgrees
<1> QED BY <1>1, <1>2, InitAgrees, PTL DEF Spec
-------------------------------------------------------------------------------
(* Ranges: what a range covers, and what a cast makes of it                  *)
IsRange(r) == r.imin \in Numbers /\ r.imax \in Numbers
Covers(r, n) == IsRange(r) /\ Value(r.imin) <= n /\ n <= Value(r.imax)

LEMMA NatFacts ==
    ASSUME NEW n \in Words
    PROVE  FromNat(n) \in Numbers /\ Value(FromNat(n)) = n /\ FromNat(n).value = n
           /\ FromNat(n).negative = FALSE
BY DEF FromNat, Number, Numbers, Value

LEMMA BelowZeroFacts ==
    ASSUME NEW n \in Int, -Top <= n, n < 0
    PROVE  Number(Word(n), TRUE) \in Numbers /\ Value(Number(Word(n), TRUE)) = n
<1>1. Top \in Nat \ {0} BY WordAssumption
<1>2. Word(n) = n + Top BY <1>1, WordOf
<1>3. n + Top \in Words BY <1>1 DEF Words, AllOnes
<1> QED BY <1>1, <1>2, <1>3 DEF Number, Numbers, Value

LEMMA LowerHigher ==
    ASSUME NEW a \in Numbers, NEW b \in Numbers
    PROVE  /\ Lower(a, b) \in {a, b} /\ Value(Lower(a, b)) <= Value(a) /\ Value(Lower(a, b)) <= Value(b)
           /\ Higher(a, b) \in {a, b} /\ Value(a) <= Value(Higher(a, b)) /\ Value(b) <= Value(Higher(a, b))
           /\ Lower(a, b) \in Numbers /\ Higher(a, b) \in Numbers
<1>1. Less(a, b) <=> Value(a) < Value(b) BY LessIsLess
<1>2. Value(a) \in Int /\ Value(b) \in Int BY NumberFacts
<1>3. CASE Less(a, b) BY <1>1, <1>2, <1>3 DEF Lower, Higher
<1>4. CASE ~Less(a, b) BY <1>1, <1>2, <1>4 DEF Lower, Higher
<1> QED BY <1>3, <1>4

LEMMA LessEqIs ==
    ASSUME NEW a \in Numbers, NEW b \in Numbers
    PROVE  LessEq(a, b) <=> Value(a) <= Value(b)
<1>1. Less(b, a) <=> Value(b) < Value(a) BY LessIsLess
<1>2. Value(a) \in Int /\ Value(b) \in Int BY NumberFacts
<1> QED BY <1>1, <1>2 DEF LessEq

(* FromNumbers4 covers what is between two of its four numbers. *)
LEMMA FourCover ==
    ASSUME NEW a \in Numbers, NEW b \in Numbers, NEW c \in Numbers, NEW d \in Numbers
    PROVE  /\ IsRange(FromNumbers4(a, b, c, d))
           /\ \A n \in Int : \A x, y \in {a, b, c, d} :
                  Value(x) <= n /\ n <= Value(y) => Covers(FromNumbers4(a, b, c, d), n)
<1> DEFINE e == Lower(a, b)
           f == Lower(c, d)
           g == Higher(a, b)
           h == Higher(c, d)
<1>1. e \in Numbers /\ Value(e) <= Value(a) /\ Value(e) <= Value(b) BY LowerHigher
<1>2. f \in Numbers /\ Value(f) <= Value(c) /\ Value(f) <= Value(d) BY LowerHigher
<1>3. g \in Numbers /\ Value(a) <= Value(g) /\ Value(b) <= Value(g) BY LowerHigher
<1>4. h \in Numbers /\ Value(c) <= Value(h) /\ Value(d) <= Value(h) BY LowerHigher
<1> DEFINE low == Lower(e, f)
           high == Higher(g, h)
<1>5. FromNumbers4(a, b, c, d).imin = low /\ FromNumbers4(a, b, c, d).imax = high
  BY DEF FromNumbers4, Range
<1> HIDE DEF e, f, g, h
<1>6. low \in Numbers /\ Value(low) <= Value(e) /\ Value(low) <= Value(f) BY <1>1, <1>2, LowerHigher
<1>7. high \in Numbers /\ Value(g) <= Value(high) /\ Value(h) <= Value(high)
  BY <1>3, <1>4, LowerHigher
<1> HIDE DEF low, high
<1>8. /\ Value(a) \in Int /\ Value(b) \in Int /\ Value(c) \in Int /\ Value(d) \in Int
      /\ Value(e) \in Int /\ Value(f) \in Int /\ Value(g) \in Int /\ Value(h) \in Int
      /\ Value(low) \in Int /\ Value(high) \in Int
  BY <1>1, <1>2, <1>3, <1>4, <1>6, <1>7, NumberFacts
<1>9. \A x \in {a, b, c, d} : Value(x) \in Int /\ Value(low) <= Value(x) /\ Value(x) <= Value(high)
  BY <1>1, <1>2, <1>3, <1>4, <1>6, <1>7, <1>8
<1>10. ASSUME NEW n \in Int, NEW x \in {a, b, c, d}, NEW y \in {a, b, c, d}, Value(x) <= n, n <= Value(y)
       PROVE  Value(low) <= n /\ n <= Value(high)
  BY <1>8, <1>9, <1>10
<1> QED BY <1>5, <1>6, <1>7, <1>10 DEF Covers, IsRange

(* IntRange::castUnsigned takes the remainder of all numbers of a range. *)
LEMMA CastUnsignedCovers ==
    ASSUME NEW r, IsRange(r), NEW bits \in 1 .. Bits
    PROVE  LET c == CastUnsigned(r, bits)
           IN  /\ IsRange(c) /\ 0 <= Value(c.imin) /\ Value(c.imax) <= 2 ^ bits - 1
               /\ \A n \in Int : Covers(r, n) => Covers(c, n % 2 ^ bits)
<1> DEFINE p == 2 ^ bits
           a == r.imin
           b == r.imax
           v == a.value
           w == b.value
           c == CastUnsigned(r, bits)
           same == <<v \div p, a.negative>> = <<w \div p, b.negative>>
<1>1. Bits \in Nat \ {0} /\ bits \in 0 .. Bits BY WordAssumption
<1> DEFINE q == 2 ^ (Bits - bits)
<1>2. p \in Nat \ {0} /\ p <= Top /\ Top = p * q /\ q \in Nat /\ Top \in Nat \ {0}
  BY <1>1, PowerDivides
<1>3. c = IF same THEN Range(FromNat(v % p), FromNat(w % p)) ELSE Range(FromNat(0), FromNat(p - 1))
  BY DEF CastUnsigned
<1>4. a \in Numbers /\ b \in Numbers BY DEF IsRange
<1>5. /\ v \in Nat /\ v < Top /\ w \in Nat /\ w < Top
      /\ v \in Int /\ w \in Int /\ a.negative \in BOOLEAN /\ b.negative \in BOOLEAN
      /\ Value(a) = (IF a.negative THEN v - Top ELSE v)
      /\ Value(b) = (IF b.negative THEN w - Top ELSE w)
  BY <1>4, NumberFacts
<1> HIDE DEF p, q, a, b, v, w
<1>6. v = p * (v \div p) + (v % p) /\ v \div p \in Int /\ v % p \in 0 .. p - 1
  BY <1>2, <1>5, DivMod, Zenon
<1>7. w = p * (w \div p) + (w % p) /\ w \div p \in Int /\ w % p \in 0 .. p - 1
  BY <1>2, <1>5, DivMod, Zenon
<1>8. \A x \in 0 .. p - 1 : x \in Words BY <1>2 DEF Words, AllOnes
<1>9. 0 \in 0 .. p - 1 /\ p - 1 \in 0 .. p - 1 BY <1>2
<1>10. CASE same
  <2> DEFINE x == v % p
             y == w % p
             g == v \div p
  <2>1. c.imin = FromNat(x) /\ c.imax = FromNat(y) BY <1>3, <1>10 DEF Range
  <2>2. x \in Words /\ y \in Words BY <1>6, <1>7, <1>8
  <2>3. IsRange(c) /\ Value(c.imin) = x /\ Value(c.imax) = y BY <2>1, <2>2, NatFacts DEF IsRange
  <2>4. v = p * g + x /\ w = p * g + y /\ g \in Int /\ x \in 0 .. p - 1 /\ y \in 0 .. p - 1
        /\ (a.negative <=> b.negative)
    BY <1>5, <1>6, <1>7, <1>10
  <2> HIDE DEF x, y, g, c, same
  <2>5. ASSUME NEW n \in Int, Covers(r, n) PROVE x <= n % p /\ n % p <= y
    <3> DEFINE k == IF a.negative THEN q ELSE 0
               m == n + p * k
               z == m - p * g
    <3>1. p * k = IF a.negative THEN Top ELSE 0 BY <1>2
    <3>2. Value(a) <= n /\ n <= Value(b) BY <2>5 DEF Covers, a, b
    <3>3. v <= m /\ m <= w /\ m \in Int /\ k \in Int BY <1>2, <1>5, <2>4, <3>1, <3>2
    <3> HIDE DEF k
    <3>4. m % p = n % p BY <1>2, <3>3, ModMultiple
    <3> HIDE DEF m
    <3>5. p * g \in Int BY <1>2, <2>4
    <3>6. z \in Int /\ m = p * g + z /\ x <= z /\ z <= y BY <1>2, <2>4, <3>3, <3>5
    <3> HIDE DEF z
    <3>7. z \in 0 .. p - 1 BY <1>2, <2>4, <3>6
    <3>8. m % p = z BY <1>2, <2>4, <3>6, <3>7, DivUnique
    <3> QED BY <3>4, <3>6, <3>8
  <2>6. 0 <= Value(c.imin) /\ Value(c.imax) <= p - 1 BY <1>2, <2>3, <2>4
  <2> QED BY <2>3, <2>5, <2>6 DEF Covers, p, c
<1>11. CASE ~same
  <2>1. c.imin = FromNat(0) /\ c.imax = FromNat(p - 1) BY <1>3, <1>11 DEF Range
  <2>2. 0 \in Words /\ p - 1 \in Words BY <1>8, <1>9
  <2>3. IsRange(c) /\ Value(c.imin) = 0 /\ Value(c.imax) = p - 1
    BY <2>1, <2>2, NatFacts DEF IsRange
  <2> HIDE DEF c, same
  <2>4. \A n \in Int : 0 <= n % p /\ n % p <= p - 1
    <3>1. \A n \in Int : n % p \in 0 .. p - 1 BY <1>2, DivMod
    <3> QED BY <1>2, <3>1
  <2> QED BY <1>2, <2>3, <2>4 DEF Covers, p, c
<1> QED BY <1>10, <1>11

(* IntRange::castSigned: what it compares to tell whether two numbers are in *)
(* one chunk, and where it moves a number of a chunk                         *)
SignedChunk(a, half) ==
    LET low == a.value - (a.value % half)
        up == (low \div half) % 2 = 1
        chunk == IF up THEN Word(low + half) ELSE low
    IN  <<chunk, (IF a.negative THEN 1 ELSE 0) - (IF up /\ chunk = 0 THEN 1 ELSE 0)>>
SignedMoved(a, bits) ==
    LET value == a.value % 2 ^ bits
    IN  Number(IF value >= 2 ^ (bits - 1) THEN Word(value - 2 ^ bits) ELSE value,
               value >= 2 ^ (bits - 1))

LEMMA CastSignedIs ==
    ASSUME NEW r, NEW bits
    PROVE  CastSigned(r, bits) =
               IF SignedChunk(r.imin, 2 ^ (bits - 1)) = SignedChunk(r.imax, 2 ^ (bits - 1))
               THEN Range(SignedMoved(r.imin, bits), SignedMoved(r.imax, bits))
               ELSE Range(Number(Word(-(2 ^ (bits - 1))), TRUE), FromNat(2 ^ (bits - 1) - 1))
BY DEF CastSigned, SignedChunk, SignedMoved

(* The chunk is the one of the number that is half a chunk higher. *)
LEMMA SignedChunkIs ==
    ASSUME NEW a \in Numbers, NEW h \in Nat \ {0}, NEW q \in Nat, Top = (2 * h) * q
    PROVE  LET e == (a.value + h) \div (2 * h)
           IN  SignedChunk(a, h) =
                   <<IF e = q THEN 0 ELSE (2 * h) * e,
                     (IF a.negative THEN 1 ELSE 0) - (IF e = q THEN 1 ELSE 0)>>
<1> DEFINE v == a.value
           p == 2 * h
           u == v \div h
           s == v % h
           low == v - s
           up == (low \div h) % 2 = 1
           chunk == IF up THEN Word(low + h) ELSE low
           f == u \div 2
           g == u % 2
<1>1. v \in Int /\ 0 <= v /\ v < Top /\ Top \in Nat \ {0} BY NumberFacts, WordAssumption
<1>2. SignedChunk(a, h) = <<chunk, (IF a.negative THEN 1 ELSE 0) - (IF up /\ chunk = 0 THEN 1 ELSE 0)>>
  BY DEF SignedChunk
<1> HIDE DEF v
<1>3. v = h * u + s /\ u \in Int /\ s \in 0 .. h - 1 BY <1>1, DivMod, Zenon
<1> HIDE DEF u, s
<1>4. low = h * u /\ low \in Int /\ h * u \in Int BY <1>1, <1>3
<1>5. low \div h = u
  <2>1. (h * u + 0) \div h = u /\ 0 \in 0 .. h - 1 BY <1>3, DivUnique
  <2>2. h * u + 0 = low BY <1>4
  <2> QED BY <2>1, <2>2
<1>6. u = 2 * f + g /\ f \in Int /\ g \in {0, 1} BY <1>3
<1>7. up <=> g = 1 BY <1>5
<1> HIDE DEF f, g, up, low
<1>8. p \in Nat \ {0} /\ p = 2 * h OBVIOUS
<1>9. h * u = p * f + h * g /\ p * f \in Int /\ h * g \in Int
  <2>1. h * (2 * f + g) = (2 * h) * f + h * g BY <1>6
  <2> QED BY <1>6, <2>1
<1>10. Top = p * q BY <1>8
<1> HIDE DEF p
<1>11. CASE g = 0
  <2>1. v + h = p * f + (s + h) /\ s + h \in 0 .. p - 1 BY <1>1, <1>3, <1>8, <1>9, <1>11
  <2>2. (v + h) \div p = f
    <3> DEFINE d == s + h
    <3>1. v + h = p * f + d /\ d \in 0 .. p - 1 BY <2>1
    <3> HIDE DEF d
    <3>2. (p * f + d) \div p = f BY <1>6, <1>8, <3>1, DivUnique
    <3> QED BY <3>1, <3>2
  <2>3. chunk = p * f BY <1>4, <1>7, <1>9, <1>11
  <2>4. f # q
    <3>1. p * f < p * q BY <1>1, <1>3, <1>4, <1>9, <1>10, <1>11
    <3> QED BY <3>1, <1>9
  <2>5. ~up BY <1>7, <1>11
  <2> HIDE DEF chunk
  <2> QED BY <1>2, <2>2, <2>3, <2>4, <2>5 DEF p, v
<1>12. CASE g = 1
  <2> DEFINE i == f + 1
  <2>1. i \in Int /\ p * i = p * f + p
    <3>1. p * (f + 1) = p * f + p BY <1>6, <1>8
    <3> QED BY <1>6, <3>1
  <2> HIDE DEF i
  <2>2. v + h = p * i + s /\ s \in 0 .. p - 1 BY <1>1, <1>3, <1>8, <1>9, <1>12, <2>1
  <2>3. (v + h) \div p = i /\ p * i \in Int
    <3>1. (p * i + s) \div p = i BY <1>8, <2>1, <2>2, DivUnique
    <3> QED BY <1>8, <2>1, <2>2, <3>1
  <2>4. low + h = p * i BY <1>4, <1>8, <1>9, <1>12, <2>1
  <2>5. 0 < p * i /\ p * i <= Top
    <3>1. p * i < Top + p BY <1>1, <1>3, <1>8, <2>2, <2>3
    <3>2. i <= q
      <4>1. ASSUME q + 1 <= i PROVE p * (q + 1) <= p * i BY <1>8, <2>1, <4>1
      <4>2. p * (q + 1) = p * q + p /\ p * q \in Int BY <1>8
      <4>3. p * i < p * q + p BY <1>10, <3>1
      <4>4. ~(q + 1 <= i) BY <1>8, <2>3, <4>1, <4>2, <4>3
      <4> QED BY <2>1, <4>4
    <3>3. p * i <= p * q BY <1>8, <2>1, <3>2
    <3>4. 0 < p * i BY <1>1, <1>3, <1>8, <2>2, <2>3
    <3> QED BY <1>10, <3>3, <3>4
  <2>6. p * i = Top <=> i = q
    <3>1. ASSUME i < q PROVE p * i < p * q BY <1>8, <2>1, <3>1
    <3>2. ASSUME q < i PROVE p * q < p * i BY <1>8, <2>1, <3>2
    <3>3. p * q \in Int BY <1>8
    <3> QED BY <1>10, <2>1, <2>3, <3>1, <3>2, <3>3
  <2>7. Word(low + h) = IF i = q THEN 0 ELSE p * i BY <1>1, <2>3, <2>4, <2>5, <2>6, WordOf
  <2>8. chunk = (IF i = q THEN 0 ELSE p * i) /\ up BY <1>7, <1>12, <2>7
  <2>9. up /\ chunk = 0 <=> i = q BY <2>5, <2>8
  <2> HIDE DEF chunk
  <2> QED BY <1>2, <2>3, <2>8, <2>9 DEF p, v
<1> QED BY <1>6, <1>11, <1>12

(* A number is moved to what is left of it above half a chunk less than the  *)
(* chunk.                                                                    *)
LEMMA SignedMovedIs ==
    ASSUME NEW a \in Numbers, NEW bits \in 1 .. Bits
    PROVE  LET h == 2 ^ (bits - 1)
               p == 2 ^ bits
               m == SignedMoved(a, bits)
           IN  /\ m \in Numbers /\ Value(m) = ((a.value + h) % p) - h
               /\ h \in Nat \ {0} /\ p = 2 * h /\ p <= Top
<1> DEFINE h == 2 ^ (bits - 1)
           p == 2 ^ bits
           m == SignedMoved(a, bits)
           v == a.value
           x == v % p
           k == v \div p
           z == (v + h) % p
<1>1. Bits \in Nat \ {0} /\ bits - 1 \in 0 .. Bits /\ (bits - 1) + 1 = bits /\ bits \in 0 .. Bits
  BY WordAssumption
<1>2. h \in Nat \ {0} /\ p = 2 * h /\ p \in Nat \ {0} BY <1>1, PowerSteps
<1>3. p <= Top /\ Top \in Nat \ {0} BY <1>1, PowerDivides
<1>4. v \in Int BY NumberFacts
<1>5. m = Number(IF x >= h THEN Word(x - p) ELSE x, x >= h) BY DEF SignedMoved
<1> HIDE DEF h, p, v, m
<1>6. v = p * k + x /\ k \in Int /\ x \in 0 .. p - 1 BY <1>2, <1>4, DivMod, Zenon
<1> HIDE DEF x, k
<1>7. p * k \in Int BY <1>2, <1>6
<1>8. CASE x < h
  <2>1. m \in Numbers /\ Value(m) = x
    <3>1. m = FromNat(x)
      <4>1. (x >= h) = FALSE BY <1>2, <1>6, <1>8
      <4> QED BY <1>5, <4>1 DEF FromNat
    <3>2. x \in Words BY <1>2, <1>3, <1>6 DEF Words, AllOnes
    <3> QED BY <3>1, <3>2, NatFacts
  <2> DEFINE d == x + h
  <2>2. v + h = p * k + d /\ d \in 0 .. p - 1 BY <1>2, <1>4, <1>6, <1>7, <1>8
  <2> HIDE DEF d
  <2>3. (p * k + d) % p = d BY <1>2, <1>6, <2>2, DivUnique
  <2>4. z = d BY <2>2, <2>3
  <2> HIDE DEF z
  <2>5. z - h = x BY <1>2, <1>6, <2>4 DEF d
  <2> QED BY <1>2, <1>3, <2>1, <2>5 DEF m, h, p, z, v
<1>9. CASE x >= h
  <2>1. m \in Numbers /\ Value(m) = x - p
    <3>1. m = Number(Word(x - p), TRUE) BY <1>5, <1>9
    <3>2. x - p \in Int /\ -Top <= x - p /\ x - p < 0 BY <1>2, <1>3, <1>6
    <3> HIDE DEF m
    <3> QED BY <3>1, <3>2, BelowZeroFacts
  <2> DEFINE d == x - h
             j == k + 1
  <2>2. p * j = p * k + p /\ j \in Int
    <3>1. p * (k + 1) = p * k + p BY <1>2, <1>6
    <3> QED BY <1>6, <3>1
  <2> HIDE DEF j
  <2>3. v + h = p * j + d /\ d \in 0 .. p - 1 BY <1>2, <1>4, <1>6, <1>7, <1>9, <2>2
  <2> HIDE DEF d
  <2>4. (p * j + d) % p = d BY <1>2, <2>2, <2>3, DivUnique
  <2>5. z = d BY <2>3, <2>4
  <2> HIDE DEF z
  <2>6. z - h = x - p BY <1>2, <1>6, <2>5 DEF d
  <2> QED BY <1>2, <1>3, <2>1, <2>6 DEF m, h, p, z, v
<1> QED BY <1>2, <1>6, <1>8, <1>9

(* castSigned gives what a register of so many bits keeps of the numbers of  *)
(* a range.                                                                  *)
Kept(n, bits) == ((n + 2 ^ (bits - 1)) % 2 ^ bits) - 2 ^ (bits - 1)

LEMMA CastSignedCovers ==
    ASSUME NEW r, IsRange(r), NEW bits \in 1 .. Bits
    PROVE  LET c == CastSigned(r, bits)
           IN  IsRange(c) /\ \A n \in Int : Covers(r, n) => Covers(c, Kept(n, bits))
<1> DEFINE h == 2 ^ (bits - 1)
           p == 2 ^ bits
           a == r.imin
           b == r.imax
           c == CastSigned(r, bits)
           q == 2 ^ (Bits - bits)
           same == SignedChunk(a, h) = SignedChunk(b, h)
<1>1. Bits \in Nat \ {0} /\ bits \in 0 .. Bits BY WordAssumption
<1>2. p \in Nat \ {0} /\ p <= Top /\ Top = p * q /\ q \in Nat \ {0} /\ Top \in Nat \ {0}
  BY <1>1, PowerDivides
<1>3. a \in Numbers /\ b \in Numbers BY DEF IsRange
<1>4. h \in Nat \ {0} /\ p = 2 * h BY <1>3, SignedMovedIs
<1>5. c = IF same THEN Range(SignedMoved(a, bits), SignedMoved(b, bits))
          ELSE Range(Number(Word(-h), TRUE), FromNat(h - 1))
  BY CastSignedIs
<1>6. /\ SignedMoved(a, bits) \in Numbers /\ Value(SignedMoved(a, bits)) = ((a.value + h) % p) - h
      /\ SignedMoved(b, bits) \in Numbers /\ Value(SignedMoved(b, bits)) = ((b.value + h) % p) - h
  BY <1>3, SignedMovedIs
<1>7. \A n \in Int : Kept(n, bits) = ((n + h) % p) - h BY DEF Kept
<1>8. Top = (2 * h) * q /\ q \in Nat BY <1>2, <1>4
<1> HIDE DEF h, p, a, b, c, q
<1>9. CASE same
  <2> DEFINE v == a.value
             w == b.value
             e == (v + h) \div p
             f == (w + h) \div p
             x == (v + h) % p
             y == (w + h) % p
             s == IF a.negative THEN 1 ELSE 0
             t == IF b.negative THEN 1 ELSE 0
  <2>1. /\ v \in Int /\ 0 <= v /\ v < Top /\ Value(a) = v - Top * s
        /\ w \in Int /\ 0 <= w /\ w < Top /\ Value(b) = w - Top * t
    <3>1. Top * 1 = Top /\ Top * 0 = 0 BY <1>2
    <3> QED BY <1>2, <1>3, <3>1, NumberFacts
  <2>2. /\ SignedChunk(a, h) = <<IF e = q THEN 0 ELSE p * e, s - (IF e = q THEN 1 ELSE 0)>>
        /\ SignedChunk(b, h) = <<IF f = q THEN 0 ELSE p * f, t - (IF f = q THEN 1 ELSE 0)>>
    BY <1>3, <1>4, <1>8, SignedChunkIs
  <2> HIDE DEF v, w, s, t
  <2>3. v + h \in Int /\ w + h \in Int BY <1>4, <2>1
  <2>4. /\ v + h = p * e + x /\ e \in Int /\ x \in 0 .. p - 1
        /\ w + h = p * f + y /\ f \in Int /\ y \in 0 .. p - 1
    BY <1>2, <2>3, DivMod, Zenon
  <2> HIDE DEF e, f, x, y
  <2>5. s \in {0, 1} /\ t \in {0, 1} BY DEF s, t
  <2>6. /\ (IF e = q THEN 0 ELSE p * e) = (IF f = q THEN 0 ELSE p * f)
        /\ s - (IF e = q THEN 1 ELSE 0) = t - (IF f = q THEN 1 ELSE 0)
    <3> DEFINE i == IF e = q THEN 0 ELSE p * e
               j == IF f = q THEN 0 ELSE p * f
               k == s - (IF e = q THEN 1 ELSE 0)
               l == t - (IF f = q THEN 1 ELSE 0)
    <3>1. SignedChunk(a, h) = <<i, k>> /\ SignedChunk(b, h) = <<j, l>> BY <2>2
    <3> HIDE DEF i, j, k, l
    <3>2. <<i, k>> = <<j, l>> BY <1>9, <3>1, Zenon
    <3>3. i = j /\ k = l BY <3>2
    <3> QED BY <3>3 DEF i, j, k, l
  <2>7. e - q * s = f - q * t
    <3>0. \A i \in Int : p * i = 0 => i = 0
      <4>1. ASSUME NEW i \in Int, i >= 1 PROVE p * 1 <= p * i BY <1>2, <4>1
      <4>2. ASSUME NEW i \in Int, i <= -1 PROVE p * i <= p * (-1) BY <1>2, <4>2
      <4>3. ASSUME NEW i \in Int, p * i = 0 PROVE i = 0
        <5>1. ~(i >= 1) BY <1>2, <4>1, <4>3
        <5>2. ~(i <= -1) BY <1>2, <4>2, <4>3
        <5> QED BY <5>1, <5>2
      <4> QED BY <4>3
    <3>1. CASE e = q /\ f = q BY <2>5, <2>6, <3>1
    <3>2. CASE e = q /\ f # q
      <4>1. p * f = 0 /\ s - 1 = t BY <2>5, <2>6, <3>2
      <4>2. f = 0 BY <2>4, <3>0, <4>1
      <4>3. s = 1 /\ t = 0 BY <2>5, <4>1
      <4> QED BY <1>2, <3>2, <4>2, <4>3
    <3>3. CASE e # q /\ f = q
      <4>1. p * e = 0 /\ s = t - 1 BY <2>5, <2>6, <3>3
      <4>2. e = 0 BY <2>4, <3>0, <4>1
      <4>3. t = 1 /\ s = 0 BY <2>5, <4>1
      <4> QED BY <1>2, <3>3, <4>2, <4>3
    <3>4. CASE e # q /\ f # q
      <4>1. p * e = p * f /\ s = t BY <2>5, <2>6, <3>4
      <4>2. p * (e - f) = p * e - p * f /\ e - f \in Int BY <1>2, <2>4
      <4>3. p * e \in Int BY <1>2, <2>4
      <4>4. p * (e - f) = 0 BY <4>1, <4>2, <4>3
      <4>5. e - f = 0 BY <3>0, <4>2, <4>4
      <4>6. e = f BY <2>4, <4>5
      <4> QED BY <4>1, <4>6
    <3> QED BY <3>1, <3>2, <3>3, <3>4
  <2> DEFINE g == e - q * s
  <2>8. g \in Int /\ g = f - q * t BY <1>2, <2>4, <2>5, <2>7
  <2>9. p * g = p * e - Top * s /\ p * g = p * f - Top * t /\ p * g \in Int
    <3>1. p * (e - q * s) = p * e - (p * q) * s BY <1>2, <2>4, <2>5
    <3>2. p * (f - q * t) = p * f - (p * q) * t BY <1>2, <2>4, <2>5
    <3>3. p * (e - q * s) \in Int BY <1>2, <2>4, <2>5
    <3> QED BY <1>2, <2>7, <3>1, <3>2, <3>3
  <2> HIDE DEF g
  <2>10. Value(a) + h = p * g + x /\ Value(b) + h = p * g + y
    <3>1. Top * s \in Int /\ Top * t \in Int /\ p * e \in Int /\ p * f \in Int
      BY <1>2, <2>4, <2>5
    <3>2. Value(a) + h = p * g + x BY <1>4, <2>1, <2>4, <2>9, <3>1
    <3>3. Value(b) + h = p * g + y BY <1>4, <2>1, <2>4, <2>9, <3>1
    <3> QED BY <3>2, <3>3
  <2>11. IsRange(c) /\ Value(c.imin) = x - h /\ Value(c.imax) = y - h
    <3>1. c.imin = SignedMoved(a, bits) /\ c.imax = SignedMoved(b, bits) BY <1>5, <1>9 DEF Range
    <3> QED BY <1>6, <3>1 DEF IsRange, x, y, v, w
  <2>12. ASSUME NEW n \in Int, Covers(r, n) PROVE x - h <= Kept(n, bits) /\ Kept(n, bits) <= y - h
    <3> DEFINE z == n + h - p * g
    <3>1. Value(a) <= n /\ n <= Value(b) /\ Value(a) \in Int /\ Value(b) \in Int
      BY <1>3, <2>12, NumberFacts DEF Covers, a, b
    <3>2. z \in Int /\ n + h = p * g + z /\ x <= z /\ z <= y
      BY <1>4, <2>4, <2>9, <2>10, <3>1
    <3> HIDE DEF z
    <3>3. z \in 0 .. p - 1 BY <1>2, <2>4, <3>2
    <3>4. (n + h) % p = z BY <1>2, <2>8, <3>2, <3>3, DivUnique
    <3>5. Kept(n, bits) = z - h BY <1>7, <3>4
    <3> QED BY <1>2, <1>4, <2>4, <3>2, <3>5
  <2> QED BY <2>11, <2>12 DEF Covers, c
<1>10. CASE ~same
  <2>1. c.imin = Number(Word(-h), TRUE) /\ c.imax = FromNat(h - 1) BY <1>5, <1>10 DEF Range
  <2>2. -h \in Int /\ -Top <= -h /\ -h < 0 BY <1>2, <1>4
  <2>3. h - 1 \in Words BY <1>2, <1>4 DEF Words, AllOnes
  <2>4. c.imin \in Numbers /\ Value(c.imin) = -h BY <2>1, <2>2, BelowZeroFacts
  <2>5. c.imax \in Numbers /\ Value(c.imax) = h - 1 BY <2>1, <2>3, NatFacts
  <2>6. ASSUME NEW n \in Int PROVE -h <= Kept(n, bits) /\ Kept(n, bits) <= h - 1
    <3>1. n + h \in Int BY <1>4
    <3>2. (n + h) % p \in 0 .. p - 1 BY <1>2, <3>1, DivMod
    <3>3. Kept(n, bits) = ((n + h) % p) - h BY <1>7
    <3> QED BY <1>4, <3>2, <3>3
  <2> QED BY <2>4, <2>5, <2>6 DEF Covers, IsRange, c
<1> QED BY <1>9, <1>10

(* A signed register keeps that number. *)
LEMMA KeptIsWrapped ==
    ASSUME NEW t \in Types \ Unsigned, NEW n \in Int
    PROVE  Wrapped(n, t) = Kept(n, Width[t])
<1> DEFINE h == Half(t)
           p == Size(t)
           k == (n + h) \div p
           x == (n + h) % p
           m == x - h
<1>1. t \in Types /\ t # "bool" /\ h \in Nat \ {0} /\ p \in Nat \ {0} /\ p = 2 * h
  BY TypeFacts, TypesAssumption
<1>2. Kept(n, Width[t]) = m BY DEF Kept, Half, Size
<1>3. n + h \in Int BY <1>1
<1>4. n + h = p * k + x /\ k \in Int /\ x \in 0 .. p - 1 BY <1>1, <1>3, DivMod
<1>5. NumbersOf(t) = -h .. h - 1 BY DEF NumbersOf
<1> HIDE DEF h, p, k, x
<1>6. m \in NumbersOf(t) /\ m \in Int BY <1>1, <1>4, <1>5
<1>7. m % p = n % p
  <2>1. p * (-k) = -(p * k) /\ p * k \in Int /\ -k \in Int BY <1>1, <1>4
  <2>2. m = n + p * (-k) BY <1>1, <1>4, <2>1
  <2>3. (n + p * (-k)) % p = n % p BY <1>1, <2>1, ModMultiple
  <2> QED BY <2>2, <2>3
<1> HIDE DEF m
<1>8. Wrapped(n, t) \in NumbersOf(t) /\ Wrapped(n, t) % p = n % p BY <1>1, WrappedFacts DEF p
<1>9. m = Wrapped(n, t) BY <1>1, <1>6, <1>7, <1>8, NumberUnique DEF p
<1> QED BY <1>2, <1>9

LEMMA CastDcharCovers ==
    ASSUME NEW r, IsRange(r)
    PROVE  /\ IsRange(CastDchar(r))
           /\ \A n \in Int : Covers(r, n) /\ n % Size("dchar") <= LastDchar
                  => Covers(CastDchar(r), n % Size("dchar"))
<1> DEFINE bits == Width["dchar"]
           u == CastUnsigned(r, bits)
           c == CastDchar(r)
<1>1. "dchar" \in Types /\ bits \in 1 .. Bits /\ LastDchar \in 0 .. 2 ^ bits - 1
  BY TypesAssumption DEF Types
<1>2. 2 ^ bits = Size("dchar") BY DEF Size
<1>3. Size("dchar") \in Nat \ {0} /\ Size("dchar") <= Top /\ Top \in Nat \ {0} BY <1>1, TypeFacts
<1> HIDE DEF bits
<1>4. /\ IsRange(u) /\ 0 <= Value(u.imin) /\ Value(u.imax) <= 2 ^ bits - 1
      /\ \A n \in Int : Covers(r, n) => Covers(u, n % 2 ^ bits)
  BY <1>1, CastUnsignedCovers
<1> DEFINE Cut(a) == IF a.value > LastDchar THEN FromNat(LastDchar) ELSE a
<1>5. c.imin = Cut(u.imin) /\ c.imax = Cut(u.imax) BY DEF CastDchar, Range, bits
<1> HIDE DEF u, c
<1>6. LastDchar \in Words BY <1>1, <1>2, <1>3 DEF Words, AllOnes
<1>7. ASSUME NEW a \in Numbers
      PROVE  /\ Cut(a) \in Numbers
             /\ \A n \in Int : 0 <= Value(a) /\ n <= LastDchar =>
                    /\ Value(a) <= n => Value(Cut(a)) <= n
                    /\ n <= Value(a) => n <= Value(Cut(a))
  <2>1. FromNat(LastDchar) \in Numbers /\ Value(FromNat(LastDchar)) = LastDchar BY <1>6, NatFacts
  <2>2. /\ a.value \in Nat /\ a.negative \in BOOLEAN /\ a.value < Top
        /\ Value(a) = IF a.negative THEN a.value - Top ELSE a.value
    BY NumberFacts
  <2>3. CASE a.value > LastDchar
    <3>1. Cut(a) = FromNat(LastDchar) BY <2>3
    <3> HIDE DEF Cut
    <3>2. 0 <= Value(a) => Value(a) = a.value BY <1>3, <2>2
    <3> QED BY <1>1, <1>2, <1>3, <2>1, <2>2, <2>3, <3>1, <3>2
  <2>4. CASE ~(a.value > LastDchar)
    <3>1. Cut(a) = a BY <2>4
    <3> HIDE DEF Cut
    <3> QED BY <3>1
  <2> QED BY <2>3, <2>4
<1> HIDE DEF Cut
<1>8. u.imin \in Numbers /\ u.imax \in Numbers BY <1>4 DEF IsRange
<1>9. IsRange(c) BY <1>5, <1>7, <1>8 DEF IsRange
<1>10. ASSUME NEW n \in Int, Covers(r, n), n % Size("dchar") <= LastDchar
       PROVE  Covers(c, n % Size("dchar"))
  <2> DEFINE m == n % Size("dchar")
  <2>1. m \in 0 .. Size("dchar") - 1 BY <1>3, DivMod
  <2>2. m \in Int /\ 0 <= m /\ m <= LastDchar BY <1>3, <1>10, <2>1
  <2>3. Covers(u, m) BY <1>2, <1>4, <1>10
  <2> HIDE DEF m
  <2>4. Value(u.imin) <= m /\ m <= Value(u.imax) BY <2>3 DEF Covers
  <2>5. Value(u.imax) \in Int BY <1>8, NumberFacts
  <2>6. 0 <= Value(u.imin) /\ 0 <= Value(u.imax) BY <1>4, <2>2, <2>4, <2>5
  <2>7. Value(c.imin) <= m /\ m <= Value(c.imax) BY <1>5, <1>7, <1>8, <2>2, <2>4, <2>6
  <2> QED BY <1>9, <2>7 DEF Covers, m
<1> QED BY <1>9, <1>10 DEF c

(* IntRange::_cast: a number in a range is, as a number of the type, in the  *)
(* range that is cast, unless it is no character or not a truth value.       *)
LEMMA CastRangeCovers ==
    ASSUME NEW t \in Types, NEW r, NEW n \in Int, Covers(r, n),
           t = "bool" => n \in {0, 1},
           t = "dchar" => Wrapped(n, t) <= LastDchar
    PROVE  Covers(CastRange(r, t), Wrapped(n, t))
<1>1. IsRange(r) /\ Width[t] \in 1 .. Bits BY TypesAssumption DEF Covers, Types
<1>2. Size(t) \in Nat \ {0} /\ Size(t) = 2 ^ Width[t] BY TypeFacts DEF Size
<1>3. CASE t \notin Unsigned
  <2>1. CastRange(r, t) = CastSigned(r, Width[t]) BY <1>3, TypesAssumption DEF CastRange
  <2>2. Wrapped(n, t) = Kept(n, Width[t]) BY <1>3, KeptIsWrapped
  <2>3. Covers(CastSigned(r, Width[t]), Kept(n, Width[t])) BY <1>1, CastSignedCovers
  <2> QED BY <2>1, <2>2, <2>3
<1>4. CASE t = "dchar"
  <2>1. t \in Unsigned /\ CastRange(r, t) = CastDchar(r) BY <1>4, TypesAssumption DEF CastRange
  <2>2. Wrapped(n, t) = n % Size(t) BY <1>4, <2>1 DEF Wrapped, Size
  <2> QED BY <1>1, <1>4, <2>1, <2>2, CastDcharCovers
<1>5. CASE t \in Unsigned /\ t # "dchar"
  <2>1. CastRange(r, t) = CastUnsigned(r, Width[t]) BY <1>5 DEF CastRange
  <2>2. Covers(CastUnsigned(r, Width[t]), n % 2 ^ Width[t]) BY <1>1, CastUnsignedCovers
  <2>3. CASE t # "bool"
    <3>1. Wrapped(n, t) = n % 2 ^ Width[t] BY <1>5, <2>3 DEF Wrapped
    <3> QED BY <2>1, <2>2, <3>1
  <2>4. CASE t = "bool"
    <3>1. n \in {0, 1} /\ Wrapped(n, t) = n BY <2>4, TypesAssumption DEF Wrapped
    <3>2. 2 ^ Width[t] = 2
      <4>1. 0 \in 0 .. Bits /\ 0 + 1 = 1 BY WordAssumption
      <4>2. 2 ^ (0 + 1) = 2 * 2 ^ 0 /\ 2 ^ 0 = 1 BY <4>1, PowerSteps
      <4>3. Width[t] = 1 BY <2>4, TypesAssumption
      <4> QED BY <4>1, <4>2, <4>3
    <3>3. n % 2 = n BY <3>1
    <3> QED BY <2>1, <2>2, <3>1, <3>2, <3>3
  <2> QED BY <2>3, <2>4
<1> QED BY <1>3, <1>4, <1>5

LEMMA RangeCovers ==
    ASSUME NEW a \in Numbers, NEW b \in Numbers, NEW n, Value(a) <= n, n <= Value(b)
    PROVE  Covers(Range(a, b), n)
BY DEF Covers, IsRange, Range

(* The range of a type covers its numbers. *)
LEMMA FromTypeCovers ==
    ASSUME NEW t \in Types, NEW n \in NumbersOf(t), t = "dchar" => n <= LastDchar
    PROVE  Covers(FromType(t), n)
<1>1. /\ Size(t) \in Nat \ {0} /\ Half(t) \in Nat \ {0} /\ Size(t) = 2 * Half(t)
      /\ Size(t) <= Top /\ Top \in Nat \ {0}
  BY TypeFacts
<1>2. Size(t) = 2 ^ Width[t] /\ Half(t) = 2 ^ (Width[t] - 1) BY DEF Size, Half
<1>3. \A m \in Nat : m < Size(t) => m \in Words BY <1>1 DEF Words, AllOnes
<1>4. 0 \in Words BY <1>1, <1>3
<1>5. n \in Int BY MeaningOfWord
<1>6. CASE t = "dchar"
  <2>1. LastDchar \in Nat /\ LastDchar < Size(t) /\ t \in Unsigned
    BY <1>1, <1>2, <1>6, TypesAssumption
  <2>2. FromType(t) = Range(FromNat(0), FromNat(LastDchar)) BY <1>6, TypesAssumption DEF FromType
  <2>3. 0 <= n BY <1>1, <2>1 DEF NumbersOf
  <2> QED BY <1>3, <1>4, <1>6, <2>1, <2>2, <2>3, NatFacts, RangeCovers
<1>7. CASE t \notin Unsigned
  <2>1. t # "dchar" BY <1>7, TypesAssumption
  <2>2. FromType(t) = Range(Number(Word(-Half(t)), TRUE), FromNat(Half(t) - 1))
    BY <1>2, <1>7, <2>1 DEF FromType
  <2>3. -Half(t) \in Int /\ -Top <= -Half(t) /\ -Half(t) < 0 BY <1>1
  <2>4. /\ Number(Word(-Half(t)), TRUE) \in Numbers
        /\ Value(Number(Word(-Half(t)), TRUE)) = -Half(t)
    BY <2>3, BelowZeroFacts
  <2>5. Half(t) - 1 \in Words BY <1>1, <1>3
  <2>6. FromNat(Half(t) - 1) \in Numbers /\ Value(FromNat(Half(t) - 1)) = Half(t) - 1
    BY <2>5, NatFacts
  <2>7. -Half(t) <= n /\ n <= Half(t) - 1 BY <1>1, <1>7 DEF NumbersOf
  <2> QED BY <2>2, <2>4, <2>6, <2>7, RangeCovers
<1>8. CASE t # "dchar" /\ t \in Unsigned
  <2>1. FromType(t) = Range(FromNat(0), FromNat(Size(t) - 1)) BY <1>2, <1>8 DEF FromType
  <2>2. Size(t) - 1 \in Words BY <1>1, <1>3
  <2>3. 0 <= n /\ n <= Size(t) - 1 BY <1>1, <1>8 DEF NumbersOf
  <2> QED BY <1>4, <2>1, <2>2, <2>3, NatFacts, RangeCovers
<1> QED BY <1>6, <1>7, <1>8
-------------------------------------------------------------------------------
(* The ranges of the arithmetic operators cover the numbers that are meant,  *)
(* if the bounds are not cut off (RangeAdd, RangeMin) or whenever they are.  *)
LEMMA BoundsOf ==
    ASSUME NEW r, NEW x \in Int, Covers(r, x)
    PROVE  /\ r.imin \in Numbers /\ r.imax \in Numbers
           /\ Value(r.imin) \in Int /\ Value(r.imax) \in Int
           /\ Value(r.imin) <= x /\ x <= Value(r.imax)
           /\ -Top <= Value(r.imin) /\ Value(r.imax) < Top /\ Top \in Nat \ {0}
BY NumberFacts, WordAssumption DEF Covers, IsRange

LEMMA AddCovers ==
    ASSUME NEW r1, NEW r2, NEW x \in Int, NEW y \in Int, Covers(r1, x), Covers(r2, y),
           \A a \in {r1.imin, r1.imax}, b \in {r2.imin, r2.imax} :
               Value(a) + Value(b) = Saturated(Value(a) + Value(b))
    PROVE  Covers(RangeAdd(r1, r2), x + y)
<1> DEFINE low == Plus(r1.imin, r2.imin)
           high == Plus(r1.imax, r2.imax)
<1>1. /\ r1.imin \in Numbers /\ r1.imax \in Numbers /\ r2.imin \in Numbers /\ r2.imax \in Numbers
      /\ Value(r1.imin) \in Int /\ Value(r1.imax) \in Int
      /\ Value(r2.imin) \in Int /\ Value(r2.imax) \in Int
      /\ Value(r1.imin) <= x /\ x <= Value(r1.imax) /\ Value(r2.imin) <= y /\ y <= Value(r2.imax)
  BY BoundsOf
<1>2. low \in Numbers /\ Value(low) = Value(r1.imin) + Value(r2.imin) BY <1>1, PlusSaturates
<1>3. high \in Numbers /\ Value(high) = Value(r1.imax) + Value(r2.imax) BY <1>1, PlusSaturates
<1>4. RangeAdd(r1, r2) = Range(low, high) BY DEF RangeAdd
<1> HIDE DEF low, high
<1>5. Value(low) <= x + y /\ x + y <= Value(high) BY <1>1, <1>2, <1>3
<1> QED BY <1>2, <1>3, <1>4, <1>5, RangeCovers

LEMMA MinCovers ==
    ASSUME NEW r1, NEW r2, NEW x \in Int, NEW y \in Int, Covers(r1, x), Covers(r2, y),
           \A a \in {r1.imin, r1.imax}, b \in {r2.imin, r2.imax} :
               Value(a) - Value(b) = Saturated(Value(a) - Value(b))
    PROVE  Covers(RangeMin(r1, r2), x - y)
<1> DEFINE low == Subtract(r1.imin, r2.imax)
           high == Subtract(r1.imax, r2.imin)
<1>1. /\ r1.imin \in Numbers /\ r1.imax \in Numbers /\ r2.imin \in Numbers /\ r2.imax \in Numbers
      /\ Value(r1.imin) \in Int /\ Value(r1.imax) \in Int
      /\ Value(r2.imin) \in Int /\ Value(r2.imax) \in Int
      /\ Value(r1.imin) <= x /\ x <= Value(r1.imax) /\ Value(r2.imin) <= y /\ y <= Value(r2.imax)
  BY BoundsOf
<1>2. low \in Numbers /\ Value(low) = Value(r1.imin) - Value(r2.imax) BY <1>1, SubtractSaturates
<1>3. high \in Numbers /\ Value(high) = Value(r1.imax) - Value(r2.imin) BY <1>1, SubtractSaturates
<1>4. RangeMin(r1, r2) = Range(low, high) BY DEF RangeMin
<1> HIDE DEF low, high
<1>5. Value(low) <= x - y /\ x - y <= Value(high) BY <1>1, <1>2, <1>3
<1> QED BY <1>2, <1>3, <1>4, <1>5, RangeCovers

(* What is monotone in each argument, upwards or downwards, lies between two *)
(* of its values at the corners.                                             *)
Between(m, a, b) == (a <= m /\ m <= b) \/ (b <= m /\ m <= a)

LEMMA Corners ==
    ASSUME NEW m \in Int, NEW p \in Int, NEW q \in Int, Between(m, p, q),
           NEW a \in Numbers, NEW b \in Numbers, NEW c \in Numbers, NEW d \in Numbers,
           Between(p, Value(a), Value(b)), Between(q, Value(c), Value(d))
    PROVE  Covers(FromNumbers4(a, b, c, d), m)
<1>1. Value(a) \in Int /\ Value(b) \in Int /\ Value(c) \in Int /\ Value(d) \in Int BY NumberFacts
<1>2. PICK u \in {a, b, c, d} : Value(u) <= m
  <2>1. Value(a) <= m \/ Value(b) <= m \/ Value(c) <= m \/ Value(d) <= m BY <1>1 DEF Between
  <2> QED BY <2>1
<1>3. PICK v \in {a, b, c, d} : m <= Value(v)
  <2>1. m <= Value(a) \/ m <= Value(b) \/ m <= Value(c) \/ m <= Value(d) BY <1>1 DEF Between
  <2> QED BY <2>1
<1> QED BY <1>2, <1>3, FourCover

LEMMA ProductBetween ==
    ASSUME NEW x \in Int, NEW a \in Int, NEW b \in Int, NEW y \in Int, a <= x, x <= b
    PROVE  /\ Between(x * y, a * y, b * y) /\ Between(y * x, y * a, y * b)
           /\ x * y \in Int /\ a * y \in Int /\ b * y \in Int
<1>1. \A u, v \in Int : u <= v /\ 0 <= y => u * y <= v * y
  <2>1. ASSUME NEW u \in Int, NEW v \in Int, u <= v, 0 <= y PROVE u * y <= v * y BY <2>1
  <2> QED BY <2>1
<1>2. \A u, v \in Int : u <= v /\ y <= 0 => v * y <= u * y
  <2>1. ASSUME NEW u \in Int, NEW v \in Int, u <= v, y <= 0 PROVE v * y <= u * y BY <2>1
  <2> QED BY <2>1
<1>3. x * y \in Int /\ a * y \in Int /\ b * y \in Int OBVIOUS
<1>4. y * x = x * y /\ y * a = a * y /\ y * b = b * y OBVIOUS
<1>5. Between(x * y, a * y, b * y)
  <2>1. 0 <= y \/ y <= 0 OBVIOUS
  <2> QED BY <1>1, <1>2, <2>1 DEF Between
<1> QED BY <1>3, <1>4, <1>5

LEMMA MulCovers ==
    ASSUME NEW r1, NEW r2, NEW x \in Int, NEW y \in Int, Covers(r1, x), Covers(r2, y),
           \A a \in {r1.imin, r1.imax}, b \in {r2.imin, r2.imax} :
               Value(a) * Value(b) = Saturated(Value(a) * Value(b))
    PROVE  Covers(RangeMul(r1, r2), x * y)
<1> DEFINE a == Value(r1.imin)
           b == Value(r1.imax)
           c == Value(r2.imin)
           d == Value(r2.imax)
           ac == Times(r1.imin, r2.imin)
           ad == Times(r1.imin, r2.imax)
           bc == Times(r1.imax, r2.imin)
           bd == Times(r1.imax, r2.imax)
<1>1. /\ r1.imin \in Numbers /\ r1.imax \in Numbers /\ r2.imin \in Numbers /\ r2.imax \in Numbers
      /\ a \in Int /\ b \in Int /\ c \in Int /\ d \in Int
      /\ a <= x /\ x <= b /\ c <= y /\ y <= d
  BY BoundsOf
<1>2. ac \in Numbers /\ Value(ac) = a * c /\ ad \in Numbers /\ Value(ad) = a * d
  BY <1>1, TimesSaturates
<1>3. bc \in Numbers /\ Value(bc) = b * c /\ bd \in Numbers /\ Value(bd) = b * d
  BY <1>1, TimesSaturates
<1>4. RangeMul(r1, r2) = FromNumbers4(ac, ad, bc, bd) BY DEF RangeMul
<1> HIDE DEF a, b, c, d, ac, ad, bc, bd
<1>5. Between(x * y, a * y, b * y) /\ x * y \in Int /\ a * y \in Int /\ b * y \in Int
  BY <1>1, ProductBetween
<1>6. Between(a * y, Value(ac), Value(ad)) /\ Between(b * y, Value(bc), Value(bd))
  <2>1. Between(a * y, a * c, a * d) BY <1>1, ProductBetween
  <2>2. Between(b * y, b * c, b * d) BY <1>1, ProductBetween
  <2> QED BY <1>2, <1>3, <2>1, <2>2
<1> DEFINE m == x * y
           p == a * y
           q == b * y
<1>7. m \in Int /\ p \in Int /\ q \in Int /\ Between(m, p, q)
      /\ Between(p, Value(ac), Value(ad)) /\ Between(q, Value(bc), Value(bd))
  BY <1>5, <1>6
<1> HIDE DEF m, p, q
<1>8. Covers(FromNumbers4(ac, ad, bc, bd), m) BY <1>2, <1>3, <1>7, Corners
<1> QED BY <1>4, <1>8 DEF m

(* Division towards zero: the quotient is monotone, and the remainder is     *)
(* smaller than the divisor, with the sign of the dividend.                  *)
LEMMA ProductMonotone ==
    ASSUME NEW m \in Int, 0 <= m, NEW u \in Int, NEW v \in Int, u <= v
    PROVE  m * u <= m * v /\ u * m <= v * m /\ m * u \in Int /\ m * v \in Int
OBVIOUS

LEMMA DivisionMonotone ==
    ASSUME NEW x \in Nat, NEW z \in Nat, NEW y \in Nat \ {0}, NEW w \in Nat \ {0}
    PROVE  /\ x \div y \in Nat
           /\ x <= z => x \div y <= z \div y
           /\ y <= w => x \div w <= x \div y
<1> DEFINE d(i, j) == i \div j
<1>1. \A i \in Nat : \A j \in Nat \ {0} :
          d(i, j) \in Nat /\ j * d(i, j) <= i /\ i < j * d(i, j) + j /\ j * d(i, j) \in Nat
  <2>1. ASSUME NEW i \in Nat, NEW j \in Nat \ {0}
        PROVE  d(i, j) \in Nat /\ j * d(i, j) <= i /\ i < j * d(i, j) + j /\ j * d(i, j) \in Nat
    <3>1. i = j * (i \div j) + (i % j) /\ i \div j \in Int /\ i % j \in 0 .. j - 1 BY DivMod
    <3>2. i \div j \in Nat OBVIOUS
    <3> HIDE DEF d
    <3>3. d(i, j) \in Nat /\ i = j * d(i, j) + (i % j) /\ j * d(i, j) \in Nat BY <3>1, <3>2 DEF d
    <3> QED BY <3>1, <3>3
  <2> QED BY <2>1
<1> HIDE DEF d
<1>2. ASSUME x <= z PROVE d(x, y) <= d(z, y)
  <2>1. ASSUME d(z, y) + 1 <= d(x, y) PROVE FALSE
    <3> DEFINE u == d(z, y) + 1
               v == d(x, y)
    <3>0. u \in Int /\ v \in Int /\ u <= v /\ y \in Int /\ 0 <= y BY <1>1, <2>1
    <3> HIDE DEF u, v
    <3>5. y * u <= y * v BY <3>0, ProductMonotone, Zenon
    <3>1. y * (d(z, y) + 1) <= y * d(x, y) BY <3>5 DEF u, v
    <3>2. y * (d(z, y) + 1) = y * d(z, y) + y BY <1>1
    <3> QED BY <1>1, <1>2, <3>1, <3>2
  <2> QED BY <1>1, <2>1
<1>3. ASSUME y <= w PROVE d(x, w) <= d(x, y)
  <2>1. ASSUME d(x, y) + 1 <= d(x, w) PROVE FALSE
    <3> DEFINE u == d(x, y) + 1
               v == d(x, w)
    <3>0. u \in Int /\ v \in Int /\ 0 <= v /\ u <= v /\ y \in Int /\ 0 <= y /\ w \in Int
      BY <1>1, <2>1
    <3> HIDE DEF u, v
    <3>5. y * u <= y * v /\ y * v <= w * v BY <1>3, <3>0, ProductMonotone, Zenon
    <3>1. y * (d(x, y) + 1) <= y * d(x, w) BY <3>5 DEF u, v
    <3>2. y * (d(x, y) + 1) = y * d(x, y) + y BY <1>1
    <3>3. y * d(x, w) <= w * d(x, w) BY <3>5 DEF v
    <3> QED BY <1>1, <3>1, <3>2, <3>3
  <2> QED BY <1>1, <2>1
<1> QED BY <1>1, <1>2, <1>3 DEF d

LEMMA QuotientSigns ==
    ASSUME NEW x \in Int, NEW y \in Int, y > 0
    PROVE  /\ 0 <= x => Quotient(x, y) = x \div y
           /\ x < 0 => Quotient(x, y) = -((-x) \div y)
           /\ Quotient(x, -y) = -Quotient(x, y)
<1>1. (y < 0) = FALSE /\ (-y < 0) = TRUE /\ Abs(y) = y /\ Abs(-y) = y BY DEF Abs
<1>2. Abs(x) = IF x < 0 THEN -x ELSE x BY DEF Abs
<1>3. CASE 0 <= x
  <2>1. (x < 0) = FALSE /\ Abs(x) = x BY <1>2, <1>3
  <2>2. Quotient(x, y) = x \div y BY <1>1, <2>1 DEF Quotient
  <2>3. Quotient(x, -y) = -(x \div y) BY <1>1, <2>1 DEF Quotient
  <2> QED BY <1>3, <2>2, <2>3
<1>4. CASE x < 0
  <2>1. (x < 0) = TRUE /\ Abs(x) = -x BY <1>2, <1>4
  <2>2. Quotient(x, y) = -((-x) \div y) BY <1>1, <2>1 DEF Quotient
  <2>3. Quotient(x, -y) = (-x) \div y BY <1>1, <2>1 DEF Quotient
  <2>4. (-x) \div y \in Int /\ -(-((-x) \div y)) = (-x) \div y
    <3>1. -x \in Nat /\ y \in Nat \ {0} BY <1>4
    <3>2. (-x) \div y \in Nat BY <3>1, DivisionMonotone
    <3> QED BY <3>2
  <2> QED BY <1>4, <2>2, <2>3, <2>4
<1> QED BY <1>3, <1>4

LEMMA QuotientRises ==
    ASSUME NEW x \in Int, NEW z \in Int, NEW y \in Int, y > 0, x <= z
    PROVE  Quotient(x, y) <= Quotient(z, y) /\ Quotient(x, y) \in Int /\ Quotient(z, y) \in Int
<1>1. y \in Nat \ {0} OBVIOUS
<1>2. CASE 0 <= x
  <2>1. x \in Nat /\ z \in Nat /\ 0 <= z BY <1>2
  <2>2. x \div y \in Nat /\ z \div y \in Nat /\ x \div y <= z \div y BY <1>1, <2>1, DivisionMonotone
  <2>3. Quotient(x, y) = x \div y /\ Quotient(z, y) = z \div y BY <1>2, <2>1, QuotientSigns
  <2> QED BY <2>2, <2>3
<1>3. CASE x < 0 /\ 0 <= z
  <2>1. -x \in Nat /\ z \in Nat BY <1>3
  <2>2. (-x) \div y \in Nat /\ z \div y \in Nat BY <1>1, <2>1, DivisionMonotone
  <2>3. Quotient(x, y) = -((-x) \div y) /\ Quotient(z, y) = z \div y BY <1>3, QuotientSigns
  <2> QED BY <2>2, <2>3
<1>4. CASE z < 0
  <2>1. -x \in Nat /\ -z \in Nat /\ -z <= -x /\ x < 0 BY <1>4
  <2>2. (-x) \div y \in Nat /\ (-z) \div y \in Nat /\ (-z) \div y <= (-x) \div y
    BY <1>1, <2>1, DivisionMonotone
  <2>3. Quotient(x, y) = -((-x) \div y) /\ Quotient(z, y) = -((-z) \div y)
    BY <1>4, <2>1, QuotientSigns
  <2> QED BY <2>2, <2>3
<1> QED BY <1>2, <1>3, <1>4

LEMMA QuotientShrinks ==
    ASSUME NEW x \in Int, NEW y \in Int, NEW w \in Int, 0 < y, y <= w
    PROVE  /\ 0 <= x => Quotient(x, w) <= Quotient(x, y)
           /\ x < 0 => Quotient(x, y) <= Quotient(x, w)
           /\ Quotient(x, y) \in Int /\ Quotient(x, w) \in Int
<1>1. y \in Nat \ {0} /\ w \in Nat \ {0} /\ w > 0 OBVIOUS
<1>2. CASE 0 <= x
  <2>1. x \in Nat BY <1>2
  <2>2. x \div y \in Nat /\ x \div w \in Nat /\ x \div w <= x \div y BY <1>1, <2>1, DivisionMonotone
  <2>3. Quotient(x, y) = x \div y /\ Quotient(x, w) = x \div w BY <1>1, <1>2, QuotientSigns
  <2> QED BY <1>2, <2>2, <2>3
<1>3. CASE x < 0
  <2>1. -x \in Nat BY <1>3
  <2>2. (-x) \div y \in Nat /\ (-x) \div w \in Nat /\ (-x) \div w <= (-x) \div y
    BY <1>1, <2>1, DivisionMonotone
  <2>3. Quotient(x, y) = -((-x) \div y) /\ Quotient(x, w) = -((-x) \div w)
    BY <1>1, <1>3, QuotientSigns
  <2> QED BY <1>3, <2>2, <2>3
<1> QED BY <1>2, <1>3

LEMMA QuotientBetween ==
    ASSUME NEW x \in Int, NEW a \in Int, NEW b \in Int, a <= x, x <= b,
           NEW y \in Int, NEW c \in Int, NEW d \in Int, c <= y, y <= d, 0 < c \/ d < 0
    PROVE  /\ Between(Quotient(x, y), Quotient(a, y), Quotient(b, y))
           /\ \A z \in Int : Between(Quotient(z, y), Quotient(z, c), Quotient(z, d))
           /\ \A z \in Int, w \in {y, c, d} : Quotient(z, w) \in Int
<1>1. ASSUME NEW u \in Int, NEW v \in Int, NEW w \in Int, 0 < u, u <= v, v <= w
      PROVE  /\ Between(Quotient(x, v), Quotient(a, v), Quotient(b, v))
             /\ \A z \in Int : Between(Quotient(z, v), Quotient(z, u), Quotient(z, w))
             /\ \A z \in Int : /\ Quotient(z, u) \in Int /\ Quotient(z, v) \in Int
                               /\ Quotient(z, w) \in Int
  <2>1. 0 < v /\ 0 < w BY <1>1
  <2>2. Between(Quotient(x, v), Quotient(a, v), Quotient(b, v)) BY <2>1, QuotientRises DEF Between
  <2>3. ASSUME NEW z \in Int
        PROVE  /\ Between(Quotient(z, v), Quotient(z, u), Quotient(z, w))
               /\ Quotient(z, u) \in Int /\ Quotient(z, v) \in Int /\ Quotient(z, w) \in Int
    <3>1. 0 <= z \/ z < 0 OBVIOUS
    <3> QED BY <1>1, <2>1, <3>1, QuotientShrinks DEF Between
  <2> QED BY <2>2, <2>3
<1>2. CASE 0 < c
  <2>1. /\ Between(Quotient(x, y), Quotient(a, y), Quotient(b, y))
        /\ \A z \in Int : Between(Quotient(z, y), Quotient(z, c), Quotient(z, d))
        /\ \A z \in Int : Quotient(z, c) \in Int /\ Quotient(z, y) \in Int /\ Quotient(z, d) \in Int
    BY <1>1, <1>2
  <2> QED BY <2>1
<1>3. CASE d < 0
  <2> DEFINE e == -d
             v == -y
             f == -c
  <2>1. e \in Int /\ v \in Int /\ f \in Int /\ 0 < e /\ e <= v /\ v <= f /\ 0 < v /\ 0 < f
        /\ d = -e /\ y = -v /\ c = -f
    BY <1>3
  <2> HIDE DEF e, v, f
  <2>2. /\ Between(Quotient(x, v), Quotient(a, v), Quotient(b, v))
        /\ \A z \in Int : Between(Quotient(z, v), Quotient(z, e), Quotient(z, f))
        /\ \A z \in Int : Quotient(z, e) \in Int /\ Quotient(z, v) \in Int /\ Quotient(z, f) \in Int
    BY <1>1, <2>1
  <2>3. \A z \in Int : /\ Quotient(z, d) = -Quotient(z, e) /\ Quotient(z, y) = -Quotient(z, v)
                       /\ Quotient(z, c) = -Quotient(z, f)
    BY <2>1, QuotientSigns
  <2>4. \A i, j, k \in Int : Between(i, j, k) => Between(-i, -j, -k) /\ Between(-i, -k, -j)
    BY DEF Between
  <2>5. Between(Quotient(x, y), Quotient(a, y), Quotient(b, y)) BY <2>2, <2>3, <2>4
  <2>6. \A z \in Int : Between(Quotient(z, y), Quotient(z, c), Quotient(z, d)) BY <2>2, <2>3, <2>4, SMTT(40)
  <2>7. \A z \in Int : Quotient(z, c) \in Int /\ Quotient(z, y) \in Int /\ Quotient(z, d) \in Int
    BY <2>2, <2>3
  <2> QED BY <2>5, <2>6, <2>7
<1> QED BY <1>2, <1>3

LEMMA SaturatedBetween ==
    ASSUME NEW m \in Int, NEW p \in Int, NEW q \in Int, Between(m, p, q)
    PROVE  /\ Between(Saturated(m), Saturated(p), Saturated(q))
           /\ Saturated(m) \in Int /\ Saturated(p) \in Int /\ Saturated(q) \in Int
BY WordAssumption DEF Between, Saturated, AllOnes

LEMMA QuotientSmall ==
    ASSUME NEW x \in Int, NEW y \in Int, y # 0, -Top < x, x < Top
    PROVE  Quotient(x, y) \in Int /\ Saturated(Quotient(x, y)) = Quotient(x, y)
<1> DEFINE n == Abs(x)
           m == Abs(y)
           k == n \div m
<1>1. Top \in Nat BY WordAssumption
<1>2. n \in Nat /\ n < Top /\ m \in Nat \ {0} BY <1>1 DEF Abs
<1>3. Quotient(x, y) = k \/ Quotient(x, y) = -k BY DEF Quotient
<1> HIDE DEF n, m
<1>4. k \in Nat /\ k <= n
  <2>1. k \in Nat BY <1>2, DivisionMonotone
  <2>2. n = m * k + (n % m) /\ n % m \in 0 .. m - 1 BY <1>2, DivMod
  <2> HIDE DEF k
  <2>3. 1 * k <= m * k
    <3>1. 1 \in Int /\ m \in Int /\ 1 <= m /\ k \in Int /\ 0 <= k BY <1>2, <2>1
    <3> QED BY <3>1, ProductMonotone, Zenon
  <2>4. m * k \in Int /\ 1 * k = k BY <1>2, <2>1
  <2> QED BY <1>2, <2>1, <2>2, <2>3, <2>4
<1> HIDE DEF k
<1> QED BY <1>1, <1>2, <1>3, <1>4 DEF Saturated, AllOnes

LEMMA DivCovers ==
    ASSUME NEW r1, NEW r2, NEW x \in Int, NEW y \in Int, Covers(r1, x), Covers(r2, y),
           -Top < x, ~ContainsZero(r2), NEW t
    PROVE  y # 0 /\ Covers(RangeDiv(r1, r2, t), Quotient(x, y))
<1> DEFINE a == Value(r1.imin)
           b == Value(r1.imax)
           c == Value(r2.imin)
           d == Value(r2.imax)
           ac == Divide(r1.imin, r2.imin)
           ad == Divide(r1.imin, r2.imax)
           bc == Divide(r1.imax, r2.imin)
           bd == Divide(r1.imax, r2.imax)
<1>1. /\ r1.imin \in Numbers /\ r1.imax \in Numbers /\ r2.imin \in Numbers /\ r2.imax \in Numbers
      /\ a \in Int /\ b \in Int /\ c \in Int /\ d \in Int
      /\ a <= x /\ x <= b /\ c <= y /\ y <= d /\ b < Top /\ Top \in Nat
  BY BoundsOf
<1>2. 0 < c \/ d < 0
  <2>1. /\ r2.imin.value \in Nat /\ r2.imin.negative \in BOOLEAN /\ r2.imax.negative \in BOOLEAN
        /\ c = (IF r2.imin.negative THEN r2.imin.value - Top ELSE r2.imin.value)
        /\ d = (IF r2.imax.negative THEN r2.imax.value - Top ELSE r2.imax.value)
        /\ r2.imax.value < Top /\ r2.imin.value < Top /\ r2.imax.value \in Nat
    BY <1>1, NumberFacts
  <2>2. /\ ~(r2.imin.negative /\ ~r2.imax.negative)
        /\ ~(~r2.imin.negative /\ r2.imin.value = 0)
    BY DEF ContainsZero
  <2> HIDE DEF c, d
  <2>3. CASE r2.imin.negative
    <3>1. d = r2.imax.value - Top BY <2>1, <2>2, <2>3
    <3> QED BY <1>1, <2>1, <3>1
  <2>4. CASE ~r2.imin.negative
    <3>1. c = r2.imin.value /\ r2.imin.value # 0 BY <2>1, <2>2, <2>4
    <3> QED BY <2>1, <3>1
  <2> QED BY <2>3, <2>4
<1>3. c # 0 /\ d # 0 /\ y # 0 BY <1>1, <1>2
<1>4. ac \in Numbers /\ Value(ac) = Saturated(Quotient(a, c)) BY <1>1, <1>3, DivideSaturates
<1>5. ad \in Numbers /\ Value(ad) = Saturated(Quotient(a, d)) BY <1>1, <1>3, DivideSaturates
<1>6. bc \in Numbers /\ Value(bc) = Saturated(Quotient(b, c)) BY <1>1, <1>3, DivideSaturates
<1>7. bd \in Numbers /\ Value(bd) = Saturated(Quotient(b, d)) BY <1>1, <1>3, DivideSaturates
<1>8. RangeDiv(r1, r2, t) = FromNumbers4(ac, ad, bc, bd) BY DEF RangeDiv
<1> HIDE DEF a, b, c, d, ac, ad, bc, bd
<1> DEFINE m == Quotient(x, y)
           p == Quotient(a, y)
           q == Quotient(b, y)
<1>9. /\ Between(m, p, q) /\ Between(p, Quotient(a, c), Quotient(a, d))
      /\ Between(q, Quotient(b, c), Quotient(b, d))
      /\ m \in Int /\ p \in Int /\ q \in Int
      /\ Quotient(a, c) \in Int /\ Quotient(a, d) \in Int
      /\ Quotient(b, c) \in Int /\ Quotient(b, d) \in Int
  BY <1>1, <1>2, QuotientBetween, ZenonT(60)
<1>10. Saturated(m) = m BY <1>1, <1>3, QuotientSmall
<1> HIDE DEF m, p, q
<1>11. /\ Between(m, Saturated(p), Saturated(q)) /\ Saturated(p) \in Int /\ Saturated(q) \in Int
       /\ Between(Saturated(p), Value(ac), Value(ad))
       /\ Between(Saturated(q), Value(bc), Value(bd))
  BY <1>4, <1>5, <1>6, <1>7, <1>9, <1>10, SaturatedBetween
<1>12. Covers(FromNumbers4(ac, ad, bc, bd), m)
  BY <1>4, <1>5, <1>6, <1>7, <1>9, <1>11, Corners
<1> QED BY <1>3, <1>8, <1>12 DEF m

LEMMA RemainderFacts ==
    ASSUME NEW x \in Int, NEW y \in Int, y # 0
    PROVE  LET n == Remainder(x, y)
           IN  /\ n \in Int
               /\ 0 <= x => 0 <= n /\ n <= x
               /\ x < 0 => x <= n /\ n <= 0
               /\ n < Abs(y) /\ -n < Abs(y)
<1> DEFINE v == Abs(x)
           w == Abs(y)
           k == v \div w
           s == v % w
           q == Quotient(x, y)
<1>1. v \in Nat /\ w \in Nat \ {0} /\ v = (IF x < 0 THEN -x ELSE x) /\ w = (IF y < 0 THEN -y ELSE y)
  BY DEF Abs
<1>2. q = IF (x < 0) = (y < 0) THEN k ELSE -k BY DEF Quotient
<1>3. Remainder(x, y) = x - y * q BY DEF Remainder
<1> HIDE DEF v, w, q
<1>4. v = w * k + s /\ k \in Nat /\ s \in 0 .. w - 1
  <2>1. v \in Int /\ w \in Nat \ {0} BY <1>1
  <2>2. v = w * k + s /\ s \in 0 .. w - 1 BY <2>1, DivMod, Zenon
  <2>3. k \in Nat BY <1>1, DivisionMonotone
  <2> QED BY <2>2, <2>3
<1> HIDE DEF k, s
<1>5. w * k \in Nat BY <1>1, <1>4
<1>6. y * q = IF x < 0 THEN -(w * k) ELSE w * k
  <2>1. y = w \/ y = -w BY <1>1
  <2>2. q = k \/ q = -k BY <1>2
  <2>3. w * (-k) = -(w * k) /\ (-w) * k = -(w * k) /\ (-w) * (-k) = w * k BY <1>1, <1>4
  <2>4. CASE x < 0 /\ y < 0
    <3>1. q = k /\ y = -w BY <1>1, <1>2, <2>4
    <3> QED BY <2>3, <2>4, <3>1
  <2>5. CASE x < 0 /\ ~(y < 0)
    <3>1. q = -k /\ y = w BY <1>1, <1>2, <2>5
    <3> QED BY <2>3, <2>5, <3>1
  <2>6. CASE ~(x < 0) /\ y < 0
    <3>1. q = -k /\ y = -w BY <1>1, <1>2, <2>6
    <3> QED BY <2>3, <2>6, <3>1
  <2>7. CASE ~(x < 0) /\ ~(y < 0)
    <3>1. q = k /\ y = w BY <1>1, <1>2, <2>7
    <3> QED BY <2>3, <2>7, <3>1
  <2> QED BY <2>4, <2>5, <2>6, <2>7
<1>7. Remainder(x, y) = IF x < 0 THEN -s ELSE s BY <1>1, <1>3, <1>4, <1>5, <1>6
<1>8. s <= v BY <1>1, <1>4, <1>5
<1> QED BY <1>1, <1>4, <1>7, <1>8 DEF w

(* absNeg turns every number of a range into a number at or below zero. *)
LEMMA AbsNegFacts ==
    ASSUME NEW r, NEW y \in Int, Covers(r, y)
    PROVE  LET a == AbsNeg(r).imin
           IN  a \in Numbers /\ Value(a) <= y /\ Value(a) <= -y
<1>1. /\ r.imin \in Numbers /\ r.imax \in Numbers
      /\ Value(r.imin) \in Int /\ Value(r.imax) \in Int
      /\ Value(r.imin) <= y /\ y <= Value(r.imax)
  BY BoundsOf
<1>2. /\ Value(r.imin) < 0 <=> r.imin.negative
      /\ Value(r.imax) < 0 <=> r.imax.negative
  BY <1>1, MagnitudeFacts
<1>3. ~r.imax.negative => /\ Negate(r.imax) \in Numbers
                          /\ Value(Negate(r.imax)) = 0 - Value(r.imax)
  BY <1>1, NegateNegates DEF IsMinimum
<1>4. CASE r.imax.negative
  <2>1. AbsNeg(r) = r BY <1>4 DEF AbsNeg
  <2> QED BY <1>1, <1>2, <1>4, <2>1
<1>5. CASE ~r.imax.negative /\ ~r.imin.negative
  <2>1. AbsNeg(r).imin = Negate(r.imax) BY <1>5 DEF AbsNeg, Range
  <2> QED BY <1>1, <1>2, <1>3, <1>5, <2>1
<1>6. CASE ~r.imax.negative /\ r.imin.negative
  <2> DEFINE a == Negate(r.imax)
             b == Lower(a, r.imin)
  <2>1. AbsNeg(r).imin = b BY <1>6 DEF AbsNeg, Range
  <2>2. a \in Numbers /\ Value(a) = 0 - Value(r.imax) BY <1>3, <1>6
  <2> HIDE DEF a
  <2>3. b \in Numbers /\ Value(b) <= Value(a) /\ Value(b) <= Value(r.imin) BY <1>1, <2>2, LowerHigher
  <2>4. Value(b) \in Int BY <2>3, NumberFacts
  <2> HIDE DEF b
  <2> QED BY <1>1, <2>1, <2>2, <2>3, <2>4
<1> QED BY <1>4, <1>5, <1>6

LEMMA IncrementIs ==
    ASSUME NEW a \in Numbers, a.negative
    PROVE  Increment(a) \in Numbers /\ Value(Increment(a)) = Value(a) + 1
<1> DEFINE i == Increment(a)
<1>1. /\ a.value \in Nat /\ a.value < Top /\ Value(a) = a.value - Top /\ Top \in Nat
  BY NumberFacts, WordAssumption
<1>2. CASE a.value # AllOnes
  <2>1. i = Number(a.value + 1, TRUE) BY <1>2, NumberFacts DEF Increment
  <2>2. a.value + 1 \in Words BY <1>1, <1>2 DEF Words, AllOnes
  <2>3. Number(a.value + 1, TRUE) \in Numbers /\ Value(Number(a.value + 1, TRUE)) = (a.value + 1) - Top
    BY <2>2 DEF Number, Numbers, Value
  <2> HIDE DEF i
  <2>4. i \in Numbers /\ Value(i) = (a.value + 1) - Top BY <2>1, <2>3, Zenon
  <2>5. (a.value + 1) - Top = Value(a) + 1 BY <1>1
  <2> QED BY <2>4, <2>5 DEF i
<1>3. CASE a.value = AllOnes
  <2>1. i = FromNat(0) BY <1>3 DEF Increment
  <2>2. 0 \in Words BY <1>1 DEF Words, AllOnes
  <2>3. Value(a) + 1 = 0 BY <1>1, <1>3 DEF AllOnes
  <2> HIDE DEF i
  <2>4. i \in Numbers /\ Value(i) = 0 BY <2>1, <2>2, NatFacts, Zenon
  <2> QED BY <2>3, <2>4 DEF i
<1> QED BY <1>2, <1>3

LEMMA ModCovers ==
    ASSUME NEW r1, NEW r2, NEW x \in Int, NEW y \in Int, Covers(r1, x), Covers(r2, y),
           y # 0, NEW t
    PROVE  Covers(RangeMod(r1, r2, t), Remainder(x, y))
<1> DEFINE e == AbsNeg(r2).imin
           den == Increment(e)
           n == Remainder(x, y)
           a == r1.imin
           b == r1.imax
           low == IF ~a.negative THEN FromNat(0) ELSE Higher(a, den)
           high == IF b.negative THEN FromNat(0) ELSE Lower(b, Negate(den))
<1>1. /\ a \in Numbers /\ b \in Numbers /\ Value(a) \in Int /\ Value(b) \in Int
      /\ Value(a) <= x /\ x <= Value(b) /\ Top \in Nat \ {0}
      /\ (Value(a) < 0 <=> a.negative) /\ (Value(b) < 0 <=> b.negative)
  BY BoundsOf, MagnitudeFacts
<1>2. e \in Numbers /\ Value(e) <= y /\ Value(e) <= -y BY AbsNegFacts
<1>3. Value(e) \in Int /\ -Top <= Value(e) /\ (Value(e) < 0 <=> e.negative)
  BY <1>2, NumberFacts, MagnitudeFacts
<1>4. /\ n \in Int
      /\ 0 <= x => 0 <= n /\ n <= x
      /\ x < 0 => x <= n /\ n <= 0
      /\ n < Abs(y) /\ -n < Abs(y)
  BY RemainderFacts
<1> HIDE DEF e, n
<1>5. Value(e) < 0 /\ Value(e) + 1 <= n /\ n <= -(Value(e) + 1) BY <1>2, <1>3, <1>4 DEF Abs
<1>6. e.negative BY <1>3, <1>5
<1>7. den \in Numbers /\ Value(den) = Value(e) + 1 BY <1>2, <1>6, IncrementIs
<1>8. RangeMod(r1, r2, t) = Range(low, high) BY <1>6 DEF RangeMod, e
<1> HIDE DEF den
<1>9. ~IsMinimum(den)
  <2>1. IsMinimum(den) => Value(den) = -Top BY <1>1 DEF IsMinimum, Value
  <2> QED BY <1>1, <1>3, <1>7, <2>1
<1>10. Negate(den) \in Numbers /\ Value(Negate(den)) = 0 - Value(den) BY <1>7, <1>9, NegateNegates
<1>11. FromNat(0) \in Numbers /\ Value(FromNat(0)) = 0
  <2>1. 0 \in Words BY <1>1 DEF Words, AllOnes
  <2> QED BY <2>1, NatFacts
<1>12. low \in Numbers /\ Value(low) <= n
  <2>1. CASE ~a.negative
    <3>1. low = FromNat(0) BY <2>1
    <3> QED BY <1>1, <1>4, <1>11, <2>1, <3>1
  <2>2. CASE a.negative
    <3>1. low = Higher(a, den) BY <2>2
    <3>2. Higher(a, den) \in {a, den} BY <1>1, <1>7, LowerHigher
    <3>3. Value(a) <= n /\ Value(den) <= n BY <1>1, <1>3, <1>4, <1>5, <1>7, <2>2
    <3> HIDE DEF low, a
    <3> QED BY <1>1, <1>7, <3>1, <3>2, <3>3
  <2> QED BY <2>1, <2>2
<1>13. high \in Numbers /\ n <= Value(high)
  <2>1. CASE b.negative
    <3>1. high = FromNat(0) BY <2>1
    <3> QED BY <1>1, <1>4, <1>11, <2>1, <3>1
  <2>2. CASE ~b.negative
    <3>1. high = Lower(b, Negate(den)) BY <2>2
    <3>2. Lower(b, Negate(den)) \in {b, Negate(den)} BY <1>1, <1>10, LowerHigher
    <3>3. n <= Value(b) /\ n <= Value(Negate(den)) BY <1>1, <1>3, <1>4, <1>5, <1>7, <1>10, <2>2
    <3> HIDE DEF high, b
    <3> QED BY <1>1, <1>10, <3>1, <3>2, <3>3
  <2> QED BY <2>1, <2>2
<1> HIDE DEF low, high
<1> QED BY <1>8, <1>12, <1>13, RangeCovers DEF n
-------------------------------------------------------------------------------
(* The shifts of numbers: to the left they saturate, to the right they are   *)
(* division towards minus infinity.                                          *)
LEMMA PowerMonotone ==
    ASSUME NEW m \in 0 .. Bits, NEW n \in 0 .. Bits, m <= n
    PROVE  2 ^ m <= 2 ^ n /\ 2 ^ m \in Nat \ {0} /\ 2 ^ n \in Nat \ {0}
<1> DEFINE k == n - m
           p == 2 ^ m
           q == 2 ^ k
<1>1. Bits \in Nat BY WordAssumption
<1>2. k \in Nat /\ m \in Nat /\ m + k = n /\ m + k <= Bits BY <1>1
<1> HIDE DEF k
<1>3. 2 ^ (m + k) = p * q /\ p \in Nat \ {0} /\ q \in Nat \ {0} BY <1>1, <1>2, PowerSum
<1>4. 2 ^ n = p * q BY <1>2, <1>3
<1> HIDE DEF p, q
<1>5. p * 1 <= p * q /\ p * q \in Nat \ {0}
  <2>1. p \in Int /\ 0 <= p /\ q \in Int /\ 1 <= q /\ 1 \in Int BY <1>3
  <2>2. p * 1 <= p * q BY <2>1, ProductMonotone, Zenon
  <2>3. p * q \in Nat /\ p * 1 = p BY <1>3
  <2> QED BY <1>3, <2>2, <2>3
<1>6. p * 1 = p BY <1>3
<1> QED BY <1>3, <1>4, <1>5, <1>6 DEF p

LEMMA BitsBelow == Bits \in Words
<1> DEFINE Bad == {n \in Nat : n <= Bits /\ ~(n < 2 ^ n)}
<1>1. Bits \in Nat BY WordAssumption
<1>2. ASSUME Bad # {} PROVE FALSE
  <2>1. PICK n \in Bad : \A m \in Bad : n <= m
    <3>1. Bad \in SUBSET Nat OBVIOUS
    <3> HIDE DEF Bad
    <3> QED BY <1>2, <3>1, LeastElement
  <2>2. n \in Nat /\ n <= Bits /\ ~(n < 2 ^ n) BY <2>1
  <2>3. CASE n = 0
    <3>1. 2 ^ 0 = 1 BY PowerSteps
    <3> QED BY <2>2, <2>3, <3>1
  <2>4. CASE n # 0
    <3> DEFINE k == n - 1
    <3>1. k \in Nat /\ k \in 0 .. Bits /\ k <= Bits /\ k + 1 = n /\ k < n BY <1>1, <2>2, <2>4
    <3> HIDE DEF k
    <3>2. 2 ^ k \in Nat \ {0} /\ 2 ^ (k + 1) = 2 * 2 ^ k BY <3>1, PowerSteps
    <3>3. k \notin Bad
      <4> HIDE DEF Bad
      <4> QED BY <2>1, <2>2, <3>1
    <3>4. k < 2 ^ k BY <3>1, <3>3
    <3>5. 2 ^ n = 2 * 2 ^ k BY <3>1, <3>2
    <3> QED BY <2>2, <3>1, <3>2, <3>4, <3>5
  <2> QED BY <2>3, <2>4
<1>3. Bits < Top BY <1>1, <1>2 DEF Top
<1> QED BY <1>1, <1>3, WordAssumption DEF Words, AllOnes

LEMMA HighestBit ==
    ASSUME NEW v \in 1 .. AllOnes
    PROVE  \E r \in 0 .. Bits - 1 : 2 ^ r <= v /\ v < 2 ^ (r + 1)
<1> DEFINE T == {n \in Nat : n <= Bits /\ v < 2 ^ n}
<1>1. Bits \in Nat \ {0} /\ Top \in Nat BY WordAssumption
<1>2. v \in Nat /\ 1 <= v /\ v < 2 ^ Bits BY <1>1 DEF AllOnes, Top
<1>3. Bits \in T BY <1>1, <1>2
<1>4. PICK n \in T : \A m \in T : n <= m
  <2>1. T \in SUBSET Nat OBVIOUS
  <2> HIDE DEF T
  <2> QED BY <1>3, <2>1, LeastElement
<1>5. n \in Nat /\ n <= Bits /\ v < 2 ^ n BY <1>4
<1>6. n # 0
  <2>1. ASSUME n = 0 PROVE 2 ^ n = 1 BY <2>1, PowerSteps
  <2> QED BY <1>2, <1>5, <2>1
<1> DEFINE r == n - 1
<1>7. r \in 0 .. Bits - 1 /\ r \in 0 .. Bits /\ r \in Nat /\ r < n /\ r <= Bits /\ r + 1 = n
  BY <1>1, <1>5, <1>6
<1>8. r \notin T
  <2> HIDE DEF T, r
  <2> QED BY <1>4, <1>5, <1>7
<1> HIDE DEF r
<1>9. ~(v < 2 ^ r) /\ 2 ^ r \in Nat BY <1>7, <1>8, PowerSteps
<1>10. 2 ^ r <= v /\ v < 2 ^ (r + 1) BY <1>2, <1>5, <1>7, <1>9
<1> QED BY <1>7, <1>10

(* A count of a shift, none above the width *)
LEMMA CountFacts ==
    ASSUME NEW n \in Numbers, ~n.negative
    PROVE  /\ n.value \in Nat /\ Value(n) = n.value /\ Bits \in Nat \ {0}
           /\ Min2(n.value, Bits) \in 0 .. Bits
           /\ Min2(n.value, Bits) = (IF n.value < Bits THEN n.value ELSE Bits)
           /\ 2 ^ Min2(n.value, Bits) \in Nat \ {0}
<1>1. n.value \in Nat /\ Value(n) = n.value BY NumberFacts
<1>2. Bits \in Nat \ {0} BY WordAssumption
<1>3. /\ Min2(n.value, Bits) \in 0 .. Bits
      /\ Min2(n.value, Bits) = (IF n.value < Bits THEN n.value ELSE Bits)
  BY <1>1, <1>2 DEF Min2
<1> QED BY <1>1, <1>2, <1>3, PowerSteps

LEMMA ShiftLeftSaturates ==
    ASSUME NEW a \in Numbers, NEW n \in Numbers, ~n.negative
    PROVE  /\ ShiftLeft(a, n) \in Numbers
           /\ Value(ShiftLeft(a, n)) = Saturated(Value(a) * 2 ^ Min2(n.value, Bits))
<1> DEFINE m == Min2(n.value, Bits)
           p == 2 ^ m
           v == CopySign(a.value, a.negative)
           h == CHOOSE r \in 0 .. Bits - 1 : 2 ^ r <= v /\ v < 2 ^ (r + 1)
           s == ShiftLeft(a, n)
<1>1. /\ n.value \in Nat /\ Bits \in Nat \ {0} /\ m \in 0 .. Bits /\ p \in Nat \ {0}
      /\ m = (IF n.value < Bits THEN n.value ELSE Bits)
  BY CountFacts
<1>2. Top \in Nat \ {0} /\ Top = 2 ^ Bits BY WordAssumption DEF Top
<1>3. /\ a.value \in Nat /\ a.value < Top /\ a.negative \in BOOLEAN
      /\ Value(a) = (IF a.negative THEN a.value - Top ELSE a.value)
      /\ Value(a) \in Int
  BY NumberFacts
<1>4. CASE a.value = 0
  <2>1. s = a BY <1>4 DEF ShiftLeft
  <2>2. Value(a) = 0 \/ Value(a) = -Top BY <1>2, <1>3, <1>4
  <2> HIDE DEF s, p
  <2>3. CASE Value(a) = 0
    <3>1. 0 * p = 0 /\ Saturated(0) = 0 BY <1>1, <1>2 DEF Saturated, AllOnes
    <3> QED BY <2>1, <2>3, <3>1 DEF s, p
  <2>4. CASE Value(a) = -Top
    <3>1. Top * 1 <= Top * p /\ Top * p \in Int
      <4>1. Top \in Int /\ 0 <= Top /\ 1 \in Int /\ p \in Int /\ 1 <= p BY <1>1, <1>2
      <4> QED BY <4>1, ProductMonotone, Zenon
    <3>2. (-Top) * p = -(Top * p) /\ Top * 1 = Top BY <1>1, <1>2
    <3> DEFINE z == Top * p
    <3>3. z \in Int /\ Top <= z BY <3>1, <3>2
    <3> HIDE DEF z
    <3>4. Saturated(-z) = -Top BY <1>2, <3>3 DEF Saturated, AllOnes
    <3> QED BY <2>1, <2>4, <3>2, <3>4 DEF s, p, z
  <2> QED BY <2>2, <2>3, <2>4
<1>5. CASE a.value # 0
  <2>1. v \in 1 .. AllOnes /\ Value(a) = IF a.negative THEN -v ELSE v BY <1>5, AbsoluteFacts
  <2>2. s = IF n.value > Bits - 1 - h THEN Extreme(a.negative)
            ELSE Number(Word(a.value * 2 ^ n.value), a.negative)
    BY <1>5 DEF ShiftLeft
  <2> HIDE DEF v, s
  <2>3. h \in 0 .. Bits - 1 /\ 2 ^ h <= v /\ v < 2 ^ (h + 1) BY <2>1, HighestBit
  <2> HIDE DEF h, m
  <2>4. v \in Nat /\ v < Top /\ 1 <= v BY <1>2, <2>1 DEF AllOnes
  <2> DEFINE z == v * p
  <2>5. z \in Nat /\ 0 < z
    <3>1. 1 \in Int /\ v \in Int /\ 1 <= v /\ p \in Int /\ 0 <= p BY <1>1, <2>4
    <3>2. 1 * p <= v * p BY <3>1, ProductMonotone, Zenon
    <3>3. v * p \in Int /\ 1 * p = p BY <1>1, <2>4
    <3> QED BY <1>1, <3>2, <3>3
  <2>6. Value(a) * p = IF a.negative THEN -z ELSE z
    <3>1. (-v) * p = -(v * p) BY <1>1, <2>4
    <3> QED BY <2>1, <3>1
  <2>7. CASE n.value > Bits - 1 - h
    <3> DEFINE k == Bits - h
    <3>1. k \in 0 .. Bits /\ k <= m /\ h \in 0 .. Bits BY <1>1, <2>3, <2>7
    <3>2. Top = 2 ^ h * 2 ^ k /\ 2 ^ h \in Nat /\ 2 ^ k \in Nat BY <3>1, PowerDivides
    <3> HIDE DEF k
    <3>3. 2 ^ k <= p BY <1>1, <3>1, PowerMonotone
    <3>4. Top <= z
      <4> DEFINE i == 2 ^ h
                 j == 2 ^ k
      <4>1. i \in Int /\ 0 <= i /\ j \in Int /\ 0 <= j /\ p \in Int /\ 0 <= p /\ v \in Int
            /\ i <= v /\ j <= p
        BY <1>1, <2>3, <2>4, <3>2, <3>3
      <4>2. Top = i * j BY <3>2
      <4> HIDE DEF i, j, p
      <4>3. i * j <= i * p /\ i * p <= v * p /\ i * p \in Int BY <4>1, ProductMonotone, Zenon
      <4>4. v * p \in Int /\ i * j \in Int BY <4>1
      <4> QED BY <4>2, <4>3, <4>4
    <3>5. s = Extreme(a.negative) BY <2>2, <2>7
    <3> HIDE DEF z, p
    <3>6. Saturated(z) = AllOnes /\ Saturated(-z) = -Top BY <1>2, <2>5, <3>4 DEF Saturated, AllOnes
    <3>7. CASE a.negative
      <4>1. s = Least BY <3>5, <3>7 DEF Extreme
      <4> QED BY <2>6, <3>6, <3>7, <4>1, ExtremeFacts DEF s, p, m
    <3>8. CASE ~a.negative
      <4>1. s = Greatest BY <3>5, <3>8 DEF Extreme
      <4> QED BY <2>6, <3>6, <3>8, <4>1, ExtremeFacts DEF s, p, m
    <3> QED BY <3>7, <3>8
  <2>8. CASE ~(n.value > Bits - 1 - h)
    <3> DEFINE k == h + 1
    <3>1. k \in Nat /\ k + m <= Bits /\ m \in Nat /\ m = n.value /\ k + m \in 0 .. Bits
      BY <1>1, <2>3, <2>8
    <3> HIDE DEF k
    <3>2. 2 ^ (k + m) = 2 ^ k * p /\ 2 ^ k \in Nat BY <3>1, PowerSum
    <3>3. 2 ^ (k + m) <= Top
      <4>1. Bits \in 0 .. Bits BY <1>1
      <4> QED BY <1>1, <1>2, <3>1, <4>1, PowerMonotone
    <3>4. z < Top
      <4> DEFINE i == 2 ^ k
      <4>1. v + 1 \in Int /\ v + 1 <= i /\ i \in Int /\ p \in Int /\ 0 <= p
        BY <1>1, <2>3, <2>4, <3>2 DEF k
      <4>2. i * p <= Top BY <3>2, <3>3
      <4> HIDE DEF i, p
      <4>3. (v + 1) * p <= i * p
        <5> DEFINE j == v + 1
        <5>1. j \in Int /\ j <= i BY <4>1
        <5> HIDE DEF j
        <5>2. j * p <= i * p BY <4>1, <5>1, ProductMonotone, Zenon
        <5> QED BY <5>2 DEF j
      <4>4. (v + 1) * p = v * p + p /\ v * p \in Int /\ i * p \in Int BY <2>4, <4>1
      <4> QED BY <1>1, <1>2, <4>1, <4>2, <4>3, <4>4 DEF p
    <3>5. s = Number(Word(a.value * p), a.negative) BY <2>2, <2>8, <3>1
    <3>6. a.value = IF a.negative THEN Top - v ELSE v BY <1>2, <1>3, <2>1, <2>4
    <3>7. Word(a.value * p) = IF a.negative THEN Top - z ELSE z
      <4>1. CASE ~a.negative
        <5>1. Word(z) = z
          <6> HIDE DEF z
          <6> QED BY <1>2, <2>5, <3>4, WordOf
        <5> QED BY <3>6, <4>1, <5>1
      <4>2. CASE a.negative
        <5>1. (Top - v) * p = Top * p - v * p BY <1>1, <1>2, <2>4
        <5>2. Top * p - v * p = -(v * p) + Top * p BY <1>1, <1>2, <2>4
        <5>3. a.value * p = -z + Top * p BY <3>6, <4>2, <5>1, <5>2
        <5>7. p \in Int BY <1>1
        <5> HIDE DEF z, p
        <5>8. -z \in Int BY <2>5
        <5>4. (-z + Top * p) % Top = (-z) % Top BY <1>2, <5>7, <5>8, ModMultiple
        <5>5. Word(-z) = Top - z BY <1>2, <2>5, <3>4, WordOf
        <5>6. Word(a.value * p) = Word(-z) BY <5>3, <5>4 DEF Word
        <5> QED BY <4>2, <5>5, <5>6
      <4> QED BY <4>1, <4>2
    <3> HIDE DEF z, p
    <3>8. Saturated(z) = z /\ Saturated(-z) = -z BY <1>2, <2>5, <3>4 DEF Saturated, AllOnes
    <3>9. CASE a.negative
      <4>1. s = Number(Top - z, TRUE) BY <3>5, <3>7, <3>9, <1>3
      <4>2. Top - z \in Words BY <1>2, <2>5, <3>4 DEF Words, AllOnes
      <4>3. s \in Numbers /\ Value(s) = (Top - z) - Top BY <4>1, <4>2 DEF Number, Numbers, Value
      <4>4. Value(s) = -z BY <1>2, <2>5, <4>3
      <4> QED BY <2>6, <3>8, <3>9, <4>3, <4>4 DEF s, p, m
    <3>10. CASE ~a.negative
      <4>1. s = FromNat(z) BY <3>5, <3>7, <3>10, <1>3 DEF FromNat
      <4>2. z \in Words BY <1>2, <2>5, <3>4 DEF Words, AllOnes
      <4>3. s \in Numbers /\ Value(s) = z BY <4>1, <4>2, NatFacts
      <4> QED BY <2>6, <3>8, <3>10, <4>3 DEF s, p, m
    <3> QED BY <3>9, <3>10
  <2> QED BY <2>7, <2>8
<1> QED BY <1>4, <1>5

LEMMA ShiftRightFloors ==
    ASSUME NEW a \in Numbers, NEW n \in Numbers, ~n.negative, n.value = Bits => Beyond = "zero"
    PROVE  /\ ShiftRight(a, n) \in Numbers
           /\ Value(ShiftRight(a, n)) = Value(a) \div 2 ^ Min2(n.value, Bits)
<1> DEFINE m == Min2(n.value, Bits)
           p == 2 ^ m
           s == ShiftRight(a, n)
           word == IF a.negative THEN AllOnes - a.value ELSE a.value
           shifted == IF n.value < Bits THEN word \div 2 ^ n.value
                      ELSE IF Beyond = "same" THEN word ELSE 0
           k == word \div p
           x == word % p
<1>1. /\ n.value \in Nat /\ Bits \in Nat \ {0} /\ m \in 0 .. Bits /\ p \in Nat \ {0}
      /\ m = (IF n.value < Bits THEN n.value ELSE Bits)
  BY CountFacts
<1>2. Top \in Nat \ {0} /\ Top = 2 ^ Bits BY WordAssumption DEF Top
<1>3. /\ a.value \in Nat /\ a.value < Top /\ a.negative \in BOOLEAN
      /\ Value(a) = (IF a.negative THEN a.value - Top ELSE a.value)
      /\ Value(a) \in Int
  BY NumberFacts
<1>4. s = CASE n.negative \/ n.value > Bits -> IF a.negative THEN Minus(1) ELSE FromNat(0)
            [] ~n.negative /\ n.value <= Bits /\ IsMinimum(a) ->
                 IF n.value = 0 THEN a ELSE Number(Word(-(2 ^ (Bits - n.value))), TRUE)
            [] OTHER -> Number(IF a.negative THEN AllOnes - shifted ELSE shifted, a.negative)
  BY DEF ShiftRight
<1>5. word \in Nat /\ word < Top /\ word = (IF a.negative THEN -1 - Value(a) ELSE Value(a))
  BY <1>2, <1>3 DEF AllOnes
<1>6. n.value < Bits => shifted = k BY <1>1
<1>7. n.value = Bits => shifted = 0 BY <1>1
<1> HIDE DEF s, word, shifted, m
<1>8. word = p * k + x /\ k \in Nat /\ x \in 0 .. p - 1 /\ k <= word
  <2>1. word \in Int BY <1>5
  <2>2. word = p * k + x /\ x \in 0 .. p - 1 BY <1>1, <2>1, DivMod, Zenon
  <2>3. k \in Nat BY <1>1, <1>5, DivisionMonotone
  <2> HIDE DEF k, x
  <2>4. 1 * k <= p * k
    <3>1. 1 \in Int /\ p \in Int /\ 1 <= p /\ k \in Int /\ 0 <= k BY <1>1, <2>3
    <3> HIDE DEF p
    <3> QED BY <3>1, ProductMonotone, Zenon
  <2>5. 1 * k = k /\ p * k \in Int BY <1>1, <2>3
  <2> QED BY <1>1, <2>2, <2>3, <2>4, <2>5
<1>9. n.value >= Bits => k = 0
  <2>1. ASSUME n.value >= Bits PROVE p = Top BY <1>1, <1>2, <2>1
  <2>2. ASSUME p = Top PROVE k = 0
    <3>1. word \in 0 .. Top - 1 BY <1>2, <1>5
    <3> QED BY <1>2, <2>2, <3>1, ModSmall
  <2> QED BY <2>1, <2>2
<1> HIDE DEF p, k, x
<1>10. Value(a) \div p = IF a.negative THEN -1 - k ELSE k
  <2>1. CASE ~a.negative
    <3>1. Value(a) = p * k + x BY <1>5, <1>8, <2>1
    <3>2. k \in Int BY <1>8
    <3>3. Value(a) \div p = k BY <1>1, <1>8, <3>1, <3>2, DivUnique
    <3> QED BY <2>1, <3>3
  <2>2. CASE a.negative
    <3> DEFINE j == -1 - k
               y == p - 1 - x
    <3>1. j \in Int /\ y \in 0 .. p - 1 BY <1>1, <1>8
    <3>2. p * j = -p - p * k /\ p * k \in Int
      <4>1. p * (-1 - k) = -p - p * k BY <1>1, <1>8
      <4> QED BY <1>1, <1>8, <4>1
    <3>3. Value(a) = -1 - word BY <1>3, <1>5, <2>2
    <3>4. Value(a) = p * j + y BY <1>1, <1>8, <3>2, <3>3
    <3> HIDE DEF j, y
    <3>5. Value(a) \div p = j BY <1>1, <3>1, <3>4, DivUnique
    <3> QED BY <2>2, <3>5 DEF j
  <2> QED BY <1>3, <2>1, <2>2
<1>11. /\ Minus(1) \in Numbers /\ Value(Minus(1)) = -1
       /\ FromNat(0) \in Numbers /\ Value(FromNat(0)) = 0
  <2>1. -1 \in Int /\ -Top <= -1 /\ -1 < 0 /\ 0 \in Words BY <1>2 DEF Words, AllOnes
  <2> QED BY <2>1, BelowZeroFacts, NatFacts DEF Minus
<1> SUFFICES s \in Numbers /\ Value(s) = IF a.negative THEN -1 - k ELSE k
  BY <1>10 DEF s, p, m
<1>12. CASE n.value > Bits
  <2>0. ~(n.value <= Bits) BY <1>1, <1>12
  <2>1. s = IF a.negative THEN Minus(1) ELSE FromNat(0) BY <1>4, <1>12, <2>0
  <2>2. k = 0 BY <1>1, <1>9, <1>12
  <2>3. CASE a.negative BY <1>11, <2>1, <2>2, <2>3
  <2>4. CASE ~a.negative BY <1>11, <2>1, <2>2, <2>4
  <2> QED BY <2>3, <2>4
<1>13. CASE n.value <= Bits /\ IsMinimum(a)
  <2>0. ~(n.value > Bits) BY <1>1, <1>13
  <2>1. s = IF n.value = 0 THEN a ELSE Number(Word(-(2 ^ (Bits - n.value))), TRUE)
    BY <1>4, <1>13, <2>0
  <2>2. a.negative /\ a.value = 0 /\ Value(a) = -Top BY <1>2, <1>3, <1>13 DEF IsMinimum
  <2>3. m = n.value BY <1>1, <1>13
  <2> DEFINE q == 2 ^ (Bits - n.value)
  <2>4. Top = p * q /\ q \in Nat \ {0} /\ q <= Top BY <1>1, <1>2, <2>3, PowerDivides DEF p
  <2>5. -1 - k = -q
    <3> HIDE DEF q
    <3>1. p * (-q) + 0 = -(p * q) /\ -q \in Int /\ 0 \in 0 .. p - 1 BY <1>1, <2>4
    <3>2. (p * (-q) + 0) \div p = -q BY <1>1, <3>1, DivUnique
    <3>3. Value(a) = p * (-q) + 0 BY <2>2, <2>4, <3>1
    <3> QED BY <1>10, <2>2, <3>2, <3>3
  <2>6. CASE n.value = 0
    <3>1. q = Top
      <4>1. Bits - n.value = Bits BY <1>1, <2>6
      <4> QED BY <1>2, <4>1
    <3> QED BY <2>1, <2>2, <2>5, <2>6, <3>1
  <2>7. CASE n.value # 0
    <3>1. s = Number(Word(-q), TRUE) BY <2>1, <2>7
    <3> HIDE DEF q
    <3>2. -q \in Int /\ -Top <= -q /\ -q < 0 BY <1>2, <2>4
    <3>3. s \in Numbers /\ Value(s) = -q BY <3>1, <3>2, BelowZeroFacts
    <3> QED BY <2>2, <2>5, <3>3
  <2> QED BY <2>6, <2>7
<1>14. CASE n.value <= Bits /\ ~IsMinimum(a)
  <2>0. ~(n.value > Bits) BY <1>1, <1>14
  <2>1. s = Number(IF a.negative THEN AllOnes - shifted ELSE shifted, a.negative)
    BY <1>4, <1>14, <2>0
  <2>2. shifted = k BY <1>1, <1>6, <1>7, <1>9, <1>14
  <2>3. k \in Words /\ AllOnes - k \in Words BY <1>2, <1>5, <1>8 DEF Words, AllOnes
  <2>4. CASE a.negative
    <3>1. s = Number(AllOnes - k, TRUE) BY <1>3, <2>1, <2>2, <2>4
    <3>2. s \in Numbers /\ Value(s) = (AllOnes - k) - Top BY <2>3, <3>1 DEF Number, Numbers, Value
    <3>3. (AllOnes - k) - Top = -1 - k BY <1>2, <1>8 DEF AllOnes
    <3> QED BY <2>4, <3>2, <3>3
  <2>5. CASE ~a.negative
    <3>1. s = FromNat(k) BY <1>3, <2>1, <2>2, <2>5 DEF FromNat
    <3> QED BY <2>3, <2>5, <3>1, NatFacts
  <2> QED BY <2>4, <2>5
<1> QED BY <1>1, <1>12, <1>13, <1>14

(* The ranges of the shifts.  Counts leaves the count that is shifted by.    *)
LEMMA CountsCovers ==
    ASSUME NEW r, NEW c \in 0 .. Bits, Covers(r, c)
    PROVE  /\ Covers(Counts(r), c)
           /\ ~Counts(r).imin.negative /\ ~Counts(r).imax.negative
           /\ Counts(r).imin.value \in Nat /\ Counts(r).imax.value \in Nat
           /\ Counts(r).imin.value <= c /\ c <= Counts(r).imax.value
<1>1. Bits \in Nat BY WordAssumption
<1> DEFINE n == Counts(r)
<1>2. Covers(n, c)
  <2>1. CASE r.imin.negative
    <3>1. n = Range(FromNat(0), FromNat(Bits)) BY <2>1 DEF Counts
    <3>2. 0 \in Words /\ Bits \in Words BY BitsBelow, WordAssumption DEF Words, AllOnes
    <3>3. /\ FromNat(0) \in Numbers /\ Value(FromNat(0)) = 0
          /\ FromNat(Bits) \in Numbers /\ Value(FromNat(Bits)) = Bits
      BY <3>2, NatFacts
    <3> QED BY <1>1, <3>1, <3>3, RangeCovers
  <2>2. CASE ~r.imin.negative
    <3>1. n = r BY <2>2 DEF Counts
    <3> QED BY <3>1
  <2> QED BY <2>1, <2>2
<1>3. ~n.imin.negative
  <2>1. CASE r.imin.negative
    <3>1. n.imin = FromNat(0) BY <2>1 DEF Counts, Range
    <3> QED BY <3>1 DEF FromNat, Number
  <2>2. CASE ~r.imin.negative
    <3>1. n = r BY <2>2 DEF Counts
    <3> QED BY <2>2, <3>1
  <2> QED BY <2>1, <2>2
<1> HIDE DEF n
<1>4. /\ n.imin \in Numbers /\ n.imax \in Numbers /\ Value(n.imin) \in Int /\ Value(n.imax) \in Int
      /\ Value(n.imin) <= c /\ c <= Value(n.imax)
  BY <1>1, <1>2, BoundsOf
<1>5. ~n.imax.negative BY <1>1, <1>4, MagnitudeFacts
<1>6. /\ n.imin.value \in Nat /\ Value(n.imin) = n.imin.value
      /\ n.imax.value \in Nat /\ Value(n.imax) = n.imax.value
  BY <1>3, <1>4, <1>5, NumberFacts
<1> QED BY <1>2, <1>3, <1>4, <1>5, <1>6 DEF n

LEMMA CountPowers ==
    ASSUME NEW r, NEW c \in 0 .. Bits, Covers(r, c)
    PROVE  LET n == Counts(r)
               low == 2 ^ Min2(n.imin.value, Bits)
               high == 2 ^ Min2(n.imax.value, Bits)
           IN  /\ n.imin \in Numbers /\ n.imax \in Numbers
               /\ ~n.imin.negative /\ ~n.imax.negative
               /\ Value(n.imin) = n.imin.value /\ Value(n.imax) = n.imax.value
               /\ low \in Nat \ {0} /\ 2 ^ c \in Nat \ {0} /\ high \in Nat \ {0}
               /\ low <= 2 ^ c /\ 2 ^ c <= high
<1> DEFINE n == Counts(r)
           i == Min2(n.imin.value, Bits)
           j == Min2(n.imax.value, Bits)
<1>1. /\ Covers(n, c) /\ ~n.imin.negative /\ ~n.imax.negative
      /\ n.imin.value \in Nat /\ n.imax.value \in Nat
      /\ n.imin.value <= c /\ c <= n.imax.value
  BY CountsCovers
<1> HIDE DEF n
<1>2. n.imin \in Numbers /\ n.imax \in Numbers BY <1>1 DEF Covers, IsRange
<1>3. Value(n.imin) = n.imin.value /\ Value(n.imax) = n.imax.value BY <1>1, <1>2, CountFacts
<1>4. i \in 0 .. Bits /\ j \in 0 .. Bits /\ i <= c /\ c <= j BY <1>1, WordAssumption DEF Min2
<1> HIDE DEF i, j
<1>5. 2 ^ i <= 2 ^ c /\ 2 ^ c <= 2 ^ j BY <1>4, PowerMonotone
<1>6. 2 ^ i \in Nat \ {0} /\ 2 ^ c \in Nat \ {0} /\ 2 ^ j \in Nat \ {0} BY <1>4, PowerMonotone
<1> QED BY <1>1, <1>2, <1>3, <1>5, <1>6 DEF n, i, j

LEMMA ShlCovers ==
    ASSUME NEW r1, NEW r2, NEW x \in Int, NEW c \in 0 .. Bits, Covers(r1, x), Covers(r2, c),
           \A a \in {r1.imin, r1.imax}, b \in {Counts(r2).imin, Counts(r2).imax} :
               Value(a) * 2 ^ Min2(Value(b), Bits) = Saturated(Value(a) * 2 ^ Min2(Value(b), Bits))
    PROVE  Covers(RangeShl(r1, r2), x * 2 ^ c)
<1> DEFINE n == Counts(r2)
           p == 2 ^ Min2(n.imin.value, Bits)
           q == 2 ^ Min2(n.imax.value, Bits)
           w == 2 ^ c
           a == r1.imin
           b == r1.imax
           low == ShiftLeft(a, IF a.negative THEN n.imax ELSE n.imin)
           high == ShiftLeft(b, IF b.negative THEN n.imin ELSE n.imax)
<1>1. /\ n.imin \in Numbers /\ n.imax \in Numbers
      /\ ~n.imin.negative /\ ~n.imax.negative
      /\ Value(n.imin) = n.imin.value /\ Value(n.imax) = n.imax.value
      /\ p \in Nat \ {0} /\ w \in Nat \ {0} /\ q \in Nat \ {0}
      /\ p <= w /\ w <= q
  BY CountPowers
<1>2. /\ a \in Numbers /\ b \in Numbers /\ Value(a) \in Int /\ Value(b) \in Int
      /\ Value(a) <= x /\ x <= Value(b)
      /\ (Value(a) < 0 <=> a.negative) /\ (Value(b) < 0 <=> b.negative)
  BY BoundsOf, MagnitudeFacts
<1>3. \A i \in {a, b} : /\ ShiftLeft(i, n.imin) \in Numbers
                        /\ Value(ShiftLeft(i, n.imin)) = Value(i) * p
                        /\ ShiftLeft(i, n.imax) \in Numbers
                        /\ Value(ShiftLeft(i, n.imax)) = Value(i) * q
  BY <1>1, <1>2, ShiftLeftSaturates, SMTT(40)
<1>4. RangeShl(r1, r2) = Range(low, high) BY DEF RangeShl
<1> HIDE DEF n, p, q, w, a, b
<1>5. low \in Numbers /\ Value(low) = (IF a.negative THEN Value(a) * q ELSE Value(a) * p)
  BY <1>3
<1>6. high \in Numbers /\ Value(high) = (IF b.negative THEN Value(b) * p ELSE Value(b) * q)
  BY <1>3
<1> HIDE DEF low, high
<1> DEFINE u == Value(a)
           v == Value(b)
<1>7. u \in Int /\ v \in Int /\ u <= x /\ x <= v BY <1>2
<1>8. p \in Int /\ q \in Int /\ w \in Int /\ 0 <= w BY <1>1
<1> HIDE DEF u, v
<1>9. u * w <= x * w /\ x * w <= v * w /\ u * w \in Int /\ x * w \in Int /\ v * w \in Int
  <2>1. u * w <= x * w /\ x * w <= v * w BY <1>7, <1>8, ProductMonotone, Zenon
  <2>2. u * w \in Int /\ x * w \in Int /\ v * w \in Int BY <1>7, <1>8
  <2> QED BY <2>1, <2>2
<1>10. ASSUME NEW i \in Int, NEW j \in Int, NEW k \in Int, j <= k
       PROVE  /\ 0 <= i => i * j <= i * k
              /\ i < 0 => i * k <= i * j
              /\ i * j \in Int /\ i * k \in Int
  <2>1. ASSUME 0 <= i PROVE i * j <= i * k BY <1>10, <2>1, ProductMonotone
  <2>2. ASSUME i < 0 PROVE i * k <= i * j
    <3> DEFINE l == -i
    <3>1. l \in Int /\ 0 <= l BY <2>2
    <3> HIDE DEF l
    <3>2. l * j <= l * k BY <1>10, <3>1, ProductMonotone, Zenon
    <3>3. (-i) * j = -(i * j) /\ (-i) * k = -(i * k) BY <1>10
    <3>4. i * j \in Int /\ i * k \in Int BY <1>10
    <3>5. -(i * j) <= -(i * k) BY <3>2, <3>3 DEF l
    <3> QED BY <3>4, <3>5
  <2>3. i * j \in Int /\ i * k \in Int BY <1>10
  <2> QED BY <2>1, <2>2, <2>3
<1>11. Value(low) <= x * w
  <2>1. CASE a.negative
    <3>1. u < 0 /\ Value(low) = u * q BY <1>2, <1>5, <2>1 DEF u
    <3>2. u * q <= u * w /\ u * q \in Int BY <1>1, <1>7, <1>8, <1>10, <3>1
    <3> QED BY <1>9, <3>1, <3>2
  <2>2. CASE ~a.negative
    <3>1. 0 <= u /\ Value(low) = u * p BY <1>2, <1>5, <2>2 DEF u
    <3>2. u * p <= u * w /\ u * p \in Int BY <1>1, <1>7, <1>8, <1>10, <3>1
    <3> QED BY <1>9, <3>1, <3>2
  <2> QED BY <2>1, <2>2
<1>12. x * w <= Value(high)
  <2>1. CASE b.negative
    <3>1. v < 0 /\ Value(high) = v * p BY <1>2, <1>6, <2>1 DEF v
    <3>2. v * w <= v * p /\ v * p \in Int BY <1>1, <1>7, <1>8, <1>10, <3>1
    <3> QED BY <1>9, <3>1, <3>2
  <2>2. CASE ~b.negative
    <3>1. 0 <= v /\ Value(high) = v * q BY <1>2, <1>6, <2>2 DEF v
    <3>2. v * w <= v * q /\ v * q \in Int BY <1>1, <1>7, <1>8, <1>10, <3>1
    <3> QED BY <1>9, <3>1, <3>2
  <2> QED BY <2>1, <2>2
<1> QED BY <1>4, <1>5, <1>6, <1>11, <1>12, RangeCovers DEF w

LEMMA FloorMonotone ==
    ASSUME NEW x \in Int, NEW z \in Int, NEW p \in Nat \ {0}, NEW q \in Nat \ {0}
    PROVE  /\ x \div p \in Int
           /\ x <= z => x \div p <= z \div p
           /\ p <= q /\ 0 <= x => x \div q <= x \div p
           /\ p <= q /\ x < 0 => x \div p <= x \div q
<1>1. ASSUME NEW i \in Int, NEW m \in Nat \ {0}
      PROVE  i \div m \in Int /\ m * (i \div m) <= i /\ i < m * (i \div m) + m
  <2>1. i = m * (i \div m) + (i % m) /\ i \div m \in Int /\ i % m \in 0 .. m - 1 BY <1>1, DivMod
  <2> DEFINE j == i \div m
  <2>2. m * j \in Int BY <1>1, <2>1
  <2> HIDE DEF j
  <2>3. m * j <= i /\ i < m * j + m BY <1>1, <2>1, <2>2 DEF j
  <2> QED BY <2>1, <2>3 DEF j
<1>2. ASSUME x <= z PROVE x \div p <= z \div p
  <2> DEFINE i == x \div p
             j == z \div p
             k == j + 1
  <2>1. i \in Int /\ j \in Int /\ p * i <= x /\ z < p * j + p BY <1>1
  <2> HIDE DEF i, j
  <2>2. k \in Int /\ p * k = p * j + p /\ p * k \in Int /\ p * i \in Int
    <3>1. p * (j + 1) = p * j + p BY <2>1
    <3> QED BY <2>1, <3>1
  <2>3. k <= i => p * k <= p * i
    <3> HIDE DEF k
    <3> QED BY <2>1, <2>2, ProductMonotone
  <2>4. ~(k <= i) BY <1>2, <2>1, <2>2, <2>3
  <2> HIDE DEF k
  <2>5. i <= j BY <2>1, <2>2, <2>4 DEF k
  <2> QED BY <2>5 DEF i, j
<1>3. ASSUME p <= q, 0 <= x PROVE x \div q <= x \div p
  <2>1. x \in Nat BY <1>3
  <2> QED BY <1>3, <2>1, DivisionMonotone
<1>4. ASSUME p <= q, x < 0 PROVE x \div p <= x \div q
  <2> DEFINE i == x \div p
             j == x \div q
             k == j + 1
             l == -i
  <2>1. i \in Int /\ j \in Int /\ p * i <= x /\ x < q * j + q BY <1>1
  <2> HIDE DEF i, j
  <2>2. k \in Int /\ q * k = q * j + q /\ q * k \in Int /\ p * i \in Int /\ q * i \in Int
    <3>1. q * (j + 1) = q * j + q BY <2>1
    <3> QED BY <2>1, <3>1
  <2>3. k <= i => q * k <= q * i
    <3> HIDE DEF k
    <3> QED BY <2>1, <2>2, ProductMonotone
  <2>4. i < 0
    <3>1. 0 <= i => p * 0 <= p * i BY <2>1, ProductMonotone
    <3>2. p * 0 = 0 OBVIOUS
    <3> QED BY <1>4, <2>1, <2>2, <3>1, <3>2
  <2>5. q * i <= p * i
    <3>1. l \in Int /\ 0 <= l BY <2>1, <2>4
    <3>2. p * l = -(p * i) /\ q * l = -(q * i) BY <2>1
    <3> HIDE DEF l
    <3>3. p * l <= q * l BY <1>4, <3>1, ProductMonotone
    <3> QED BY <2>2, <3>2, <3>3
  <2>6. ~(k <= i) BY <1>4, <2>1, <2>2, <2>3, <2>5
  <2> HIDE DEF k
  <2>7. i <= j BY <2>1, <2>2, <2>6 DEF k
  <2> QED BY <2>7 DEF i, j
<1> QED BY <1>1, <1>2, <1>3, <1>4

LEMMA FloorRises ==
    ASSUME NEW x \in Int, NEW z \in Int, NEW p \in Nat \ {0}, x <= z
    PROVE  x \div p <= z \div p /\ x \div p \in Int /\ z \div p \in Int
BY FloorMonotone

LEMMA ShrCovers ==
    ASSUME NEW r1, NEW r2, NEW x \in Int, NEW c \in 0 .. Bits, Covers(r1, x), Covers(r2, c),
           Counts(r2).imin.value = Bits \/ Counts(r2).imax.value = Bits => Beyond = "zero"
    PROVE  Covers(RangeShr(r1, r2), x \div 2 ^ c)
<1> DEFINE n == Counts(r2)
           p == 2 ^ Min2(n.imin.value, Bits)
           q == 2 ^ Min2(n.imax.value, Bits)
           w == 2 ^ c
           a == r1.imin
           b == r1.imax
           low == ShiftRight(a, IF a.negative THEN n.imin ELSE n.imax)
           high == ShiftRight(b, IF b.negative THEN n.imax ELSE n.imin)
<1>1. /\ n.imin \in Numbers /\ n.imax \in Numbers
      /\ ~n.imin.negative /\ ~n.imax.negative
      /\ p \in Nat \ {0} /\ w \in Nat \ {0} /\ q \in Nat \ {0}
      /\ p <= w /\ w <= q
  BY CountPowers
<1>2. /\ a \in Numbers /\ b \in Numbers /\ Value(a) \in Int /\ Value(b) \in Int
      /\ Value(a) <= x /\ x <= Value(b)
      /\ (Value(a) < 0 <=> a.negative) /\ (Value(b) < 0 <=> b.negative)
  BY BoundsOf, MagnitudeFacts
<1>3. \A i \in {a, b} : /\ ShiftRight(i, n.imin) \in Numbers
                        /\ Value(ShiftRight(i, n.imin)) = Value(i) \div p
                        /\ ShiftRight(i, n.imax) \in Numbers
                        /\ Value(ShiftRight(i, n.imax)) = Value(i) \div q
  BY <1>1, <1>2, ShiftRightFloors
<1>4. RangeShr(r1, r2) = Range(low, high) BY DEF RangeShr
<1> HIDE DEF n, p, q, w, a, b
<1>5. low \in Numbers /\ Value(low) = (IF a.negative THEN Value(a) \div p ELSE Value(a) \div q)
  BY <1>3
<1>6. high \in Numbers /\ Value(high) = (IF b.negative THEN Value(b) \div q ELSE Value(b) \div p)
  BY <1>3
<1> HIDE DEF low, high
<1> DEFINE u == Value(a)
           v == Value(b)
<1>7. u \in Int /\ v \in Int /\ u <= x /\ x <= v BY <1>2
<1> HIDE DEF u, v
<1>8. /\ u \div w <= x \div w /\ x \div w <= v \div w
      /\ u \div w \in Int /\ x \div w \in Int /\ v \div w \in Int
  BY <1>1, <1>7, FloorMonotone
<1>9. Value(low) <= x \div w
  <2>1. CASE a.negative
    <3>1. u < 0 /\ Value(low) = u \div p BY <1>2, <1>5, <2>1 DEF u
    <3>2. u \div p <= u \div w /\ u \div p \in Int BY <1>1, <1>7, <3>1, FloorMonotone
    <3> QED BY <1>8, <3>1, <3>2
  <2>2. CASE ~a.negative
    <3>1. 0 <= u /\ Value(low) = u \div q BY <1>2, <1>5, <2>2 DEF u
    <3>2. u \div q <= u \div w /\ u \div q \in Int BY <1>1, <1>7, <3>1, FloorMonotone
    <3> QED BY <1>8, <3>1, <3>2
  <2> QED BY <2>1, <2>2
<1>10. x \div w <= Value(high)
  <2>1. CASE b.negative
    <3>1. v < 0 /\ Value(high) = v \div q BY <1>2, <1>6, <2>1 DEF v
    <3>2. v \div w <= v \div q /\ v \div q \in Int BY <1>1, <1>7, <3>1, FloorMonotone
    <3> QED BY <1>8, <3>1, <3>2
  <2>2. CASE ~b.negative
    <3>1. 0 <= v /\ Value(high) = v \div p BY <1>2, <1>6, <2>2 DEF v
    <3>2. v \div w <= v \div p /\ v \div p \in Int BY <1>1, <1>7, <3>1, FloorMonotone
    <3> QED BY <1>8, <3>1, <3>2
  <2> QED BY <2>1, <2>2
<1> QED BY <1>4, <1>5, <1>6, <1>9, <1>10, RangeCovers DEF w

(* >>> shifts the bits of the number: the range that they are in is cast to  *)
(* the unsigned type first.                                                  *)
LEMMA UshrIsShr ==
    ASSUME NEW r1, NEW r2, NEW t, IsRange(CastRangeUnsigned(r1, t)),
           0 <= Value(CastRangeUnsigned(r1, t).imin), 0 <= Value(CastRangeUnsigned(r1, t).imax)
    PROVE  RangeUshr(r1, r2, t) = RangeShr(CastRangeUnsigned(r1, t), r2)
<1> DEFINE u == CastRangeUnsigned(r1, t)
           n == Counts(r2)
<1>1. RangeUshr(r1, r2, t) = Range(ShiftRight(u.imin, n.imax), ShiftRight(u.imax, n.imin))
  BY DEF RangeUshr
<1>2. RangeShr(u, r2) = Range(ShiftRight(u.imin, IF u.imin.negative THEN n.imin ELSE n.imax),
                              ShiftRight(u.imax, IF u.imax.negative THEN n.imax ELSE n.imin))
  BY DEF RangeShr
<1> HIDE DEF u, n
<1>3. u.imin \in Numbers /\ u.imax \in Numbers BY DEF IsRange, u
<1>4. Value(u.imin) \in Int /\ Value(u.imax) \in Int BY <1>3, NumberFacts
<1>5. 0 <= Value(u.imin) /\ 0 <= Value(u.imax) BY DEF u
<1>6. ~u.imin.negative /\ ~u.imax.negative BY <1>3, <1>4, <1>5, MagnitudeFacts
<1> QED BY <1>1, <1>2, <1>6 DEF u
-------------------------------------------------------------------------------
(* The ranges of ~ and -, the union of ranges                                *)
LEMMA ComCovers ==
    ASSUME NEW r, NEW x \in Int, Covers(r, x)
    PROVE  Covers(RangeCom(r), -x - 1)
<1> DEFINE Com(a) == Number(AllOnes - a.value, ~a.negative)
<1>1. /\ r.imin \in Numbers /\ r.imax \in Numbers
      /\ Value(r.imin) \in Int /\ Value(r.imax) \in Int
      /\ Value(r.imin) <= x /\ x <= Value(r.imax) /\ Top \in Nat \ {0}
  BY BoundsOf
<1>2. ASSUME NEW a \in Numbers PROVE Com(a) \in Numbers /\ Value(Com(a)) = -Value(a) - 1
  <2>1. /\ a.value \in Nat /\ a.value < Top /\ a.negative \in BOOLEAN
        /\ Value(a) = IF a.negative THEN a.value - Top ELSE a.value
    BY NumberFacts
  <2>2. AllOnes - a.value \in Words BY <1>1, <2>1 DEF Words, AllOnes
  <2>3. CASE a.negative
    <3>1. Com(a) = FromNat(AllOnes - a.value) BY <2>3 DEF FromNat
    <3>2. Com(a) \in Numbers /\ Value(Com(a)) = AllOnes - a.value BY <2>2, <3>1, NatFacts
    <3>3. AllOnes - a.value = -Value(a) - 1 BY <1>1, <2>1, <2>3 DEF AllOnes
    <3> QED BY <3>2, <3>3
  <2>4. CASE ~a.negative
    <3>1. Com(a) = Number(AllOnes - a.value, TRUE) BY <2>4
    <3> HIDE DEF Com
    <3>2. Com(a) \in Numbers /\ Value(Com(a)) = (AllOnes - a.value) - Top
      BY <2>2, <3>1 DEF Number, Numbers, Value
    <3>3. (AllOnes - a.value) - Top = -Value(a) - 1 BY <1>1, <2>1, <2>4 DEF AllOnes
    <3> QED BY <3>2, <3>3
  <2> QED BY <2>3, <2>4
<1>3. RangeCom(r) = Range(Com(r.imax), Com(r.imin)) BY DEF RangeCom
<1> HIDE DEF Com
<1>4. Value(Com(r.imax)) <= -x - 1 /\ -x - 1 <= Value(Com(r.imin)) BY <1>1, <1>2
<1> QED BY <1>1, <1>2, <1>3, <1>4, RangeCovers

LEMMA NegCovers ==
    ASSUME NEW r, NEW x \in Int, Covers(r, x), -Top < x
    PROVE  Covers(RangeNeg(r), -x)
<1>1. /\ r.imin \in Numbers /\ r.imax \in Numbers
      /\ Value(r.imin) \in Int /\ Value(r.imax) \in Int
      /\ Value(r.imin) <= x /\ x <= Value(r.imax) /\ Top \in Nat \ {0}
  BY BoundsOf
<1>2. IsMinimum(r.imax) => Value(r.imax) = -Top BY <1>1 DEF IsMinimum, Value
<1>3. Negate(r.imax) \in Numbers /\ Value(Negate(r.imax)) = 0 - Value(r.imax)
  BY <1>1, <1>2, NegateNegates
<1>4. Negate(r.imin) \in Numbers /\ -x <= Value(Negate(r.imin))
  <2>1. CASE IsMinimum(r.imin)
    <3>1. Negate(r.imin) = FromNat(AllOnes) BY <2>1 DEF IsMinimum, Negate
    <3>2. AllOnes \in Words /\ -x <= AllOnes BY <1>1 DEF Words, AllOnes
    <3> QED BY <3>1, <3>2, NatFacts
  <2>2. CASE ~IsMinimum(r.imin)
    <3>1. Negate(r.imin) \in Numbers /\ Value(Negate(r.imin)) = 0 - Value(r.imin)
      BY <1>1, <2>2, NegateNegates
    <3> QED BY <1>1, <3>1
  <2> QED BY <2>1, <2>2
<1>5. RangeNeg(r) = Range(Negate(r.imax), Negate(r.imin)) BY DEF RangeNeg
<1>6. Value(Negate(r.imax)) <= -x BY <1>1, <1>3
<1> QED BY <1>3, <1>4, <1>5, <1>6, RangeCovers

LEMMA UnionWithCovers ==
    ASSUME NEW r, NEW a, NEW n \in Int, IsRange(r), IsRange(a), Covers(r, n) \/ Covers(a, n)
    PROVE  Covers(UnionWith(r, a), n)
<1> DEFINE low == Lower(r.imin, a.imin)
           high == Higher(r.imax, a.imax)
<1>1. r.imin \in Numbers /\ r.imax \in Numbers /\ a.imin \in Numbers /\ a.imax \in Numbers
  BY DEF IsRange
<1>2. /\ low \in Numbers /\ Value(low) <= Value(r.imin) /\ Value(low) <= Value(a.imin)
      /\ high \in Numbers /\ Value(r.imax) <= Value(high) /\ Value(a.imax) <= Value(high)
  BY <1>1, LowerHigher
<1>3. UnionWith(r, a) = Range(low, high) BY DEF UnionWith
<1> HIDE DEF low, high
<1>4. /\ Value(low) \in Int /\ Value(high) \in Int
      /\ Value(r.imin) \in Int /\ Value(a.imin) \in Int
      /\ Value(r.imax) \in Int /\ Value(a.imax) \in Int
  BY <1>1, <1>2, NumberFacts
<1>5. Value(low) <= n /\ n <= Value(high) BY <1>2, <1>4 DEF Covers
<1> QED BY <1>2, <1>3, <1>5, RangeCovers

(* There is a least and a greatest among some numbers. *)
LEMMA ExtremesOf ==
    ASSUME NEW S \in SUBSET Numbers, S # {}
    PROVE  /\ \E a \in S : \A b \in S : LessEq(a, b)
           /\ \E a \in S : \A b \in S : LessEq(b, a)
<1> DEFINE up(a) == Value(a) + Top
           down(a) == AllOnes - Value(a)
<1>1. Top \in Nat \ {0} BY WordAssumption
<1>2. \A a \in S : a \in Numbers /\ Value(a) \in Int /\ up(a) \in Nat /\ down(a) \in Nat
  <2>1. \A a \in S : a \in Numbers /\ Value(a) \in Int /\ -Top <= Value(a) /\ Value(a) < Top
    BY NumberFacts
  <2> QED BY <1>1, <2>1 DEF AllOnes
<1>3. \E a \in S : \A b \in S : LessEq(a, b)
  <2> DEFINE T == {up(a) : a \in S}
  <2>1. T \in SUBSET Nat /\ T # {} BY <1>2
  <2>2. PICK n \in T : \A m \in T : n <= m
    <3> HIDE DEF T
    <3> QED BY <2>1, LeastElement
  <2>3. PICK a \in S : n = up(a) BY <2>2
  <2>4. ASSUME NEW b \in S PROVE LessEq(a, b)
    <3>1. up(a) <= up(b) BY <2>2, <2>3
    <3>2. Value(a) <= Value(b) BY <1>1, <1>2, <3>1
    <3> QED BY <1>2, <3>2, LessEqIs
  <2> QED BY <2>4
<1>4. \E a \in S : \A b \in S : LessEq(b, a)
  <2> DEFINE T == {down(a) : a \in S}
  <2>1. T \in SUBSET Nat /\ T # {} BY <1>2
  <2>2. PICK n \in T : \A m \in T : n <= m
    <3> HIDE DEF T
    <3> QED BY <2>1, LeastElement
  <2>3. PICK a \in S : n = down(a) BY <2>2
  <2>4. ASSUME NEW b \in S PROVE LessEq(b, a)
    <3>1. down(a) <= down(b) BY <2>2, <2>3
    <3>2. Value(b) <= Value(a) BY <1>1, <1>2, <3>1 DEF AllOnes
    <3> QED BY <1>2, <3>2, LessEqIs
  <2> QED BY <2>4
<1> QED BY <1>3, <1>4

LEMMA UnionOfCovers ==
    ASSUME NEW rs, \A r \in rs : IsRange(r), NEW n \in Int, NEW r \in rs, Covers(r, n)
    PROVE  Covers(UnionOf(rs), n)
<1> DEFINE mins == {s.imin : s \in rs}
           maxs == {s.imax : s \in rs}
           low == CHOOSE a \in mins : \A b \in mins : LessEq(a, b)
           high == CHOOSE a \in maxs : \A b \in maxs : LessEq(b, a)
<1>1. UnionOf(rs) = Range(low, high) BY DEF UnionOf
<1>2. r.imin \in mins /\ r.imax \in maxs OBVIOUS
<1>3. mins \in SUBSET Numbers /\ maxs \in SUBSET Numbers BY DEF IsRange
<1> HIDE DEF mins, maxs
<1>4. low \in mins /\ \A b \in mins : LessEq(low, b) BY <1>2, <1>3, ExtremesOf
<1>5. high \in maxs /\ \A b \in maxs : LessEq(b, high) BY <1>2, <1>3, ExtremesOf
<1> HIDE DEF low, high
<1>6. /\ low \in Numbers /\ high \in Numbers /\ r.imin \in Numbers /\ r.imax \in Numbers
  BY <1>2, <1>3, <1>4, <1>5
<1>7. Value(low) <= Value(r.imin) /\ Value(r.imax) <= Value(high)
  BY <1>2, <1>4, <1>5, <1>6, LessEqIs
<1>8. /\ Value(low) \in Int /\ Value(high) \in Int /\ Value(r.imin) \in Int /\ Value(r.imax) \in Int
  BY <1>6, NumberFacts
<1>9. Value(low) <= n /\ n <= Value(high) BY <1>7, <1>8 DEF Covers
<1> QED BY <1>1, <1>6, <1>9, RangeCovers
-------------------------------------------------------------------------------
(* Words cut in two at a bit: what IntRangeVisitor's masks do to the bounds  *)
LEMMA CutFacts ==
    ASSUME NEW a \in Words, NEW k \in 0 .. Bits
    PROVE  LET p == 2 ^ k
               q == 2 ^ (Bits - k)
           IN  /\ p \in Nat \ {0} /\ q \in Nat \ {0} /\ p <= Top /\ q <= Top /\ Top = p * q
               /\ a \in Nat /\ a < Top /\ Top \in Nat \ {0}
               /\ a = p * (a \div p) + (a % p) /\ a % p \in 0 .. p - 1
               /\ a \div p \in 0 .. q - 1 /\ a \div p \in Words /\ a % p \in Words
<1> DEFINE p == 2 ^ k
           q == 2 ^ (Bits - k)
           i == a \div p
           x == a % p
<1>1. p \in Nat \ {0} /\ q \in Nat \ {0} /\ p <= Top /\ q <= Top /\ Top = p * q /\ Top \in Nat \ {0}
  BY PowerDivides
<1>2. a \in Nat /\ a < Top /\ a \in Int BY <1>1 DEF Words, AllOnes
<1> HIDE DEF p, q
<1>3. a = p * i + x /\ x \in 0 .. p - 1 BY <1>1, <1>2, DivMod, Zenon
<1>4. i \in Nat BY <1>1, <1>2, DivisionMonotone
<1> HIDE DEF i, x
<1>5. i < q
  <2>1. ASSUME q <= i PROVE FALSE
    <3>1. p * q <= p * i /\ p * i \in Int BY <1>1, <1>4, <2>1, ProductMonotone
    <3> QED BY <1>1, <1>2, <1>3, <3>1
  <2> QED BY <1>1, <1>4, <2>1
<1>6. i \in 0 .. q - 1 /\ i \in Words /\ x \in Words
  BY <1>1, <1>2, <1>3, <1>4, <1>5 DEF Words, AllOnes
<1> QED BY <1>1, <1>2, <1>3, <1>6 DEF p, q, i, x

LEMMA LowWords ==
    ASSUME NEW k \in 0 .. Bits, NEW a \in 0 .. 2 ^ k - 1
    PROVE  /\ a \in Words /\ 2 ^ k - 1 \in Words /\ 2 ^ k \in Nat \ {0}
           /\ a % 2 ^ k = a /\ a \div 2 ^ k = 0
<1> DEFINE p == 2 ^ k
<1>1. p \in Nat \ {0} /\ p <= Top /\ Top \in Nat \ {0} BY PowerDivides
<1> HIDE DEF p
<1>2. a \in 0 .. p - 1 BY DEF p
<1>3. a \in Words /\ p - 1 \in Words BY <1>1, <1>2 DEF Words, AllOnes
<1>4. a % p = a /\ a \div p = 0 BY <1>1, <1>2, ModSmall
<1> QED BY <1>1, <1>3, <1>4 DEF p

(* The bits of b are those at ones of a and those at zeros of a. *)
LEMMA AndComplement ==
    ASSUME NEW k \in 0 .. Bits, NEW a \in 0 .. 2 ^ k - 1, NEW b \in 0 .. 2 ^ k - 1
    PROVE  WordAnd(2 ^ k - 1 - a, b) + WordAnd(a, b) = b
<1> DEFINE Holds(n) == \A c, d \in 0 .. 2 ^ n - 1 : WordAnd(2 ^ n - 1 - c, d) + WordAnd(c, d) = d
           Bad == {n \in 0 .. Bits : ~Holds(n)}
<1>1. Bits \in Nat BY WordAssumption
<1>2. ASSUME Bad # {} PROVE FALSE
  <2>1. PICK n \in Bad : \A m \in Bad : n <= m
    <3>1. Bad \in SUBSET Nat BY <1>1
    <3> HIDE DEF Bad
    <3> QED BY <1>2, <3>1, LeastElement
  <2>2. n \in 0 .. Bits /\ n \in Nat /\ ~Holds(n) BY <1>1, <2>1
  <2> DEFINE p == 2 ^ n
             r == 2 ^ (n - 1)
  <2>3. PICK c \in 0 .. p - 1, d \in 0 .. p - 1 : WordAnd(p - 1 - c, d) + WordAnd(c, d) # d
    BY <2>2
  <2>4. p \in Nat \ {0} BY <2>2, PowerSteps
  <2> DEFINE e == p - 1 - c
  <2>5. e \in 0 .. p - 1 BY <2>3, <2>4
  <2>6. c \in Words /\ d \in Words /\ e \in Words BY <2>2, <2>3, <2>5, LowWords
  <2>7. CASE n = 0
    <3>1. p = 1 BY <2>7, PowerSteps
    <3>2. c = 0 /\ d = 0 /\ e = 0 BY <2>3, <2>5, <3>1
    <3>3. WordAnd(0, 0) = 0 BY <2>6, <3>2, AndStep
    <3> HIDE DEF e
    <3> QED BY <2>3, <3>2, <3>3 DEF e
  <2>8. CASE n # 0
    <3> DEFINE m == n - 1
               c1 == c \div 2
               c0 == c % 2
               d1 == d \div 2
               d0 == d % 2
               e1 == e \div 2
               e0 == e % 2
    <3>1. m \in 0 .. Bits /\ m + 1 = n /\ m < n BY <1>1, <2>2, <2>8
    <3>2. Holds(m)
      <4>1. m \notin Bad
        <5> HIDE DEF Bad, m
        <5>1. ~(n <= m) BY <1>1, <2>2, <3>1
        <5> QED BY <2>1, <5>1
      <4> HIDE DEF m, Holds
      <4> QED BY <3>1, <4>1
    <3>3. p = 2 * r /\ r \in Nat \ {0}
      <4>1. 2 ^ (m + 1) = 2 * 2 ^ m /\ 2 ^ m \in Nat \ {0}
        <5> HIDE DEF m
        <5> QED BY <3>1, PowerSteps
      <4>2. 2 ^ (m + 1) = p
        <5> HIDE DEF m
        <5> QED BY <3>1
      <4> QED BY <4>1, <4>2
    <3>4. \A x, y \in 0 .. r - 1 : WordAnd(r - 1 - x, y) + WordAnd(x, y) = y BY <3>2
    <3> HIDE DEF p, r, m, Holds, Bad
    <3>5. c = 2 * c1 + c0 /\ c0 \in {0, 1} /\ c1 \in Words /\ c \in Nat BY <2>6, WordHalf
    <3>6. d = 2 * d1 + d0 /\ d0 \in {0, 1} /\ d1 \in Words /\ d \in Nat BY <2>6, WordHalf
    <3>7. e = 2 * e1 + e0 /\ e0 \in {0, 1} /\ e1 \in Words /\ e \in Nat BY <2>6, WordHalf
    <3>8. WordAnd(c, d) = 2 * WordAnd(c1, d1) + c0 * d0 BY <2>6, AndHalves
    <3>9. WordAnd(e, d) = 2 * WordAnd(e1, d1) + e0 * d0 BY <2>6, AndHalves
    <3>10. e = p - 1 - c OBVIOUS
    <3> HIDE DEF c1, c0, d1, d0, e1, e0, e
    <3>11. c1 \in Nat /\ d1 \in Nat /\ e1 \in Nat BY <3>5, <3>6, <3>7, WordAssumption DEF Words, AllOnes
    <3>12. e1 = r - 1 - c1 /\ e0 = 1 - c0 /\ c1 \in 0 .. r - 1 /\ d1 \in 0 .. r - 1
      BY <2>3, <3>3, <3>5, <3>6, <3>7, <3>10, <3>11
    <3>13. WordAnd(e1, d1) + WordAnd(c1, d1) = d1 BY <3>4, <3>12
    <3>14. WordAnd(e1, d1) \in Int /\ WordAnd(c1, d1) \in Int
      <4>1. WordAnd(e1, d1) \in Words /\ WordAnd(c1, d1) \in Words BY <3>5, <3>6, <3>7, AndBounds
      <4> QED BY <4>1, WordAssumption DEF Words, AllOnes
    <3>15. e0 * d0 + c0 * d0 = d0 BY <3>5, <3>6, <3>12
    <3>16. c0 * d0 \in Int /\ e0 * d0 \in Int BY <3>5, <3>6, <3>7
    <3>17. WordAnd(e, d) + WordAnd(c, d) = d
      BY <3>6, <3>8, <3>9, <3>11, <3>13, <3>14, <3>15, <3>16
    <3> QED BY <2>3, <3>10, <3>17
  <2> QED BY <2>7, <2>8
<1>3. Holds(k)
  <2> HIDE DEF Holds
  <2> QED BY <1>2
<1> QED BY <1>3

LEMMA AndOnes ==
    ASSUME NEW k \in 0 .. Bits, NEW a \in 0 .. 2 ^ k - 1
    PROVE  WordAnd(a, 2 ^ k - 1) = a
<1> DEFINE p == 2 ^ k
<1>1. p \in Nat \ {0} /\ a \in Words /\ p - 1 \in Words BY LowWords
<1>2. 0 \in 0 .. p - 1 BY <1>1
<1>3. WordAnd(p - 1 - 0, a) + WordAnd(0, a) = a BY <1>2, AndComplement
<1> HIDE DEF p
<1>4. p - 1 - 0 = p - 1 BY <1>1
<1>5. 0 \in Words BY WordAssumption DEF Words, AllOnes
<1>6. WordAnd(0, a) = 0 BY <1>1, <1>5, AndStep
<1>7. WordAnd(p - 1, a) \in Words BY <1>1, AndBounds
<1>8. WordAnd(p - 1, a) = a
  <2>1. WordAnd(p - 1, a) \in Int BY <1>7, WordAssumption DEF Words, AllOnes
  <2>2. WordAnd(p - 1, a) + 0 = a BY <1>3, <1>4, <1>6
  <2> QED BY <2>1, <2>2
<1>9. WordAnd(a, p - 1) = WordAnd(p - 1, a) BY <1>1, AndCommutes
<1> QED BY <1>8, <1>9 DEF p

LEMMA OrXorBelow ==
    ASSUME NEW k \in 0 .. Bits, NEW a \in 0 .. 2 ^ k - 1, NEW b \in 0 .. 2 ^ k - 1
    PROVE  /\ WordAnd(a, b) \in Nat /\ WordAnd(a, b) <= a /\ WordAnd(a, b) <= b
           /\ WordOr(a, b) \in 0 .. 2 ^ k - 1 /\ WordXor(a, b) \in 0 .. 2 ^ k - 1
           /\ WordOr(a, b) = a + b - WordAnd(a, b)
           /\ WordXor(a, b) = a + b - 2 * WordAnd(a, b)
<1> DEFINE p == 2 ^ k
           c == p - 1 - a
<1>1. p \in Nat \ {0} /\ a \in Words /\ b \in Words BY LowWords
<1>2. c \in 0 .. p - 1 BY <1>1
<1>3. c \in Words BY <1>2, LowWords
<1>4. WordAnd(c, b) + WordAnd(a, b) = b BY AndComplement
<1> HIDE DEF p, c
<1>5. /\ WordAnd(a, b) \in Words /\ WordAnd(a, b) <= a /\ WordAnd(a, b) <= b
      /\ WordAnd(c, b) \in Words /\ WordAnd(c, b) <= c
  BY <1>1, <1>3, AndBounds
<1>6. WordAnd(a, b) \in Nat /\ WordAnd(c, b) \in Nat BY <1>5, WordAssumption DEF Words, AllOnes
<1>7. a \in 0 .. p - 1 /\ b \in 0 .. p - 1 /\ c = p - 1 - a BY DEF p, c
<1>8. a + b - WordAnd(a, b) \in 0 .. p - 1 /\ a + b - 2 * WordAnd(a, b) \in 0 .. p - 1
  BY <1>1, <1>4, <1>5, <1>6, <1>7
<1> QED BY <1>5, <1>6, <1>8 DEF p, WordOr, WordXor

LEMMA OrXorFacts ==
    ASSUME NEW a \in Words, NEW b \in Words
    PROVE  /\ WordAnd(a, b) \in Words /\ WordOr(a, b) \in Words /\ WordXor(a, b) \in Words
           /\ WordAnd(a, b) <= a /\ WordAnd(a, b) <= b
           /\ a <= WordOr(a, b) /\ b <= WordOr(a, b)
           /\ a \in Nat /\ b \in Nat /\ WordAnd(a, b) \in Nat
           /\ WordOr(a, b) \in Nat /\ WordXor(a, b) \in Nat
<1>1. Bits \in 0 .. Bits /\ 2 ^ Bits = Top /\ Top \in Nat \ {0} BY WordAssumption DEF Top
<1>2. Words = 0 .. 2 ^ Bits - 1 BY <1>1 DEF Words, AllOnes
<1>3. /\ WordAnd(a, b) \in Nat /\ WordAnd(a, b) <= a /\ WordAnd(a, b) <= b
      /\ WordOr(a, b) \in Words /\ WordXor(a, b) \in Words
      /\ WordOr(a, b) = a + b - WordAnd(a, b)
  BY <1>1, <1>2, OrXorBelow
<1>4. WordAnd(a, b) \in Words BY AndBounds
<1>5. \A c \in Words : c \in Nat BY <1>1 DEF Words, AllOnes
<1>6. a <= WordOr(a, b) /\ b <= WordOr(a, b) BY <1>3, <1>5
<1> QED BY <1>3, <1>4, <1>5, <1>6

LEMMA BitwiseSplit ==
    ASSUME NEW a \in Words, NEW b \in Words, NEW k \in 0 .. Bits
    PROVE  LET p == 2 ^ k
           IN  /\ WordAnd(a, b) = p * WordAnd(a \div p, b \div p) + WordAnd(a % p, b % p)
               /\ WordOr(a, b) = p * WordOr(a \div p, b \div p) + WordOr(a % p, b % p)
               /\ WordXor(a, b) = p * WordXor(a \div p, b \div p) + WordXor(a % p, b % p)
               /\ WordOr(a, b) \div p = WordOr(a \div p, b \div p)
               /\ WordXor(a, b) \div p = WordXor(a \div p, b \div p)
<1> DEFINE p == 2 ^ k
           i == a \div p
           x == a % p
           j == b \div p
           y == b % p
<1>1. /\ p \in Nat \ {0} /\ a = p * i + x /\ x \in 0 .. p - 1 /\ i \in Words
      /\ b = p * j + y /\ y \in 0 .. p - 1 /\ j \in Words
  BY CutFacts
<1>2. WordAnd(a, b) = p * WordAnd(i, j) + WordAnd(x, y) BY AndSplit
<1>3. /\ WordOr(x, y) \in 0 .. p - 1 /\ WordXor(x, y) \in 0 .. p - 1
      /\ WordOr(x, y) = x + y - WordAnd(x, y) /\ WordXor(x, y) = x + y - 2 * WordAnd(x, y)
      /\ WordAnd(x, y) \in Nat
  BY <1>1, OrXorBelow
<1>4. /\ WordOr(i, j) = i + j - WordAnd(i, j) /\ WordXor(i, j) = i + j - 2 * WordAnd(i, j)
      /\ WordOr(a, b) = a + b - WordAnd(a, b) /\ WordXor(a, b) = a + b - 2 * WordAnd(a, b)
  BY DEF WordOr, WordXor
<1>5. i \in Nat /\ j \in Nat /\ WordAnd(i, j) \in Nat BY <1>1, OrXorFacts
<1> HIDE DEF p, i, x, j, y
<1> DEFINE n == WordAnd(i, j)
           m == WordAnd(x, y)
<1>6. n \in Int /\ m \in Int /\ WordOr(i, j) = i + j - n /\ WordXor(i, j) = i + j - 2 * n
      /\ WordOr(x, y) = x + y - m /\ WordXor(x, y) = x + y - 2 * m
      /\ WordAnd(a, b) = p * n + m
  BY <1>2, <1>3, <1>4, <1>5
<1> HIDE DEF n, m
<1>7. /\ p * (i + j - n) = p * i + p * j - p * n
      /\ p * (i + j - 2 * n) = p * i + p * j - 2 * (p * n)
      /\ p * i \in Int /\ p * j \in Int /\ p * n \in Int
  BY <1>1, <1>5, <1>6
<1>8. WordOr(a, b) = p * WordOr(i, j) + WordOr(x, y) BY <1>1, <1>4, <1>6, <1>7
<1>9. WordXor(a, b) = p * WordXor(i, j) + WordXor(x, y) BY <1>1, <1>4, <1>6, <1>7
<1>10. WordOr(a, b) \div p = WordOr(i, j)
  <2>1. WordOr(i, j) \in Int BY <1>5, <1>6
  <2>2. (p * WordOr(i, j) + WordOr(x, y)) \div p = WordOr(i, j) BY <1>1, <1>3, <2>1, DivUnique
  <2> QED BY <1>8, <2>2
<1>11. WordXor(a, b) \div p = WordXor(i, j)
  <2>1. WordXor(i, j) \in Int BY <1>5, <1>6
  <2>2. (p * WordXor(i, j) + WordXor(x, y)) \div p = WordXor(i, j) BY <1>1, <1>3, <2>1, DivUnique
  <2> QED BY <1>9, <2>2
<1> QED BY <1>2, <1>8, <1>9, <1>10, <1>11 DEF p, i, j, x, y

(* A word with its low bits set, and with them cleared *)
LEMMA RaisedIs ==
    ASSUME NEW a \in Words, NEW k \in 0 .. Bits
    PROVE  /\ WordOr(a, 2 ^ k - 1) = 2 ^ k * (a \div 2 ^ k) + 2 ^ k - 1
           /\ WordOr(a, 2 ^ k - 1) \in Words
           /\ WordOr(a, 2 ^ k - 1) \div 2 ^ k = a \div 2 ^ k
           /\ WordOr(a, 2 ^ k - 1) % 2 ^ k = 2 ^ k - 1
<1> DEFINE p == 2 ^ k
           m == p - 1
           i == a \div p
           x == a % p
<1>1. /\ p \in Nat \ {0} /\ a = p * i + x /\ x \in 0 .. p - 1 /\ i \in Words /\ x \in Words
  BY CutFacts
<1>2. m \in 0 .. p - 1 BY <1>1
<1>3. m \in Words /\ m % p = m /\ m \div p = 0 BY <1>2, LowWords
<1>4. WordOr(a, m) \in Words BY <1>3, OrXorFacts
<1>5. /\ WordOr(a, m) = p * WordOr(i, m \div p) + WordOr(x, m % p)
      /\ WordOr(a, m) \div p = WordOr(i, m \div p)
  BY <1>3, BitwiseSplit
<1>6. WordAnd(x, m) = x BY <1>1, AndOnes
<1> HIDE DEF p, m, i, x
<1>7. 0 \in Words BY WordAssumption DEF Words, AllOnes
<1>8. WordOr(i, 0) = i
  <2>1. WordAnd(i, 0) <= 0 /\ WordAnd(i, 0) \in Nat /\ i \in Nat BY <1>1, <1>7, OrXorFacts
  <2>2. WordAnd(i, 0) = 0 BY <2>1
  <2> QED BY <2>1, <2>2 DEF WordOr
<1>9. WordOr(x, m) = m BY <1>1, <1>2, <1>6 DEF WordOr
<1>10. WordOr(a, m) = p * i + m /\ WordOr(a, m) \div p = i BY <1>3, <1>5, <1>8, <1>9
<1>11. WordOr(a, m) % p = m
  <2>1. i \in Int BY <1>1, OrXorFacts
  <2>2. (p * i + m) % p = m BY <1>1, <1>2, <2>1, DivUnique
  <2> QED BY <1>10, <2>2
<1>12. p * i + m = p * i + p - 1
  <2>1. p * i \in Int /\ m = p - 1 BY <1>1, OrXorFacts DEF m
  <2> QED BY <1>1, <2>1
<1> QED BY <1>4, <1>10, <1>11, <1>12 DEF p, m, i

LEMMA FixedIs ==
    ASSUME NEW a \in Words, NEW k \in 0 .. Bits
    PROVE  LET f == Fixed(a, 2 ^ k - 1)
           IN  /\ f = 2 ^ k * (a \div 2 ^ k) /\ f \in Words
               /\ f \div 2 ^ k = a \div 2 ^ k /\ f % 2 ^ k = 0
<1> DEFINE p == 2 ^ k
           q == 2 ^ (Bits - k)
           i == a \div p
           x == a % p
           h == Top - p
           f == Fixed(a, p - 1)
<1>1. /\ p \in Nat \ {0} /\ q \in Nat \ {0} /\ p <= Top /\ Top = p * q /\ Top \in Nat \ {0}
      /\ a = p * i + x /\ x \in 0 .. p - 1 /\ i \in 0 .. q - 1 /\ i \in Words /\ x \in Words
  BY CutFacts
<1>2. f = WordAnd(a, AllOnes - (p - 1)) BY DEF Fixed
<1>3. i \in 0 .. 2 ^ (Bits - k) - 1 /\ Bits - k \in 0 .. Bits BY <1>1, WordAssumption
<1>4. WordAnd(i, q - 1) = i BY <1>3, AndOnes
<1> HIDE DEF p, q, i, x, f
<1>5. AllOnes - (p - 1) = h BY <1>1 DEF AllOnes
<1>6. h = p * (q - 1) + 0 /\ q - 1 \in Int /\ 0 \in 0 .. p - 1
  <2>1. p * (q - 1) = p * q - p /\ p * q \in Int BY <1>1
  <2> QED BY <1>1, <2>1
<1>7. h \div p = q - 1 /\ h % p = 0
  <2> DEFINE r == q - 1
  <2>1. h = p * r + 0 /\ r \in Int BY <1>6
  <2> HIDE DEF r, h
  <2>2. (p * r + 0) \div p = r /\ (p * r + 0) % p = 0 BY <1>1, <1>6, <2>1, DivUnique
  <2> QED BY <2>1, <2>2 DEF r
<1>8. h \in Words BY <1>1 DEF Words, AllOnes
<1>9. WordAnd(a, h) = p * WordAnd(i, h \div p) + WordAnd(x, h % p)
  BY <1>8, BitwiseSplit DEF p, i, x
<1> HIDE DEF h
<1>10. WordAnd(x, 0) = 0
  <2>1. 0 \in Words BY <1>1 DEF Words, AllOnes
  <2>2. WordAnd(x, 0) <= 0 /\ WordAnd(x, 0) \in Nat BY <1>1, <2>1, OrXorFacts
  <2> QED BY <2>2
<1>11. f = p * i
  <2>1. WordAnd(a, h) = p * i + 0 BY <1>4, <1>7, <1>9, <1>10
  <2>2. p * i \in Int BY <1>1
  <2> QED BY <1>2, <1>5, <2>1, <2>2
<1>12. f \in Words BY <1>2, <1>5, <1>8, OrXorFacts
<1>13. f \div p = i /\ f % p = 0
  <2>1. i \in Int BY <1>1
  <2>2. (p * i + 0) \div p = i /\ (p * i + 0) % p = 0 BY <1>1, <1>6, <2>1, DivUnique
  <2>3. p * i + 0 = f BY <1>1, <1>11, <2>1
  <2> QED BY <2>2, <2>3
<1> QED BY <1>11, <1>12, <1>13 DEF p, i, f

(* A mask is all ones up to a bit; DiffMask reaches the highest one that     *)
(* differs, so that all words between two have the same bits above it.       *)
LEMMA GetMaskIs ==
    ASSUME NEW v \in Words
    PROVE  \E k \in 0 .. Bits : GetMask(v) = 2 ^ k - 1 /\ v <= 2 ^ k - 1
<1> DEFINE S == {2 ^ n - 1 : n \in 0 .. Bits}
           T == {n \in 0 .. Bits : v < 2 ^ n}
           g == GetMask(v)
<1>1. Bits \in Nat \ {0} /\ v \in Nat /\ v < 2 ^ Bits /\ Bits \in 0 .. Bits
  BY WordAssumption DEF Words, AllOnes, Top
<1>2. PICK n \in T : \A m \in T : n <= m
  <2>1. T \in SUBSET Nat /\ T # {} BY <1>1
  <2> HIDE DEF T
  <2> QED BY <2>1, LeastElement
<1>3. n \in 0 .. Bits /\ v < 2 ^ n BY <1>2
<1>4. 2 ^ n \in Nat \ {0} BY <1>3, PowerSteps
<1>5. 2 * v >= 2 ^ n - 1
  <2>1. CASE n = 0
    <3>1. 2 ^ n = 1 BY <2>1, PowerSteps
    <3> QED BY <1>1, <3>1
  <2>2. CASE n # 0
    <3> DEFINE m == n - 1
    <3>1. m \in 0 .. Bits /\ m + 1 = n /\ m < n BY <1>1, <1>3, <2>2
    <3>2. m \notin T
      <4> HIDE DEF T, m
      <4>1. ~(n <= m) BY <1>1, <1>3, <3>1
      <4> QED BY <1>2, <4>1
    <3> HIDE DEF m
    <3>3. ~(v < 2 ^ m) /\ 2 ^ m \in Nat /\ 2 ^ (m + 1) = 2 * 2 ^ m BY <3>1, <3>2, PowerSteps
    <3>4. 2 ^ n = 2 * 2 ^ m BY <3>1, <3>3
    <3> QED BY <1>1, <3>3, <3>4
  <2> QED BY <2>1, <2>2
<1> DEFINE z == 2 ^ n - 1
<1>6. z \in S /\ v <= z /\ 2 * v >= z BY <1>1, <1>3, <1>4, <1>5
<1>7. g = CHOOSE m \in S : v <= m /\ 2 * v >= m BY DEF GetMask
<1> HIDE DEF S, z
<1>8. g \in S /\ v <= g BY <1>6, <1>7
<1> QED BY <1>8 DEF S, g

LEMMA SameAbove ==
    ASSUME NEW a \in Words, NEW b \in Words, NEW u \in Words, a <= u, u <= b,
           NEW k \in 0 .. Bits, WordXor(a, b) <= 2 ^ k - 1
    PROVE  u \div 2 ^ k = a \div 2 ^ k /\ b \div 2 ^ k = a \div 2 ^ k
<1> DEFINE p == 2 ^ k
           i == a \div p
           j == b \div p
           x == a % p
           y == b % p
           h == u \div p
<1>1. /\ p \in Nat \ {0} /\ a \in Nat /\ b \in Nat /\ u \in Nat
      /\ i \in Words /\ j \in Words /\ x \in 0 .. p - 1 /\ y \in 0 .. p - 1
  BY CutFacts
<1>2. WordXor(a, b) = p * WordXor(i, j) + WordXor(x, y) BY BitwiseSplit
<1>3. WordXor(x, y) \in 0 .. p - 1 BY <1>1, OrXorBelow
<1>4. i <= h /\ h <= j /\ h \in Int
  <2>1. a \in Int /\ u \in Int /\ b \in Int BY <1>1
  <2> HIDE DEF p
  <2> QED BY <1>1, <2>1, FloorRises
<1>5. WordXor(a, b) <= p - 1 OBVIOUS
<1> HIDE DEF p, i, j, x, y, h
<1> DEFINE w == WordXor(i, j)
           n == WordAnd(i, j)
<1>6. w \in Nat /\ n \in Nat /\ n <= i /\ n <= j /\ i \in Nat /\ j \in Nat BY <1>1, OrXorFacts
<1>7. w = i + j - 2 * n BY DEF WordXor
<1> HIDE DEF w, n
<1>8. w = 0
  <2>1. ASSUME 1 <= w PROVE FALSE
    <3>1. 1 \in Int /\ w \in Int /\ p \in Int /\ 0 <= p BY <1>1, <1>6
    <3>2. p * 1 <= p * w BY <2>1, <3>1, ProductMonotone, Zenon
    <3>3. p * 1 = p /\ p * w \in Int BY <1>1, <1>6
    <3>4. p * w + WordXor(x, y) <= p - 1 BY <1>2, <1>5 DEF w
    <3> QED BY <1>1, <1>3, <3>2, <3>3, <3>4
  <2> QED BY <1>6, <2>1
<1>9. i = j BY <1>6, <1>7, <1>8
<1>10. h = i BY <1>4, <1>6, <1>9
<1> QED BY <1>9, <1>10 DEF i, j, h, p

(* & and | grow with the low bits of an operand. *)
LEMMA LowBits ==
    ASSUME NEW u \in Words, NEW v \in Words, NEW k \in 0 .. Bits, NEW f \in Words, NEW g \in Words,
           f \div 2 ^ k = u \div 2 ^ k, f % 2 ^ k = 0,
           g \div 2 ^ k = u \div 2 ^ k, g % 2 ^ k = 2 ^ k - 1
    PROVE  /\ WordAnd(f, v) <= WordAnd(u, v) /\ WordAnd(u, v) <= WordAnd(g, v)
           /\ WordOr(f, v) <= WordOr(u, v)
<1> DEFINE p == 2 ^ k
           i == u \div p
           x == u % p
           j == v \div p
           y == v % p
<1>1. /\ p \in Nat \ {0} /\ i \in Words /\ x \in 0 .. p - 1 /\ j \in Words /\ y \in 0 .. p - 1
      /\ x \in Words /\ y \in Words
  BY CutFacts
<1>2. /\ WordAnd(u, v) = p * WordAnd(i, j) + WordAnd(x, y)
      /\ WordOr(u, v) = p * WordOr(i, j) + WordOr(x, y)
  BY BitwiseSplit
<1>3. /\ WordAnd(f, v) = p * WordAnd(i, j) + WordAnd(0, y)
      /\ WordOr(f, v) = p * WordOr(i, j) + WordOr(0, y)
  <2>1. /\ WordAnd(f, v) = p * WordAnd(f \div p, j) + WordAnd(f % p, y)
        /\ WordOr(f, v) = p * WordOr(f \div p, j) + WordOr(f % p, y)
    BY BitwiseSplit
  <2>2. f \div p = i /\ f % p = 0 OBVIOUS
  <2> HIDE DEF p, i, j, y
  <2> QED BY <2>1, <2>2
<1>4. WordAnd(g, v) = p * WordAnd(i, j) + WordAnd(p - 1, y)
  <2>1. WordAnd(g, v) = p * WordAnd(g \div p, j) + WordAnd(g % p, y) BY BitwiseSplit
  <2>2. g \div p = i /\ g % p = p - 1 OBVIOUS
  <2> HIDE DEF p, i, j, y
  <2> QED BY <2>1, <2>2
<1>5. WordAnd(p - 1, y) = y
  <2>1. WordAnd(y, p - 1) = y BY <1>1, AndOnes
  <2>2. p - 1 \in Words BY <1>1, LowWords
  <2>3. WordAnd(y, p - 1) = WordAnd(p - 1, y) BY <1>1, <2>2, AndCommutes
  <2> QED BY <2>1, <2>3
<1>6. 0 \in Words BY WordAssumption DEF Words, AllOnes
<1> HIDE DEF p, i, x, j, y
<1>7. WordAnd(x, y) \in Nat /\ WordAnd(x, y) <= y /\ y <= WordOr(x, y) /\ WordOr(x, y) \in Nat
      /\ y \in Nat
  BY <1>1, OrXorFacts
<1>8. WordAnd(0, y) = 0
  <2>1. WordAnd(0, y) <= 0 /\ WordAnd(0, y) \in Nat BY <1>1, <1>6, OrXorFacts
  <2> QED BY <2>1
<1>9. WordOr(0, y) = y BY <1>7, <1>8 DEF WordOr
<1>10. p * WordAnd(i, j) \in Int /\ p * WordOr(i, j) \in Int
  <2>1. WordAnd(i, j) \in Int /\ WordOr(i, j) \in Int BY <1>1, OrXorFacts
  <2> QED BY <1>1, <2>1
<1> DEFINE d == p * WordAnd(i, j)
           e == p * WordOr(i, j)
           n == WordAnd(x, y)
           m == WordOr(x, y)
<1>11. /\ WordAnd(u, v) = d + n /\ WordAnd(f, v) = d + 0 /\ WordAnd(g, v) = d + y
       /\ WordOr(u, v) = e + m /\ WordOr(f, v) = e + y
  BY <1>2, <1>3, <1>4, <1>5, <1>8, <1>9
<1>12. d \in Int /\ e \in Int /\ n \in Nat /\ n <= y /\ y <= m /\ m \in Nat /\ y \in Nat
  BY <1>7, <1>10
<1> HIDE DEF d, e, n, m
<1>13. d + 0 <= d + n /\ d + n <= d + y /\ e + y <= e + m BY <1>12
<1> QED BY <1>11, <1>13

LEMMA OrCommutes ==
    ASSUME NEW a \in Words, NEW b \in Words
    PROVE  WordOr(a, b) = WordOr(b, a) /\ WordXor(a, b) = WordXor(b, a)
<1> DEFINE n == WordAnd(a, b)
           m == WordAnd(b, a)
<1>1. n = m BY AndCommutes
<1>2. a \in Int /\ b \in Int /\ n \in Int BY OrXorFacts
<1>3. /\ WordOr(a, b) = a + b - n /\ WordOr(b, a) = b + a - m
      /\ WordXor(a, b) = a + b - 2 * n /\ WordXor(b, a) = b + a - 2 * m
  BY DEF WordOr, WordXor
<1> HIDE DEF n, m
<1> QED BY <1>1, <1>2, <1>3

(* A word between the bounds of a range has, above the mask of the range,    *)
(* the bits of the bounds.                                                   *)
Inside(r, u) == /\ r.imin.value \in Words /\ r.imax.value \in Words
                /\ r.imin.value <= u /\ u <= r.imax.value

LEMMA MaskFacts ==
    ASSUME NEW r, NEW u \in Words, Inside(r, u)
    PROVE  \E k \in 0 .. Bits :
               LET low == Fixed(r.imin.value, DiffMask(r))
                   high == WordOr(r.imax.value, DiffMask(r))
               IN  /\ DiffMask(r) = 2 ^ k - 1 /\ WordXor(r.imin.value, r.imax.value) <= 2 ^ k - 1
                   /\ low \in Words /\ low \div 2 ^ k = u \div 2 ^ k /\ low % 2 ^ k = 0
                   /\ high \in Words /\ high \div 2 ^ k = u \div 2 ^ k /\ high % 2 ^ k = 2 ^ k - 1
<1> DEFINE a == r.imin.value
           b == r.imax.value
<1>1. a \in Words /\ b \in Words /\ a <= u /\ u <= b BY DEF Inside
<1>2. DiffMask(r) = GetMask(WordXor(a, b)) BY DEF DiffMask
<1> HIDE DEF a, b
<1>3. WordXor(a, b) \in Words BY <1>1, OrXorFacts
<1>4. PICK k \in 0 .. Bits : GetMask(WordXor(a, b)) = 2 ^ k - 1 /\ WordXor(a, b) <= 2 ^ k - 1
  BY <1>3, GetMaskIs
<1>5. u \div 2 ^ k = a \div 2 ^ k /\ b \div 2 ^ k = a \div 2 ^ k BY <1>1, <1>4, SameAbove
<1> DEFINE low == Fixed(a, 2 ^ k - 1)
           high == WordOr(b, 2 ^ k - 1)
<1>6. low \in Words /\ low \div 2 ^ k = a \div 2 ^ k /\ low % 2 ^ k = 0 BY <1>1, FixedIs
<1>7. high \in Words /\ high \div 2 ^ k = b \div 2 ^ k /\ high % 2 ^ k = 2 ^ k - 1
  BY <1>1, RaisedIs
<1> HIDE DEF low, high
<1>8. DiffMask(r) = 2 ^ k - 1 BY <1>2, <1>4
<1>9. low = Fixed(a, DiffMask(r)) /\ high = WordOr(b, DiffMask(r)) BY <1>8 DEF low, high
<1> QED BY <1>4, <1>5, <1>6, <1>7, <1>8, <1>9 DEF a, b

LEMMA AndBetween ==
    ASSUME NEW a, NEW b, NEW u \in Words, NEW v \in Words, Inside(a, u), Inside(b, v)
    PROVE  LET low == WordAnd(Fixed(a.imin.value, DiffMask(a)), Fixed(b.imin.value, DiffMask(b)))
               high == WordAnd(WordOr(a.imax.value, DiffMask(a)), WordOr(b.imax.value, DiffMask(b)))
               most == Min2(high, Min2(a.imax.value, b.imax.value))
           IN  /\ low \in Words /\ low <= WordAnd(u, v)
               /\ most \in Words /\ WordAnd(u, v) <= most
<1> DEFINE f == Fixed(a.imin.value, DiffMask(a))
           g == WordOr(a.imax.value, DiffMask(a))
           d == Fixed(b.imin.value, DiffMask(b))
           e == WordOr(b.imax.value, DiffMask(b))
           x == a.imax.value
           y == b.imax.value
<1>1. PICK k \in 0 .. Bits :
          /\ f \in Words /\ f \div 2 ^ k = u \div 2 ^ k /\ f % 2 ^ k = 0
          /\ g \in Words /\ g \div 2 ^ k = u \div 2 ^ k /\ g % 2 ^ k = 2 ^ k - 1
  BY MaskFacts
<1>2. PICK j \in 0 .. Bits :
          /\ d \in Words /\ d \div 2 ^ j = v \div 2 ^ j /\ d % 2 ^ j = 0
          /\ e \in Words /\ e \div 2 ^ j = v \div 2 ^ j /\ e % 2 ^ j = 2 ^ j - 1
  BY MaskFacts
<1>3. x \in Words /\ y \in Words /\ u <= x /\ v <= y BY DEF Inside
<1> HIDE DEF f, g, d, e, x, y
<1>4. WordAnd(f, v) <= WordAnd(u, v) /\ WordAnd(u, v) <= WordAnd(g, v) BY <1>1, LowBits
<1>5. WordAnd(d, f) <= WordAnd(v, f) BY <1>1, <1>2, LowBits
<1>6. WordAnd(v, g) <= WordAnd(e, g) BY <1>1, <1>2, LowBits
<1>7. /\ WordAnd(d, f) = WordAnd(f, d) /\ WordAnd(v, f) = WordAnd(f, v)
      /\ WordAnd(v, g) = WordAnd(g, v) /\ WordAnd(e, g) = WordAnd(g, e)
  BY <1>1, <1>2, AndCommutes
<1>8. /\ WordAnd(f, d) \in Words /\ WordAnd(g, e) \in Words
      /\ WordAnd(u, v) <= u /\ WordAnd(u, v) <= v
  BY <1>1, <1>2, OrXorFacts
<1>9. /\ WordAnd(f, d) \in Nat /\ WordAnd(f, v) \in Nat /\ WordAnd(u, v) \in Nat
      /\ WordAnd(g, v) \in Nat /\ WordAnd(g, e) \in Nat
      /\ u \in Nat /\ v \in Nat /\ x \in Nat /\ y \in Nat
  BY <1>1, <1>2, <1>3, OrXorFacts
<1>10. WordAnd(f, d) <= WordAnd(u, v) BY <1>4, <1>5, <1>7, <1>9
<1>11. WordAnd(u, v) <= WordAnd(g, e) /\ WordAnd(u, v) <= x /\ WordAnd(u, v) <= y
  BY <1>3, <1>4, <1>6, <1>7, <1>8, <1>9
<1> DEFINE most == Min2(WordAnd(g, e), Min2(x, y))
<1>12. most \in {WordAnd(g, e), x, y} BY DEF Min2
<1>13. most \in Words /\ WordAnd(u, v) <= most
  <2> HIDE DEF most
  <2> QED BY <1>3, <1>8, <1>11, <1>12
<1> QED BY <1>8, <1>10, <1>13 DEF f, g, d, e, x, y

LEMMA OrBetween ==
    ASSUME NEW a, NEW b, NEW u \in Words, NEW v \in Words, Inside(a, u), Inside(b, v)
    PROVE  LET low == WordOr(Fixed(a.imin.value, DiffMask(a)), Fixed(b.imin.value, DiffMask(b)))
               least == Max2(low, Max2(a.imin.value, b.imin.value))
               both == GetMask(WordAnd(a.imax.value, b.imax.value))
               high == WordOr(WordOr(a.imax.value, b.imax.value), both)
           IN  /\ least \in Words /\ least <= WordOr(u, v)
               /\ high \in Words /\ WordOr(u, v) <= high
<1> DEFINE f == Fixed(a.imin.value, DiffMask(a))
           d == Fixed(b.imin.value, DiffMask(b))
           s == a.imin.value
           t == b.imin.value
           x == a.imax.value
           y == b.imax.value
           both == GetMask(WordAnd(x, y))
           high == WordOr(WordOr(x, y), both)
           least == Max2(WordOr(f, d), Max2(s, t))
<1>1. PICK k \in 0 .. Bits :
          /\ f \in Words /\ f \div 2 ^ k = u \div 2 ^ k /\ f % 2 ^ k = 0
          /\ \E g \in Words : g \div 2 ^ k = u \div 2 ^ k /\ g % 2 ^ k = 2 ^ k - 1
  BY MaskFacts
<1>2. PICK j \in 0 .. Bits :
          /\ d \in Words /\ d \div 2 ^ j = v \div 2 ^ j /\ d % 2 ^ j = 0
          /\ \E g \in Words : g \div 2 ^ j = v \div 2 ^ j /\ g % 2 ^ j = 2 ^ j - 1
  BY MaskFacts
<1>3. /\ x \in Words /\ y \in Words /\ u <= x /\ v <= y
      /\ s \in Words /\ t \in Words /\ s <= u /\ t <= v
  BY DEF Inside
<1> HIDE DEF f, d, s, t, x, y
<1>4. least \in Words /\ least <= WordOr(u, v)
  <2>1. WordOr(f, v) <= WordOr(u, v) BY <1>1, LowBits
  <2>2. WordOr(d, f) <= WordOr(v, f) BY <1>1, <1>2, LowBits
  <2>3. WordOr(d, f) = WordOr(f, d) /\ WordOr(v, f) = WordOr(f, v)
    BY <1>1, <1>2, OrCommutes
  <2>4. /\ WordOr(f, d) \in Words /\ WordOr(f, d) \in Nat /\ WordOr(f, v) \in Nat
        /\ WordOr(u, v) \in Nat /\ u <= WordOr(u, v) /\ v <= WordOr(u, v)
        /\ u \in Nat /\ v \in Nat /\ s \in Nat /\ t \in Nat
    BY <1>1, <1>2, <1>3, OrXorFacts
  <2>5. WordOr(f, d) <= WordOr(u, v) /\ s <= WordOr(u, v) /\ t <= WordOr(u, v)
    BY <1>3, <2>1, <2>2, <2>3, <2>4
  <2>6. least \in {WordOr(f, d), s, t} BY DEF Max2
  <2> HIDE DEF least
  <2> QED BY <1>3, <2>4, <2>5, <2>6
<1>5. high \in Words /\ WordOr(u, v) <= high
  <2>1. WordAnd(x, y) \in Words /\ WordOr(x, y) \in Words BY <1>3, OrXorFacts
  <2>2. PICK m \in 0 .. Bits : both = 2 ^ m - 1 /\ WordAnd(x, y) <= 2 ^ m - 1
    BY <2>1, GetMaskIs
  <2> DEFINE p == 2 ^ m
             x1 == x \div p
             y1 == y \div p
             u1 == u \div p
             v1 == v \div p
             u0 == u % p
             v0 == v % p
             n == WordAnd(x1, y1)
  <2>3. /\ p \in Nat \ {0} /\ x1 \in Words /\ y1 \in Words /\ u1 \in Words /\ v1 \in Words
        /\ u0 \in 0 .. p - 1 /\ v0 \in 0 .. p - 1
        /\ x \in Int /\ y \in Int /\ u \in Int /\ v \in Int
    BY <1>3, CutFacts
  <2>4. /\ WordAnd(x, y) = p * n + WordAnd(x % p, y % p)
        /\ WordOr(x, y) \div p = WordOr(x1, y1)
        /\ WordOr(u, v) = p * WordOr(u1, v1) + WordOr(u0, v0)
    BY <1>3, BitwiseSplit
  <2>5. /\ WordOr(WordOr(x, y), p - 1) = p * (WordOr(x, y) \div p) + p - 1
        /\ WordOr(WordOr(x, y), p - 1) \in Words
    BY <2>1, RaisedIs
  <2>6. x % p \in Words /\ y % p \in Words BY <1>3, CutFacts
  <2>7. WordAnd(x % p, y % p) \in Nat BY <2>6, OrXorFacts
  <2>8. WordOr(u0, v0) \in 0 .. p - 1 BY <2>3, OrXorBelow
  <2>9. WordAnd(x, y) <= p - 1 BY <2>2
  <2>10. high = WordOr(WordOr(x, y), p - 1) BY <2>2
  <2> HIDE DEF p, high
  <2>11. u1 <= x1 /\ v1 <= y1 BY <1>3, <2>3, FloorRises
  <2> HIDE DEF x1, y1, u1, v1, u0, v0, n
  <2>12. /\ n \in Nat /\ WordOr(x1, y1) \in Nat /\ WordOr(u1, v1) \in Nat
         /\ x1 \in Nat /\ y1 \in Nat /\ u1 \in Nat /\ v1 \in Nat /\ WordAnd(u1, v1) \in Nat
    BY <2>3, OrXorFacts DEF n
  <2>13. n = 0
    <3>1. ASSUME 1 <= n PROVE FALSE
      <4>1. 1 \in Int /\ n \in Int /\ p \in Int /\ 0 <= p BY <2>3, <2>12
      <4>2. p * 1 <= p * n BY <3>1, <4>1, ProductMonotone, Zenon
      <4>3. p * 1 = p /\ p * n \in Int BY <4>1
      <4> QED BY <2>3, <2>4, <2>7, <2>9, <4>2, <4>3
    <3> QED BY <2>12, <3>1
  <2>14. WordOr(u1, v1) <= WordOr(x1, y1) BY <2>11, <2>12, <2>13 DEF WordOr, n
  <2> DEFINE c == WordOr(u1, v1)
             e == WordOr(x1, y1)
  <2>15. c \in Int /\ e \in Int /\ c <= e BY <2>12, <2>14
  <2> HIDE DEF c, e
  <2>16. p * c <= p * e /\ p * c \in Int /\ p * e \in Int
    <3>1. p * c <= p * e
      <4>1. p \in Int /\ 0 <= p BY <2>3
      <4> QED BY <2>15, <4>1, ProductMonotone, Zenon
    <3>2. p * c \in Int /\ p * e \in Int BY <2>3, <2>15
    <3> QED BY <3>1, <3>2
  <2>17. WordOr(u, v) = p * c + WordOr(u0, v0) /\ high = p * e + p - 1
    BY <2>4, <2>5, <2>10 DEF c, e
  <2>18. WordOr(u, v) <= high BY <2>3, <2>8, <2>16, <2>17
  <2> QED BY <2>5, <2>10, <2>18
<1> QED BY <1>4, <1>5 DEF f, d, s, t, x, y

(* Two masks of low bits together are the longer of them. *)
LEMMA LongerMask ==
    ASSUME NEW k \in 0 .. Bits, NEW j \in 0 .. Bits
    PROVE  \E m \in 0 .. Bits : k <= m /\ j <= m /\ WordOr(2 ^ k - 1, 2 ^ j - 1) = 2 ^ m - 1
<1>1. ASSUME NEW x \in 0 .. Bits, NEW y \in 0 .. Bits, x <= y
      PROVE  /\ WordOr(2 ^ x - 1, 2 ^ y - 1) = 2 ^ y - 1
             /\ WordOr(2 ^ y - 1, 2 ^ x - 1) = 2 ^ y - 1
  <2>1. 2 ^ x <= 2 ^ y /\ 2 ^ x \in Nat \ {0} /\ 2 ^ y \in Nat \ {0} BY <1>1, PowerMonotone
  <2> DEFINE p == 2 ^ x - 1
             q == 2 ^ y - 1
  <2>2. p \in 0 .. q /\ q \in Nat BY <2>1
  <2>3. WordAnd(p, q) = p BY <2>2, AndOnes
  <2>4. p \in Words /\ q \in Words BY <2>2, LowWords
  <2> HIDE DEF p, q
  <2>5. WordOr(p, q) = q
    <3>1. WordOr(p, q) = p + q - p BY <2>3 DEF WordOr
    <3> QED BY <2>2, <3>1
  <2>6. WordOr(q, p) = q BY <2>4, <2>5, OrCommutes
  <2> QED BY <2>5, <2>6 DEF p, q
<1>2. k <= j \/ j <= k OBVIOUS
<1> QED BY <1>1, <1>2

LEMMA XorBetween ==
    ASSUME NEW a, NEW b, NEW u \in Words, NEW v \in Words, Inside(a, u), Inside(b, v)
    PROVE  LET mask == WordOr(DiffMask(a), DiffMask(b))
               low == Fixed(WordXor(a.imin.value, b.imin.value), mask)
               high == WordOr(WordXor(a.imax.value, b.imax.value), mask)
           IN  /\ low \in Words /\ low <= WordXor(u, v)
               /\ high \in Words /\ WordXor(u, v) <= high
<1> DEFINE s == a.imin.value
           x == a.imax.value
           t == b.imin.value
           y == b.imax.value
           mask == WordOr(DiffMask(a), DiffMask(b))
<1>1. PICK k \in 0 .. Bits : DiffMask(a) = 2 ^ k - 1 /\ WordXor(s, x) <= 2 ^ k - 1 BY MaskFacts
<1>2. PICK j \in 0 .. Bits : DiffMask(b) = 2 ^ j - 1 /\ WordXor(t, y) <= 2 ^ j - 1 BY MaskFacts
<1>3. /\ x \in Words /\ y \in Words /\ u <= x /\ v <= y
      /\ s \in Words /\ t \in Words /\ s <= u /\ t <= v
  BY DEF Inside
<1>4. PICK m \in 0 .. Bits : k <= m /\ j <= m /\ mask = 2 ^ m - 1 BY <1>1, <1>2, LongerMask
<1> HIDE DEF s, x, t, y, mask
<1> DEFINE p == 2 ^ m
<1>5. WordXor(s, x) <= p - 1 /\ WordXor(t, y) <= p - 1 /\ p \in Nat \ {0}
  <2>1. 2 ^ k <= p /\ 2 ^ j <= p /\ 2 ^ k \in Nat /\ 2 ^ j \in Nat /\ p \in Nat \ {0}
    BY <1>4, PowerMonotone
  <2>2. WordXor(s, x) \in Nat /\ WordXor(t, y) \in Nat BY <1>3, OrXorFacts
  <2> QED BY <1>1, <1>2, <2>1, <2>2
<1>6. u \div p = s \div p /\ x \div p = s \div p BY <1>3, <1>5, SameAbove
<1>7. v \div p = t \div p /\ y \div p = t \div p BY <1>3, <1>5, SameAbove
<1>8. WordXor(s, t) \in Words /\ WordXor(x, y) \in Words BY <1>3, OrXorFacts
<1> DEFINE n == WordXor(u \div p, v \div p)
           low == Fixed(WordXor(s, t), mask)
           high == WordOr(WordXor(x, y), mask)
<1>9. low = p * (WordXor(s, t) \div p) /\ low \in Words BY <1>4, <1>8, FixedIs
<1>10. high = p * (WordXor(x, y) \div p) + p - 1 /\ high \in Words BY <1>4, <1>8, RaisedIs
<1>11. WordXor(s, t) \div p = WordXor(s \div p, t \div p) BY <1>3, BitwiseSplit
<1>12. WordXor(x, y) \div p = WordXor(x \div p, y \div p) BY <1>3, BitwiseSplit
<1>13. WordXor(u, v) = p * n + WordXor(u % p, v % p) BY BitwiseSplit
<1>14. /\ u % p \in 0 .. p - 1 /\ v % p \in 0 .. p - 1
       /\ u \div p \in Words /\ v \div p \in Words
  BY CutFacts
<1>15. WordXor(u % p, v % p) \in 0 .. p - 1 BY <1>14, OrXorBelow
<1>16. n \in Nat BY <1>14, OrXorFacts
<1>17. low = p * n /\ high = p * n + p - 1 BY <1>6, <1>7, <1>9, <1>10, <1>11, <1>12
<1>18. low \in Words /\ high \in Words BY <1>9, <1>10
<1> HIDE DEF p, n, low, high
<1>19. p * n \in Int BY <1>5, <1>16
<1>20. low <= WordXor(u, v) /\ WordXor(u, v) <= high BY <1>5, <1>13, <1>15, <1>17, <1>19
<1> QED BY <1>18, <1>20 DEF low, high, mask, s, t, x, y

(* splitBySign: the halves have one sign each and hold what the range holds. *)
OneSign(h) == /\ IsRange(h) /\ h.imin.negative = h.imax.negative
              /\ h.imin.value <= h.imax.value

LEMMA HalvesFacts ==
    ASSUME NEW r, NEW x \in Int, Covers(r, x)
    PROVE  /\ \A h \in Halves(r) : OneSign(h)
           /\ \E h \in Halves(r) :
                  (h.imin.negative <=> x < 0) /\ Inside(h, IF x < 0 THEN x + Top ELSE x)
<1> DEFINE a == r.imin
           b == r.imax
           w == IF x < 0 THEN x + Top ELSE x
           m == Minus(1)
           z == FromNat(0)
<1>1. /\ a \in Numbers /\ b \in Numbers /\ Value(a) <= x /\ x <= Value(b) BY DEF Covers, IsRange
<1>2. /\ m \in Numbers /\ m.value = Top - 1 /\ m.negative = TRUE
      /\ z \in Numbers /\ z.value = 0 /\ z.negative = FALSE
  <2>1. Word(-1) = Top - 1 BY WordOf, WordAssumption
  <2> QED BY <2>1, WordAssumption DEF Minus, FromNat, Number, Numbers, Words, AllOnes
<1>3. /\ a.value \in Nat /\ a.value < Top /\ a.negative \in BOOLEAN
      /\ b.value \in Nat /\ b.value < Top /\ b.negative \in BOOLEAN
      /\ Value(a) = (IF a.negative THEN a.value - Top ELSE a.value)
      /\ Value(b) = (IF b.negative THEN b.value - Top ELSE b.value)
  BY <1>1, NumberFacts
<1>4. Halves(r) = (IF a.negative THEN {Range(a, IF b.negative THEN b ELSE m)} ELSE {})
                      \cup (IF ~b.negative THEN {Range(IF a.negative THEN z ELSE a, b)} ELSE {})
  BY DEF Halves
<1>5. a.value \in Words /\ b.value \in Words BY <1>1 DEF Numbers
<1>6. Top - 1 \in Words /\ 0 \in Words BY WordAssumption DEF Words, AllOnes
<1> HIDE DEF a, b, m, z
<1>7. CASE a.negative /\ b.negative
  <2> DEFINE h == Range(a, b)
  <2>1. Halves(r) = {h} BY <1>4, <1>7
  <2>2. h.imin = a /\ h.imax = b BY DEF Range
  <2>3. x < 0 /\ a.value <= x + Top /\ x + Top <= b.value /\ a.value <= b.value
    BY <1>1, <1>3, <1>7, WordAssumption
  <2> HIDE DEF h
  <2>4. OneSign(h)
    <3>1. a.negative = b.negative BY <1>3, <1>7
    <3> QED BY <1>1, <2>2, <2>3, <3>1 DEF OneSign, IsRange
  <2>5. Inside(h, w) BY <1>5, <2>2, <2>3 DEF Inside
  <2>6. h.imin.negative <=> x < 0 BY <1>7, <2>2, <2>3
  <2> QED BY <2>1, <2>4, <2>5, <2>6
<1>8. CASE ~a.negative /\ ~b.negative
  <2> DEFINE h == Range(a, b)
  <2>1. Halves(r) = {h} BY <1>4, <1>8
  <2>2. h.imin = a /\ h.imax = b BY DEF Range
  <2>3. ~(x < 0) /\ a.value <= x /\ x <= b.value /\ a.value <= b.value
    BY <1>1, <1>3, <1>8, WordAssumption
  <2> HIDE DEF h
  <2>4. OneSign(h)
    <3>1. a.negative = b.negative BY <1>3, <1>8
    <3> QED BY <1>1, <2>2, <2>3, <3>1 DEF OneSign, IsRange
  <2>5. Inside(h, w) BY <1>5, <2>2, <2>3 DEF Inside
  <2>6. h.imin.negative <=> x < 0 BY <1>8, <2>2, <2>3
  <2> QED BY <2>1, <2>4, <2>5, <2>6
<1>9. CASE a.negative /\ ~b.negative
  <2> DEFINE h == Range(a, m)
             g == Range(z, b)
  <2>1. Halves(r) = {h, g} BY <1>4, <1>9
  <2>2. h.imin = a /\ h.imax = m /\ g.imin = z /\ g.imax = b BY DEF Range
  <2> HIDE DEF h, g
  <2>3. OneSign(h)
    <3>1. a.value <= Top - 1 BY <1>3, WordAssumption
    <3>2. a.negative = m.negative BY <1>2, <1>3, <1>9
    <3> QED BY <1>1, <1>2, <2>2, <3>1, <3>2 DEF OneSign, IsRange
  <2>4. OneSign(g)
    <3>1. b.negative = FALSE BY <1>3, <1>9
    <3>2. b.negative = z.negative BY <1>2, <3>1
    <3>3. 0 <= b.value BY <1>3
    <3> QED BY <1>1, <1>2, <2>2, <3>2, <3>3 DEF OneSign, IsRange
  <2>5. CASE x < 0
    <3>1. a.value <= x + Top /\ x + Top <= Top - 1 BY <1>1, <1>3, <1>9, <2>5, WordAssumption
    <3>2. Inside(h, w) BY <1>2, <1>5, <1>6, <2>2, <2>5, <3>1 DEF Inside
    <3>3. h.imin.negative <=> x < 0 BY <1>9, <2>2, <2>5
    <3> QED BY <2>1, <2>3, <2>4, <3>2, <3>3
  <2>6. CASE ~(x < 0)
    <3>1. 0 <= x /\ x <= b.value BY <1>1, <1>3, <1>9, <2>6, WordAssumption
    <3>2. Inside(g, w) BY <1>2, <1>5, <1>6, <2>2, <2>6, <3>1 DEF Inside
    <3>3. g.imin.negative <=> x < 0 BY <1>2, <2>2, <2>6
    <3> QED BY <2>1, <2>3, <2>4, <3>2, <3>3
  <2> QED BY <2>5, <2>6
<1>10. ~(~a.negative /\ b.negative) BY <1>1, <1>3, WordAssumption
<1> QED BY <1>3, <1>7, <1>8, <1>9, <1>10

LEMMA OfSign ==
    ASSUME NEW s \in BOOLEAN, NEW m \in Words, NEW n \in Words, NEW k \in Words, m <= n, n <= k
    PROVE  /\ Covers(Range(Number(m, s), Number(k, s)), Value(Number(n, s)))
           /\ Value(Number(n, s)) \in Int /\ Word(Value(Number(n, s))) = n
<1>1. \A i \in Words : /\ Number(i, s) \in Numbers /\ i \in Nat /\ i < Top
                       /\ Value(Number(i, s)) = (IF s THEN i - Top ELSE i)
  BY WordAssumption DEF Number, Numbers, Value, Words, AllOnes
<1> DEFINE q == Value(Number(n, s))
<1>2. Value(Number(m, s)) <= q /\ q <= Value(Number(k, s)) BY <1>1, WordAssumption
<1>3. q \in Int /\ -Top <= q /\ q < Top /\ q = (IF s THEN n - Top ELSE n) /\ n \in Nat /\ n < Top
  BY <1>1, WordAssumption
<1>4. Number(m, s) \in Numbers /\ Number(k, s) \in Numbers BY <1>1
<1> HIDE DEF q
<1>5. Covers(Range(Number(m, s), Number(k, s)), q) BY <1>2, <1>4, RangeCovers
<1>6. Word(q) = n
  <2>1. q < 2 * Top BY <1>3, WordAssumption
  <2>2. Word(q) = IF q < 0 THEN q + Top ELSE IF q < Top THEN q ELSE q - Top BY <1>3, <2>1, WordOf
  <2> QED BY <1>3, <2>2, WordAssumption
<1> QED BY <1>3, <1>5, <1>6 DEF q

(* The three operators on the halves: the words between the bounds, with the *)
(* sign that the operator makes of the two signs.                            *)
OnWords(op, u, v) ==
    CASE op = "&" -> WordAnd(u, v) [] op = "|" -> WordOr(u, v) [] op = "^" -> WordXor(u, v)
OnSigns(op, s, t) == CASE op = "&" -> s /\ t [] op = "|" -> s \/ t [] op = "^" -> s # t
OnHalves(op, a, b) ==
    CASE op = "&" -> BitwiseAnd(a, b) [] op = "|" -> BitwiseOr(a, b) [] op = "^" -> BitwiseXor(a, b)

OfHalves(op, a, b, u, v) ==
    Number(OnWords(op, u, v), OnSigns(op, a.imin.negative, b.imin.negative))

LEMMA HalvesCover ==
    ASSUME NEW op \in {"&", "|", "^"}, NEW a, NEW b, IsRange(a), IsRange(b),
           NEW u \in Words, NEW v \in Words, Inside(a, u), Inside(b, v)
    PROVE  LET n == OfHalves(op, a, b, u, v)
           IN  /\ Covers(OnHalves(op, a, b), Value(n))
               /\ Value(n) \in Int /\ Word(Value(n)) = OnWords(op, u, v)
<1> DEFINE s == a.imin.negative
           t == b.imin.negative
<1>1. s \in BOOLEAN /\ t \in BOOLEAN BY DEF IsRange, Numbers
<1>2. CASE op = "&"
  <2> DEFINE low == WordAnd(Fixed(a.imin.value, DiffMask(a)), Fixed(b.imin.value, DiffMask(b)))
             high == Min2(WordAnd(WordOr(a.imax.value, DiffMask(a)), WordOr(b.imax.value, DiffMask(b))),
                          Min2(a.imax.value, b.imax.value))
             w == WordAnd(u, v)
             n == OnSigns(op, s, t)
  <2>1. low \in Words /\ low <= w /\ high \in Words /\ w <= high BY AndBetween
  <2>2. w \in Words BY OrXorFacts
  <2>3. OnWords(op, u, v) = w BY <1>2 DEF OnWords
  <2>4. n = (s /\ t) BY <1>2 DEF OnSigns
  <2>5. OnHalves(op, a, b) = Range(Number(low, n), Number(high, n))
    <3>1. OnHalves(op, a, b) = BitwiseAnd(a, b) BY <1>2 DEF OnHalves
    <3> QED BY <2>4, <3>1 DEF BitwiseAnd
  <2>6. n \in BOOLEAN BY <2>4
  <2> HIDE DEF low, high, w, n
  <2>7. /\ Covers(Range(Number(low, n), Number(high, n)), Value(Number(w, n)))
        /\ Value(Number(w, n)) \in Int /\ Word(Value(Number(w, n))) = w
    BY <2>1, <2>2, <2>6, OfSign
  <2> QED BY <2>3, <2>5, <2>7 DEF n, OfHalves
<1>3. CASE op = "|"
  <2> DEFINE low == Max2(WordOr(Fixed(a.imin.value, DiffMask(a)), Fixed(b.imin.value, DiffMask(b))),
                         Max2(a.imin.value, b.imin.value))
             high == WordOr(WordOr(a.imax.value, b.imax.value),
                            GetMask(WordAnd(a.imax.value, b.imax.value)))
             w == WordOr(u, v)
             n == OnSigns(op, s, t)
  <2>1. low \in Words /\ low <= w /\ high \in Words /\ w <= high BY OrBetween
  <2>2. w \in Words BY OrXorFacts
  <2>3. OnWords(op, u, v) = w BY <1>3 DEF OnWords
  <2>4. n = (s \/ t) BY <1>3 DEF OnSigns
  <2>5. OnHalves(op, a, b) = Range(Number(low, n), Number(high, n))
    <3>1. OnHalves(op, a, b) = BitwiseOr(a, b) BY <1>3 DEF OnHalves
    <3> QED BY <2>4, <3>1 DEF BitwiseOr
  <2>6. n \in BOOLEAN BY <2>4
  <2> HIDE DEF low, high, w, n
  <2>7. /\ Covers(Range(Number(low, n), Number(high, n)), Value(Number(w, n)))
        /\ Value(Number(w, n)) \in Int /\ Word(Value(Number(w, n))) = w
    BY <2>1, <2>2, <2>6, OfSign
  <2> QED BY <2>3, <2>5, <2>7 DEF n, OfHalves
<1>4. CASE op = "^"
  <2> DEFINE mask == WordOr(DiffMask(a), DiffMask(b))
             low == Fixed(WordXor(a.imin.value, b.imin.value), mask)
             high == WordOr(WordXor(a.imax.value, b.imax.value), mask)
             w == WordXor(u, v)
             n == OnSigns(op, s, t)
  <2>1. low \in Words /\ low <= w /\ high \in Words /\ w <= high BY XorBetween
  <2>2. w \in Words BY OrXorFacts
  <2>3. OnWords(op, u, v) = w BY <1>4 DEF OnWords
  <2>4. n = (s # t) BY <1>4 DEF OnSigns
  <2>5. OnHalves(op, a, b) = Range(Number(low, n), Number(high, n))
    <3>1. OnHalves(op, a, b) = BitwiseXor(a, b) BY <1>4 DEF OnHalves
    <3> QED BY <2>4, <3>1 DEF BitwiseXor
  <2>6. n \in BOOLEAN BY <2>4
  <2> HIDE DEF low, high, w, n
  <2>7. /\ Covers(Range(Number(low, n), Number(high, n)), Value(Number(w, n)))
        /\ Value(Number(w, n)) \in Int /\ Word(Value(Number(w, n))) = w
    BY <2>1, <2>2, <2>6, OfSign
  <2> QED BY <2>3, <2>5, <2>7 DEF n, OfHalves
<1>5. op = "&" \/ op = "|" \/ op = "^" OBVIOUS
<1> QED BY <1>2, <1>3, <1>4, <1>5, Zenon

LEMMA BitwiseCovers ==
    ASSUME NEW op \in {"&", "|", "^"}, NEW r1, NEW r2, NEW t \in Types, t # "bool",
           NEW x \in NumbersOf(t), NEW y \in NumbersOf(t), Covers(r1, x), Covers(r2, y)
    PROVE  \E n \in Int : Covers(RangeOf(op, r1, r2, t), n) /\ Wrapped(n, t) = RunBin(op, x, y, t)
<1> DEFINE u == Word(x)
           v == Word(y)
<1>1. /\ x \in Int /\ u \in Words /\ u % Size(t) = x % Size(t) /\ u = (IF x < 0 THEN x + Top ELSE x)
      /\ y \in Int /\ v \in Words /\ v % Size(t) = y % Size(t) /\ v = (IF y < 0 THEN y + Top ELSE y)
  BY MeaningOfWord
<1>2. /\ \A h \in Halves(r1) : OneSign(h)
      /\ \E h \in Halves(r1) : Inside(h, u)
  BY <1>1, HalvesFacts
<1>3. /\ \A h \in Halves(r2) : OneSign(h)
      /\ \E h \in Halves(r2) : Inside(h, v)
  BY <1>1, HalvesFacts
<1>4. PICK a \in Halves(r1) : Inside(a, u) BY <1>2
<1>5. PICK b \in Halves(r2) : Inside(b, v) BY <1>3
<1> DEFINE rs == {OnHalves(op, c, d) : c \in Halves(r1), d \in Halves(r2)}
           n == Value(OfHalves(op, a, b, u, v))
<1> HIDE DEF u, v
<1>6. Covers(OnHalves(op, a, b), n) /\ n \in Int /\ Word(n) = OnWords(op, u, v)
  <2>1. IsRange(a) /\ IsRange(b) BY <1>2, <1>3 DEF OneSign
  <2> QED BY <1>1, <1>4, <1>5, <2>1, HalvesCover
<1>7. \A r \in rs : IsRange(r)
  <2>1. ASSUME NEW c \in Halves(r1), NEW d \in Halves(r2) PROVE IsRange(OnHalves(op, c, d))
    <3>1. /\ IsRange(c) /\ c.imin.value <= c.imax.value
          /\ IsRange(d) /\ d.imin.value <= d.imax.value
      BY <1>2, <1>3 DEF OneSign
    <3>2. /\ c.imin.value \in Words /\ c.imax.value \in Words
          /\ d.imin.value \in Words /\ d.imax.value \in Words
      BY <3>1 DEF IsRange, Numbers
    <3>3. Inside(c, c.imin.value) /\ Inside(d, d.imin.value)
      BY <3>1, <3>2 DEF Inside, Words
    <3> QED BY <3>1, <3>2, <3>3, HalvesCover DEF Covers
  <2> QED BY <2>1
<1>8. RangeOf(op, r1, r2, t) = UnionOf(rs)
  <2>1. RangeOf(op, r1, r2, t) = RangeBitwise(op, r1, r2) BY DEF RangeOf
  <2> QED BY <2>1 DEF RangeBitwise, OnHalves
<1> HIDE DEF n
<1>9. Covers(UnionOf(rs), n)
  <2>1. OnHalves(op, a, b) \in rs OBVIOUS
  <2> HIDE DEF rs
  <2> QED BY <1>6, <1>7, <2>1, UnionOfCovers
<1>10. Wrapped(n, t) = RunBin(op, x, y, t)
  <2> DEFINE m == OnWords(op, BitsOf(x, t), BitsOf(y, t))
  <2>1. Width[t] \in 0 .. Bits /\ Size(t) \in Nat \ {0} BY TypeFacts
  <2>2. BitsOf(x, t) = u % Size(t) /\ BitsOf(y, t) = v % Size(t) BY <1>1 DEF BitsOf, Size
  <2>3. OnWords(op, u, v) % Size(t) = m % Size(t) /\ m \in Int
    <3> DEFINE c == u % Size(t)
               d == v % Size(t)
    <3>1. /\ c \in Words /\ d \in Words
          /\ WordAnd(u, v) % Size(t) = WordAnd(c, d) % Size(t)
          /\ WordOr(u, v) % Size(t) = WordOr(c, d) % Size(t)
          /\ WordXor(u, v) % Size(t) = WordXor(c, d) % Size(t)
      BY <1>1, BitwiseAgree
    <3>2. m = OnWords(op, c, d) BY <2>2
    <3> HIDE DEF c, d
    <3>3. WordAnd(c, d) \in Words /\ WordOr(c, d) \in Words /\ WordXor(c, d) \in Words
      BY <3>1, OrXorFacts
    <3>4. Words \subseteq Int BY DEF Words
    <3> HIDE DEF m
    <3> QED BY <3>1, <3>2, <3>3, <3>4 DEF OnWords
  <2>4. Word(n) % Size(t) = n % Size(t) BY <1>6, <2>1, WordMod DEF Size
  <2>5. RunBin(op, x, y, t) = Wrapped(m, t) BY DEF RunBin, OnWords
  <2> HIDE DEF m
  <2>6. Wrapped(n, t) = Wrapped(m, t) BY <1>6, <2>3, <2>4, WrappedSame
  <2> QED BY <2>5, <2>6
<1> HIDE DEF rs
<1>11. Covers(RangeOf(op, r1, r2, t), n) BY <1>8, <1>9
<1> QED BY <1>6, <1>10, <1>11, Zenon

(* The range of a binary operator, and of a shift, holds what the compiled   *)
(* code makes of numbers that are in the ranges of the operands.             *)
LEMMA AboveLeast ==
    ASSUME NEW t \in Types, NEW x \in NumbersOf(t)
    PROVE  x \in Int /\ -Top < x
BY TypeFacts DEF NumbersOf

LEMMA BinarySound ==
    ASSUME NEW t \in Types, t # "bool", t # "dchar", NEW op \in Arithmetic, NEW r1, NEW r2,
           NEW x \in NumbersOf(t), NEW y \in NumbersOf(t), Covers(r1, x), Covers(r2, y),
           op \in {"/", "%"} => ~DivError(Word(x), Word(y), t),
           "cut" \in Avoided, Reached(op, r1, r2, t)
    PROVE  Covers(RangeBin(op, r1, r2, t), RunBin(op, x, y, t))
<1> DEFINE res == RunBin(op, x, y, t)
           of == RangeOf(op, r1, r2, t)
<1>1. res \in NumbersOf(t) BY BinaryAgrees
<1>2. Covers(FromType(t), res) BY <1>1, FromTypeCovers
<1>3. x \in Int /\ y \in Int /\ -Top < x BY AboveLeast
<1>4. CASE CastRange(of, t) = FromType(t) BY <1>2, <1>4 DEF RangeBin
<1>5. ASSUME NEW n \in Int, Covers(of, n), Wrapped(n, t) = res
      PROVE  Covers(RangeBin(op, r1, r2, t), res)
  <2> HIDE DEF of, res
  <2>1. Covers(CastRange(of, t), Wrapped(n, t)) BY <1>5, CastRangeCovers
  <2> QED BY <1>5, <2>1 DEF RangeBin, of
<1>6. ASSUME CastRange(of, t) # FromType(t)
      PROVE  \E n \in Int : Covers(of, n) /\ Wrapped(n, t) = res
  <2>1. CASE op = "+"
    <3>1. \A a \in {r1.imin, r1.imax}, b \in {r2.imin, r2.imax} :
              Value(a) + Value(b) = Saturated(Value(a) + Value(b))
      BY <1>6, <2>1 DEF Reached
    <3>2. Covers(RangeAdd(r1, r2), x + y) BY <1>3, <3>1, AddCovers
    <3>3. of = RangeAdd(r1, r2) /\ res = Wrapped(x + y, t) BY <2>1 DEF RangeOf, RunBin
    <3> QED BY <1>3, <3>2, <3>3
  <2>2. CASE op = "-"
    <3>1. \A a \in {r1.imin, r1.imax}, b \in {r2.imin, r2.imax} :
              Value(a) - Value(b) = Saturated(Value(a) - Value(b))
      BY <1>6, <2>2 DEF Reached
    <3>2. Covers(RangeMin(r1, r2), x - y) BY <1>3, <3>1, MinCovers
    <3>3. of = RangeMin(r1, r2) /\ res = Wrapped(x - y, t) BY <2>2 DEF RangeOf, RunBin
    <3> QED BY <1>3, <3>2, <3>3
  <2>3. CASE op = "*"
    <3>1. \A a \in {r1.imin, r1.imax}, b \in {r2.imin, r2.imax} :
              Value(a) * Value(b) = Saturated(Value(a) * Value(b))
      BY <1>6, <2>3 DEF Reached
    <3>2. Covers(RangeMul(r1, r2), x * y) BY <1>3, <3>1, MulCovers
    <3>3. of = RangeMul(r1, r2) /\ res = Wrapped(x * y, t) BY <2>3 DEF RangeOf, RunBin
    <3>4. x * y \in Int BY <1>3
    <3> QED BY <3>2, <3>3, <3>4
  <2>4. CASE op = "/"
    <3>1. of = RangeDiv(r1, r2, t) /\ res = Wrapped(Quotient(x, y), t) BY <2>4 DEF RangeOf, RunBin
    <3>2. CASE ContainsZero(r2)
      <4>1. of = FromType(t) BY <3>1, <3>2 DEF RangeDiv
      <4>2. Wrapped(res, t) = res BY <1>1, WrappedSelf
      <4>3. res \in Int BY <1>1, AboveLeast
      <4> HIDE DEF res, of
      <4> QED BY <1>2, <4>1, <4>2, <4>3
    <3>3. CASE ~ContainsZero(r2)
      <4>1. y # 0 /\ Covers(RangeDiv(r1, r2, t), Quotient(x, y)) BY <1>3, <3>3, DivCovers
      <4>2. Quotient(x, y) \in Int BY <1>3, <4>1, QuotientInt
      <4> QED BY <3>1, <4>1, <4>2
    <3> QED BY <3>2, <3>3
  <2>5. CASE op = "%"
    <3>1. of = RangeMod(r1, r2, t) /\ res = Wrapped(Remainder(x, y), t) BY <2>5 DEF RangeOf, RunBin
    <3>2. y # 0
      <4>1. ASSUME y = 0 PROVE FALSE
        <5>1. Word(y) = 0 BY <4>1, MeaningOfWord
        <5> QED BY <2>5, <5>1 DEF DivError
      <4> QED BY <4>1
    <3>3. Covers(RangeMod(r1, r2, t), Remainder(x, y)) BY <1>3, <3>2, ModCovers
    <3>4. Remainder(x, y) \in Int BY <1>3, <3>2, QuotientInt
    <3> QED BY <3>1, <3>3, <3>4
  <2>6. CASE op \in {"&", "|", "^"} BY <2>6, BitwiseCovers
  <2> QED BY <2>1, <2>2, <2>3, <2>4, <2>5, <2>6 DEF Arithmetic
<1> HIDE DEF of, res
<1> QED BY <1>4, <1>5, <1>6 DEF res

LEMMA CountsTwice ==
    ASSUME NEW r, NEW c \in 0 .. Bits, Covers(r, c)
    PROVE  Counts(Counts(r)) = Counts(r)
<1> DEFINE n == Counts(r)
<1>1. ~n.imin.negative BY CountsCovers
<1> HIDE DEF n
<1>2. Counts(n) = n BY <1>1 DEF Counts
<1> QED BY <1>2 DEF n

LEMMA ShiftSound ==
    ASSUME NEW t \in Types, t # "bool", t # "dchar", NEW op \in Shifts, NEW r1, NEW r2,
           NEW x \in NumbersOf(t), NEW c \in 0 .. Width[t] - 1, Covers(r1, x), Covers(r2, c),
           op # "<<" /\ Counts(r2).imax = FromNat(Bits) => Beyond = "zero",
           "cut" \in Avoided, Reached(op, r1, Counts(r2), t)
    PROVE  Covers(RangeBin(op, r1, r2, t), RunBin(op, x, c, t))
<1> DEFINE res == RunBin(op, x, c, t)
           of == RangeOf(op, r1, r2, t)
           m == Counts(r2)
<1>1. res \in NumbersOf(t) BY ShiftAgrees
<1>2. Covers(FromType(t), res) BY <1>1, FromTypeCovers
<1>3. x \in Int BY AboveLeast
<1>4. Width[t] \in 1 .. Bits /\ Bits \in Nat /\ c \in 0 .. Bits /\ c < Bits /\ c \in Int
  BY TypesAssumption, WordAssumption
<1>5. RangeOf(op, r1, m, t) = of
  <2>1. Counts(m) = m BY <1>4, CountsTwice
  <2> HIDE DEF m
  <2>2. RangeShl(r1, m) = RangeShl(r1, r2) /\ RangeShr(r1, m) = RangeShr(r1, r2)
        /\ RangeUshr(r1, m, t) = RangeUshr(r1, r2, t)
    BY <2>1 DEF m, RangeShl, RangeShr, RangeUshr
  <2> QED BY <2>2 DEF RangeOf, Shifts
<1>6. CASE CastRange(of, t) = FromType(t) BY <1>2, <1>6 DEF RangeBin
<1>7. ASSUME NEW n \in Int, Covers(of, n), Wrapped(n, t) = res
      PROVE  Covers(RangeBin(op, r1, r2, t), res)
  <2> HIDE DEF of, res
  <2>1. Covers(CastRange(of, t), Wrapped(n, t)) BY <1>7, CastRangeCovers
  <2> QED BY <1>7, <2>1 DEF RangeBin, of
<1>8. ASSUME op # "<<" PROVE m.imin.value = Bits \/ m.imax.value = Bits => Beyond = "zero"
  <2>1. /\ ~m.imax.negative /\ m.imin.value <= c /\ m.imin.value \in Nat
    BY <1>4, CountsCovers
  <2>2. m.imax \in Numbers BY <1>4, CountPowers
  <2> HIDE DEF m
  <2>3. m.imin.value # Bits BY <1>4, <2>1
  <2>4. ASSUME m.imax.value = Bits PROVE m.imax = FromNat(Bits)
    <3>1. m.imax.negative = FALSE BY <2>1, <2>2 DEF Numbers
    <3> QED BY <2>2, <2>4, <3>1, NumberFacts DEF FromNat
  <2> QED BY <1>8, <2>3, <2>4 DEF m
<1>9. ASSUME CastRange(of, t) # FromType(t)
      PROVE  \E n \in Int : Covers(of, n) /\ Wrapped(n, t) = res
  <2>1. CASE op = "<<"
    <3>1. \A a \in {r1.imin, r1.imax}, b \in {m.imin, m.imax} :
              Value(a) * 2 ^ Min2(Value(b), Bits) = Saturated(Value(a) * 2 ^ Min2(Value(b), Bits))
      <4> HIDE DEF m, of
      <4> QED BY <1>5, <1>9, <2>1 DEF Reached, m
    <3>2. Covers(RangeShl(r1, r2), x * 2 ^ c) BY <1>3, <1>4, <3>1, ShlCovers
    <3>3. of = RangeShl(r1, r2) /\ res = Wrapped(x * 2 ^ c, t) BY <2>1 DEF RangeOf, RunBin
    <3>4. x * 2 ^ c \in Int
      <4>1. 2 ^ c \in Nat BY <1>4, PowerSteps
      <4> QED BY <1>3, <4>1
    <3> QED BY <3>2, <3>3, <3>4
  <2>2. CASE op = ">>"
    <3>1. Covers(RangeShr(r1, r2), x \div 2 ^ c) BY <1>3, <1>4, <1>8, <2>2, ShrCovers
    <3>2. of = RangeShr(r1, r2) /\ res = Wrapped(x \div 2 ^ c, t) BY <2>2 DEF RangeOf, RunBin
    <3>3. x \div 2 ^ c \in Int
      <4>1. 2 ^ c \in Nat \ {0} BY <1>4, PowerSteps
      <4> QED BY <1>3, <4>1
    <3> QED BY <3>1, <3>2, <3>3
  <2>3. CASE op = ">>>"
    <3> DEFINE u == CastRangeUnsigned(r1, t)
               z == x % 2 ^ Width[t]
    <3>1. u = CastUnsigned(r1, Width[t]) BY DEF CastRangeUnsigned
    <3>2. IsRange(r1) BY DEF Covers
    <3>3. IsRange(u) /\ 0 <= Value(u.imin) /\ Covers(u, z)
      BY <1>3, <1>4, <3>1, <3>2, CastUnsignedCovers
    <3>4. z \in Int /\ z >= 0
      <4>1. 2 ^ Width[t] \in Nat \ {0} BY TypeFacts DEF Size
      <4> QED BY <1>3, <4>1
    <3> HIDE DEF u, z
    <3>5. 0 <= Value(u.imax)
      <4>1. z <= Value(u.imax) BY <3>3 DEF Covers
      <4>2. Value(u.imax) \in Int BY <3>3, NumberFacts DEF IsRange
      <4> QED BY <3>4, <4>1, <4>2
    <3>6. RangeUshr(r1, r2, t) = RangeShr(u, r2) BY <3>3, <3>5, UshrIsShr DEF u
    <3>7. Covers(RangeShr(u, r2), z \div 2 ^ c) BY <1>4, <1>8, <2>3, <3>3, <3>4, ShrCovers
    <3>8. of = RangeUshr(r1, r2, t) /\ res = Wrapped(z \div 2 ^ c, t)
      BY <2>3 DEF RangeOf, RunBin, BitsOf, z
    <3>9. z \div 2 ^ c \in Int
      <4>1. 2 ^ c \in Nat \ {0} BY <1>4, PowerSteps
      <4> QED BY <3>4, <4>1
    <3> QED BY <3>6, <3>7, <3>8, <3>9
  <2> QED BY <2>1, <2>2, <2>3 DEF Shifts
<1> HIDE DEF of, res
<1> QED BY <1>6, <1>7, <1>9 DEF res
-------------------------------------------------------------------------------
(* Expressions: the range found for one holds the number that it is at run   *)
(* time, where none of the four exceptions is made.                          *)
Avoids == {"truth", "character", "count", "cut"} \subseteq Avoided
Sound(e) == Agrees(e) /\ Covers(e.range, e.run)

LEMMA WrappedOwn ==
    ASSUME NEW t \in Types, NEW n \in NumbersOf(t)
    PROVE  /\ n \in Int /\ Wrapped(n, t) = n
           /\ t = "bool" => n \in {0, 1}
<1>1. n \in Int BY AboveLeast
<1>2. CASE t = "bool"
  <2>1. t \in Unsigned /\ Width[t] = 1 BY <1>2, TypesAssumption
  <2>2. Size(t) = 2 /\ Size(t) \in Nat
    <3>1. 2 ^ 0 = 1 /\ 2 ^ (0 + 1) = 2 * 2 ^ 0 BY PowerSteps, WordAssumption
    <3> QED BY <2>1, <3>1 DEF Size
  <2>3. n \in {0, 1} BY <2>1, <2>2 DEF NumbersOf
  <2>4. Wrapped(n, t) = IF n = 0 THEN 0 ELSE 1 BY <1>2, <2>1, TypesAssumption DEF Wrapped
  <2> QED BY <1>1, <2>3, <2>4
<1>3. CASE t # "bool" BY <1>1, <1>3, WrappedSelf
<1> QED BY <1>2, <1>3

LEMMA LiteralSound ==
    ASSUME NEW t \in Types, NEW w \in WordsOf(t)
    PROVE  Sound(Literal(t, w)) /\ Literal(t, w).ty = t
<1> DEFINE n == Meaning(w, t)
           r == Range(FromNat(w), FromNat(w))
<1>1. n \in NumbersOf(t) /\ w = Word(n) /\ (t = "dchar" => n <= LastDchar) BY LeafAgrees
<1> HIDE DEF n
<1>2. n \in Int /\ w \in Words /\ w % Size(t) = n % Size(t) BY <1>1, MeaningOfWord
<1>3. Wrapped(n, t) = n /\ (t = "bool" => n \in {0, 1}) BY <1>1, WrappedOwn
<1>4. w \in Int BY <1>2 DEF Words
<1>5. t = "bool" => w = n
  <2>1. w = IF n < 0 THEN n + Top ELSE n BY <1>1, MeaningOfWord
  <2> QED BY <1>3, <2>1
<1>6. Wrapped(w, t) = n
  <2>1. CASE t = "bool" BY <1>3, <1>5, <2>1
  <2>2. CASE t # "bool"
    <3>1. Wrapped(w, t) = Wrapped(n, t) BY <1>2, <1>4, <2>2, WrappedSame
    <3> QED BY <1>3, <3>1
  <2> QED BY <2>1, <2>2
<1>7. Covers(r, w)
  <2>1. FromNat(w) \in Numbers /\ Value(FromNat(w)) = w BY <1>2, NatFacts
  <2>2. Value(FromNat(w)) <= w /\ w <= Value(FromNat(w)) BY <1>4, <2>1
  <2> QED BY <2>1, <2>2, RangeCovers
<1> HIDE DEF r
<1>8. Covers(CastRange(r, t), n)
  <2>1. t = "bool" => w \in {0, 1} BY <1>3, <1>5
  <2>2. t = "dchar" => Wrapped(w, t) <= LastDchar BY <1>1, <1>6
  <2>3. Covers(CastRange(r, t), Wrapped(w, t)) BY <1>4, <1>7, <2>1, <2>2, CastRangeCovers
  <2> QED BY <1>6, <2>3
<1>9. /\ Literal(t, w).ty = t /\ Literal(t, w).run = n /\ Literal(t, w).folded = w
      /\ Literal(t, w).range = CastRange(r, t)
  BY DEF Literal, Expr, n, r
<1>10. Agrees(Literal(t, w)) BY <1>1, <1>9 DEF Agrees
<1> QED BY <1>8, <1>9, <1>10 DEF Sound

LEMMA VariableSound ==
    ASSUME NEW t \in Types, NEW w \in WordsOf(t)
    PROVE  Sound(Variable(t, w)) /\ Variable(t, w).ty = t
<1>1. /\ Meaning(w, t) \in NumbersOf(t) /\ w = Word(Meaning(w, t))
      /\ t = "dchar" => Meaning(w, t) <= LastDchar
  BY LeafAgrees
<1>2. Covers(FromType(t), Meaning(w, t)) BY <1>1, FromTypeCovers
<1>3. /\ Variable(t, w).ty = t /\ Variable(t, w).run = Meaning(w, t)
      /\ Variable(t, w).folded = w /\ Variable(t, w).range = FromType(t)
  BY DEF Variable, Expr
<1>4. Agrees(Variable(t, w)) BY <1>1, <1>3 DEF Agrees
<1> QED BY <1>2, <1>3, <1>4 DEF Sound

LEMMA LeavesSound ==
    ASSUME NEW t \in Types, NEW e \in Leaves[t]
    PROVE  Sound(e) /\ e.ty = t
<1> DEFINE words == WordsOf(t) \cap Operands[t]
<1>1. e \in {Literal(t, w) : w \in words} \cup {Variable(t, w) : w \in words} BY DEF Leaves
<1>2. PICK w \in WordsOf(t) : e = Literal(t, w) \/ e = Variable(t, w) BY <1>1
<1> QED BY <1>2, LiteralSound, VariableSound

LEMMA CountsSound ==
    ASSUME Avoids
    PROVE  \A n \in ShiftCounts : Sound(n) /\ n.ty = "int"
<1>1. "int" \in Types /\ "int" # "bool" /\ "int" # "dchar" BY TypesAssumption
<1>2. ASSUME NEW w \in WordsOf("int"), NEW mask \in WordsOf("int")
      PROVE  Covers(Apply("&", Variable("int", w), Literal("int", mask)).range,
                    Apply("&", Variable("int", w), Literal("int", mask)).run)
  <2> DEFINE e1 == Variable("int", w)
             e2 == Literal("int", mask)
  <2>1. Sound(e1) /\ e1.ty = "int" /\ Sound(e2) /\ e2.ty = "int"
    BY <1>1, LiteralSound, VariableSound
  <2> HIDE DEF e1, e2
  <2>2. /\ e1.run \in NumbersOf("int") /\ e2.run \in NumbersOf("int")
        /\ Covers(e1.range, e1.run) /\ Covers(e2.range, e2.run)
    BY <2>1 DEF Sound, Agrees
  <2>3. Reached("&", e1.range, e2.range, "int")
    <3>1. 0 = Saturated(0) BY WordAssumption DEF Saturated, AllOnes
    <3> QED BY <3>1 DEF Reached
  <2>4. "&" \in Arithmetic /\ "cut" \in Avoided BY DEF Arithmetic, Avoids
  <2>5. Covers(RangeBin("&", e1.range, e2.range, "int"), RunBin("&", e1.run, e2.run, "int"))
    BY <1>1, <2>2, <2>3, <2>4, BinarySound
  <2>6. /\ Apply("&", e1, e2).range = RangeBin("&", e1.range, e2.range, "int")
        /\ Apply("&", e1, e2).run = RunBin("&", e1.run, e2.run, "int")
    BY <2>1 DEF Apply
  <2> QED BY <2>5, <2>6 DEF e1, e2
<1>3. ASSUME NEW n \in ShiftCounts PROVE Covers(n.range, n.run)
  <2>1. CASE n \in Leaves["int"] BY <1>1, <2>1, LeavesSound DEF Sound
  <2>2. CASE n \notin Leaves["int"] BY <1>2, <2>2 DEF ShiftCounts
  <2> QED BY <2>1, <2>2
<1> QED BY <1>3, CountsAgree DEF Sound

LEMMA TruthIs ==
    ASSUME NEW r, NEW n \in Int, Covers(r, n), Contains(FromType("bool"), r)
    PROVE  n \in {0, 1}
<1> DEFINE t == "bool"
           f == FromType(t)
<1>1. t \in Types /\ t \in Unsigned /\ Width[t] = 1 /\ t # "dchar" BY TypesAssumption
<1>2. 2 ^ Width[t] - 1 = 1
  <2>1. 2 ^ 0 = 1 /\ 2 ^ (0 + 1) = 2 * 2 ^ 0 BY PowerSteps, WordAssumption
  <2> QED BY <1>1, <2>1
<1>3. f = Range(FromNat(0), FromNat(1)) BY <1>1, <1>2 DEF FromType
<1>4. 0 \in Words /\ 1 \in Words BY WordAssumption DEF Words, AllOnes
<1>5. /\ f.imin \in Numbers /\ Value(f.imin) = 0 /\ f.imax \in Numbers /\ Value(f.imax) = 1
  <2>1. f.imin = FromNat(0) /\ f.imax = FromNat(1) BY <1>3 DEF Range
  <2> HIDE DEF f
  <2> QED BY <1>4, <2>1, NatFacts
<1>6. LessEq(f.imin, r.imin) /\ LessEq(r.imax, f.imax) BY DEF Contains
<1> HIDE DEF f
<1>7. r.imin \in Numbers /\ r.imax \in Numbers /\ Value(r.imin) <= n /\ n <= Value(r.imax)
  BY DEF Covers, IsRange
<1>8. 0 <= Value(r.imin) /\ Value(r.imax) <= 1 BY <1>5, <1>6, <1>7, LessEqIs
<1>9. Value(r.imin) \in Int /\ Value(r.imax) \in Int BY <1>7, NumberFacts
<1> QED BY <1>7, <1>8, <1>9

LEMMA InitSound == Init => Covers(range, run)
<1> SUFFICES ASSUME Init PROVE Covers(range, run) OBVIOUS
<1>1. PICK t \in Types : \E e \in Leaves[t] :
          ty = e.ty /\ folded = e.folded /\ run = e.run /\ range = e.range
  BY DEF Init
<1>2. PICK e \in Leaves[t] : run = e.run /\ range = e.range BY <1>1
<1> QED BY <1>2, LeavesSound DEF Sound

LEMMA NextSound ==
    ASSUME Avoids, Agrees(Now), Covers(range, run), [Next]_vars
    PROVE  Covers(range, run)'
<1>1. /\ Now.ty = ty /\ Now.run = run /\ Now.folded = folded /\ Now.range = range
      /\ ty \in Types /\ run \in NumbersOf(ty) /\ folded = Word(run)
      /\ ty = "dchar" => run <= LastDchar
  BY DEF Now, Agrees, Avoids
<1>2. run \in Int /\ -Top < run BY <1>1, AboveLeast
<1>3. ASSUME NEW e, Becomes(e), Covers(e.range, e.run) PROVE Covers(range, run)'
  <2>1. run' = e.run /\ range' = e.range BY <1>3 DEF Becomes
  <2> QED BY <1>3, <2>1
<1>4. ASSUME NEW t \in Types, Cast(t) PROVE Covers(range, run)'
  <2>1. Becomes(CastTo(t, Now)) /\ Truth(t) /\ Character(t) BY <1>4 DEF Cast
  <2>2. CastTo(t, Now).run = Wrapped(run, t) /\ CastTo(t, Now).range = CastRange(range, t)
    BY <1>1 DEF CastTo
  <2>3. t = "bool" => run \in {0, 1} BY <1>2, <2>1, TruthIs DEF Truth, Avoids
  <2>4. t = "dchar" => Wrapped(run, t) <= LastDchar BY <2>1 DEF Character, Avoids
  <2>5. Covers(CastRange(range, t), Wrapped(run, t)) BY <1>2, <2>3, <2>4, CastRangeCovers
  <2> QED BY <1>3, <2>1, <2>2, <2>5
<1>5. ASSUME NEW op \in Arithmetic, NEW e \in Leaves[ty], Binary(op, e) \/ BinaryRight(op, e)
      PROVE  Covers(range, run)'
  <2>1. /\ e.ty = ty /\ e.run \in NumbersOf(ty) /\ e.folded = Word(e.run)
        /\ Covers(e.range, e.run)
    BY <1>1, LeavesSound DEF Sound, Agrees
  <2>2. ty # "bool" /\ ty # "dchar" BY <1>5, PromotedTypes DEF Binary, BinaryRight
  <2>3. "cut" \in Avoided BY DEF Avoids
  <2>4. CASE Binary(op, e)
    <3>1. /\ ~Undefined(op, Now, e) /\ Reached(op, range, e.range, ty)
          /\ Becomes(Apply(op, Now, e))
      BY <2>4 DEF Binary
    <3>2. op \in {"/", "%"} => ~DivError(Word(run), Word(e.run), ty)
      BY <1>1, <2>1, <3>1 DEF Undefined
    <3>3. Covers(RangeBin(op, range, e.range, ty), RunBin(op, run, e.run, ty))
      BY <1>1, <2>1, <2>2, <2>3, <3>1, <3>2, BinarySound
    <3>4. /\ Apply(op, Now, e).run = RunBin(op, run, e.run, ty)
          /\ Apply(op, Now, e).range = RangeBin(op, range, e.range, ty)
      BY <1>1 DEF Apply
    <3> QED BY <1>3, <3>1, <3>3, <3>4
  <2>5. CASE BinaryRight(op, e)
    <3>1. /\ ~Undefined(op, e, Now) /\ Reached(op, e.range, range, ty)
          /\ Becomes(Apply(op, e, Now))
      BY <2>5 DEF BinaryRight
    <3>2. op \in {"/", "%"} => ~DivError(Word(e.run), Word(run), ty)
      BY <1>1, <2>1, <3>1 DEF Undefined
    <3>3. Covers(RangeBin(op, e.range, range, ty), RunBin(op, e.run, run, ty))
      BY <1>1, <2>1, <2>2, <2>3, <3>1, <3>2, BinarySound
    <3>4. /\ Apply(op, e, Now).run = RunBin(op, e.run, run, ty)
          /\ Apply(op, e, Now).range = RangeBin(op, e.range, range, ty)
      BY <1>1, <2>1 DEF Apply
    <3> QED BY <1>3, <3>1, <3>3, <3>4
  <2> QED BY <1>5, <2>4, <2>5
<1>6. ASSUME NEW op \in Shifts, NEW n \in ShiftCounts, Shift(op, n) PROVE Covers(range, run)'
  <2>1. ty # "bool" /\ ty # "dchar" BY <1>6, PromotedTypes DEF Shift
  <2>2. Covers(n.range, n.run) /\ n.run \in NumbersOf("int") /\ "int" \in Types
    BY CountsSound, TypesAssumption DEF Sound, Agrees
  <2>3. n.run \in 0 .. Width[ty] - 1
    <3>1. Width[ty] \in Int /\ n.run \in Int BY <1>1, <2>2, AboveLeast, TypeFacts, WordAssumption
    <3>2. n.run >= 0 /\ n.run < Width[ty] BY <1>6 DEF Shift, CountFits
    <3> QED BY <3>1, <3>2
  <2>4. Steady(op, n) /\ Reached(op, range, Counts(n.range), ty) /\ Becomes(Apply(op, Now, n))
    BY <1>6 DEF Shift
  <2>5. op # "<<" /\ Counts(n.range).imax = FromNat(Bits) => Beyond = "zero"
    BY <2>4 DEF Steady, Avoids
  <2>6. "cut" \in Avoided BY DEF Avoids
  <2>7. Covers(RangeBin(op, range, n.range, ty), RunBin(op, run, n.run, ty))
    BY <1>1, <2>1, <2>2, <2>3, <2>4, <2>5, <2>6, ShiftSound
  <2>8. /\ Apply(op, Now, n).run = RunBin(op, run, n.run, ty)
        /\ Apply(op, Now, n).range = RangeBin(op, range, n.range, ty)
    BY <1>1 DEF Apply
  <2> QED BY <1>3, <2>4, <2>7, <2>8
<1>7. CASE Complement
  <2> DEFINE e == [ty |-> ty, folded |-> FoldCom(folded, ty), run |-> Wrapped(-run - 1, ty),
                   range |-> CastRange(RangeCom(range), ty)]
  <2>1. ty # "bool" /\ ty # "dchar" /\ Becomes(e) BY <1>7, PromotedTypes DEF Complement
  <2>2. Covers(RangeCom(range), -run - 1) /\ -run - 1 \in Int BY <1>2, ComCovers
  <2>3. Covers(CastRange(RangeCom(range), ty), Wrapped(-run - 1, ty))
    BY <1>1, <2>1, <2>2, CastRangeCovers
  <2> QED BY <1>3, <2>1, <2>3
<1>8. CASE Negation
  <2> DEFINE e == [ty |-> ty, folded |-> FoldNeg(folded, ty), run |-> Wrapped(-run, ty),
                   range |-> CastRange(RangeNeg(range), ty)]
  <2>1. ty # "bool" /\ ty # "dchar" /\ Becomes(e) BY <1>8, PromotedTypes DEF Negation
  <2>2. Covers(RangeNeg(range), -run) /\ -run \in Int BY <1>2, NegCovers
  <2>3. Covers(CastRange(RangeNeg(range), ty), Wrapped(-run, ty))
    BY <1>1, <2>1, <2>2, CastRangeCovers
  <2> QED BY <1>3, <2>1, <2>3
<1>9. ASSUME NEW e \in Leaves[ty], Either(e) PROVE Covers(range, run)'
  <2> DEFINE u == UnionWith(range, e.range)
  <2>1. range' = CastRange(u, ty) /\ run' = run BY <1>9 DEF Either, Becomes, Now
  <2>2. IsRange(range) /\ IsRange(e.range) BY <1>1, LeavesSound DEF Sound, Covers
  <2>3. Covers(u, run) BY <1>2, <2>2, UnionWithCovers
  <2>4. Wrapped(run, ty) = run /\ (ty = "bool" => run \in {0, 1}) BY <1>1, WrappedOwn
  <2> HIDE DEF u
  <2>5. Covers(CastRange(u, ty), Wrapped(run, ty)) BY <1>1, <1>2, <2>3, <2>4, CastRangeCovers
  <2> QED BY <2>1, <2>4, <2>5
<1>10. ASSUME NEW upr \in Leaves[ty], NEW word \in WordsOf(ty), Foreach(upr, word)
       PROVE  Covers(range, run)'
  <2> DEFINE n == Meaning(word, ty)
             last == Subtract(upr.range.imax, FromNat(1))
             r == IF LessEq(range.imin, upr.range.imax) THEN CastRange(Range(range.imin, last), ty)
                  ELSE FromType(ty)
  <2>1. run' = n /\ range' = r /\ ty \in Promoted /\ run <= n /\ n < upr.run
    BY <1>10 DEF Foreach, Becomes, Expr
  <2>2. n \in NumbersOf(ty) /\ ty # "bool" /\ ty # "dchar" BY <1>1, <2>1, LeafAgrees, PromotedTypes
  <2>3. n \in Int /\ -Top < n /\ Wrapped(n, ty) = n BY <1>1, <2>2, AboveLeast, WrappedOwn
  <2>4. Covers(upr.range, upr.run) /\ upr.run \in Int
    BY <1>1, LeavesSound, AboveLeast DEF Sound, Agrees
  <2> HIDE DEF n
  <2>5. Covers(Range(range.imin, last), n)
    <3>1. /\ range.imin \in Numbers /\ Value(range.imin) <= run
          /\ upr.range.imax \in Numbers /\ upr.run <= Value(upr.range.imax)
      BY <2>4 DEF Covers, IsRange
    <3>2. FromNat(1) \in Numbers /\ Value(FromNat(1)) = 1
      <4>1. 1 \in Words BY WordAssumption DEF Words, AllOnes
      <4> QED BY <4>1, NatFacts
    <3>3. last \in Numbers /\ Value(last) = Saturated(Value(upr.range.imax) - 1)
      BY <3>1, <3>2, SubtractSaturates
    <3> HIDE DEF last
    <3> DEFINE m == Value(upr.range.imax)
    <3>4. m \in Int /\ m < Top /\ Value(range.imin) \in Int BY <3>1, NumberFacts
    <3> HIDE DEF m
    <3>5. n <= m - 1 BY <2>1, <2>3, <2>4, <3>1, <3>4 DEF m
    <3>6. Saturated(m - 1) = m - 1 BY <2>3, <3>4, <3>5, WordAssumption DEF Saturated, AllOnes
    <3>7. n <= Value(last) BY <3>3, <3>5, <3>6 DEF m
    <3>8. Value(range.imin) <= n BY <1>2, <2>1, <2>3, <3>1, <3>4
    <3> QED BY <3>1, <3>3, <3>7, <3>8, RangeCovers
  <2> HIDE DEF last
  <2>6. CASE LessEq(range.imin, upr.range.imax)
    <3>1. r = CastRange(Range(range.imin, last), ty) BY <2>6
    <3>2. Covers(CastRange(Range(range.imin, last), ty), Wrapped(n, ty))
      BY <1>1, <2>2, <2>3, <2>5, CastRangeCovers
    <3> QED BY <2>1, <2>3, <3>1, <3>2
  <2>7. CASE ~LessEq(range.imin, upr.range.imax)
    <3>1. r = FromType(ty) BY <2>7
    <3> QED BY <1>1, <2>1, <2>2, <3>1, FromTypeCovers
  <2> QED BY <2>6, <2>7
<1>11. CASE UNCHANGED vars BY <1>11 DEF vars
<1> QED BY <1>4, <1>5, <1>6, <1>7, <1>8, <1>9, <1>10, <1>11 DEF Next

(* The inductive invariant: the word that an expression folds to is the one  *)
(* of the number at run time, and the range holds that number.               *)
AlwaysSound == Agrees(Now) /\ Covers(range, run)

LEMMA SoundAlways ==
    ASSUME Avoids
    PROVE  Spec => []AlwaysSound
<1>1. Init => AlwaysSound BY InitAgrees, InitSound DEF AlwaysSound
<1>2. AlwaysSound /\ [Next]_vars => AlwaysSound'
  <2> SUFFICES ASSUME AlwaysSound, [Next]_vars PROVE AlwaysSound' OBVIOUS
  <2>1. Agrees(Now) /\ Covers(range, run) BY DEF AlwaysSound
  <2>2. Agrees(Now)' BY <2>1, NextAgrees
  <2>3. Covers(range, run)' BY <2>1, NextSound
  <2> QED BY <2>2, <2>3 DEF AlwaysSound
<1> QED BY <1>1, <1>2, PTL DEF Spec

(* No expression has a value outside the range that was found for it,        *)
(* whatever the widths of the types and the operands are, where the casts    *)
(* and operators of which the range is known to be wrong are not made        *)
(* (RangeSound: intrange.c and the IntRangeVisitor of cast.c).               *)
THEOREM RangesSound ==
    ASSUME Avoids
    PROVE  Spec => []RangeSound
<1>1. AlwaysSound => RangeSound BY DEF AlwaysSound, Covers, RangeSound
<1> QED BY <1>1, SoundAlways, PTL

(* The operations on the bounds of every range that is found saturate at     *)
(* both ends and are exact elsewhere, whatever the other operand is          *)
(* (Saturates: struct SignExtendedNumber).                                   *)
THEOREM AlwaysSaturates ==
    ASSUME Avoids
    PROVE  Spec => []Saturates
<1>1. AlwaysSound => Saturates
  <2> SUFFICES ASSUME AlwaysSound, NEW a \in {range.imin, range.imax}, NEW b \in Numbers
               PROVE  /\ Value(Plus(a, b)) = Saturated(Value(a) + Value(b))
                      /\ Value(Subtract(a, b)) = Saturated(Value(a) - Value(b))
                      /\ Value(Times(a, b)) = Saturated(Value(a) * Value(b))
                      /\ Value(b) # 0 =>
                             Value(Divide(a, b)) = Saturated(Quotient(Value(a), Value(b)))
                      /\ Less(a, b) <=> Value(a) < Value(b)
    BY DEF Saturates
  <2>1. a \in Numbers BY DEF AlwaysSound, Covers, IsRange
  <2> QED BY <2>1, PlusSaturates, SubtractSaturates, TimesSaturates, DivideSaturates, LessIsLess
<1> QED BY <1>1, SoundAlways, PTL
===============================================================================
