------------------------- MODULE SignExtendedNumber -------------------------
(* dfrontend/intrange.c, struct SignExtendedNumber: integers of one bit more *)
(* than the widest integer type, in which the front end does the arithmetic  *)
(* on the bounds of ranges.  A number is its lower word and its sign; the    *)
(* operations are to saturate at both ends and never to wrap.                *)
EXTENDS Integers

CONSTANTS
    Bits,       \* the width of uinteger_t, 64 in the code
    Beyond      \* what x >> n gives where n is the width: "same" on x86, or "zero"

Top == 2 ^ Bits
ASSUME WordAssumption == Bits \in Nat \ {0} /\ Top \in Nat \ {0, 1} /\ Beyond \in {"same", "zero"}

(* What powers are, which the provers do not know                            *)
ASSUME PowersAssumption ==
    2 ^ 0 = 1 /\ \A n \in 0 .. Bits : 2 ^ n \in Nat /\ 2 ^ (n + 1) = 2 * 2 ^ n

(* uinteger_t *)
AllOnes == Top - 1                                 \* UINT64_MAX
Words == 0 .. AllOnes
Word(n) == n % Top

Number(value, negative) == [value |-> value, negative |-> negative]
Numbers == [value : Words, negative : BOOLEAN]
FromNat(value) == Number(value, FALSE)
Minus(value) == Number(Word(-value), TRUE)      \* SignExtendedNumber(-value, true)
Least == Number(0, TRUE)                        \* SignExtendedNumber::min
Greatest == Number(AllOnes, FALSE)                 \* SignExtendedNumber::max
Extreme(minimum) == IF minimum THEN Least ELSE Greatest
IsMinimum(a) == a.negative /\ a.value = 0

Less(a, b) == (a.negative /\ ~b.negative) \/ (a.negative = b.negative /\ a.value < b.value)
LessEq(a, b) == ~Less(b, a)

CopySign(x, sign) == IF sign THEN Word(-x) ELSE x

Negate(a) ==
    IF a.value = 0 THEN FromNat(IF a.negative THEN AllOnes ELSE 0)
    ELSE Number(Word(-a.value), ~a.negative)

\* Seeded fault: the sum of two numbers of one sign wraps.
Plus_Wraps(a, b) ==
    LET sum == Word(a.value + b.value)
    IN  IF a.negative = b.negative THEN Number(sum, a.negative)
        ELSE Number(sum, ~(sum < a.value /\ sum < b.value))
Plus(a, b) ==
    LET sum == Word(a.value + b.value)
        carry == sum < a.value /\ sum < b.value
    IN  CASE a.negative # b.negative -> Number(sum, ~carry)
          [] a.negative /\ b.negative -> Number(IF carry THEN sum ELSE 0, TRUE)
          [] ~a.negative /\ ~b.negative -> FromNat(IF carry THEN AllOnes ELSE sum)

Subtract(a, b) ==
    IF ~IsMinimum(b) THEN Plus(a, Negate(b))
    ELSE IF a.negative THEN FromNat(a.value) ELSE Greatest

(* operator*, whose first operand is the zero or Least if there is one *)
TimesZero(a, b) ==
    CASE ~a.negative -> a
      [] a.negative /\ b.negative -> Greatest
      [] a.negative /\ ~b.negative -> IF b.value = 0 THEN b ELSE a

Times(a, b) ==
    LET aAbs == CopySign(a.value, a.negative)
        bAbs == CopySign(b.value, b.negative)
        negative == a.negative # b.negative
    IN  CASE a.value = 0 -> TimesZero(a, b)
          [] a.value # 0 /\ b.value = 0 -> TimesZero(b, a)
          [] OTHER -> IF AllOnes \div aAbs < bAbs THEN Extreme(negative)
                      ELSE Number(CopySign(aAbs * bAbs, negative), negative)

Divide(a, b) ==
    LET bAbs == CopySign(b.value, b.negative)
        power == \E n \in 0 .. Bits : bAbs = 2 ^ n
        quotient == IF ~IsMinimum(a) THEN CopySign(a.value, a.negative) \div bAbs
                    ELSE IF power THEN Top \div bAbs ELSE AllOnes \div bAbs
        negative == a.negative # b.negative
    IN  CASE b.value = 0 /\ b.negative -> FromNat(IF IsMinimum(a) THEN 1 ELSE 0)
          [] b.value = 0 /\ ~b.negative -> Extreme(a.negative)
          [] b.value # 0 /\ IsMinimum(a) /\ bAbs = 1 -> Extreme(~b.negative)
          [] OTHER -> Number(CopySign(quotient, negative), quotient # 0 /\ negative)

Increment(a) ==
    IF a.value # AllOnes THEN Number(a.value + 1, a.negative)
    ELSE IF a.negative THEN FromNat(0) ELSE a

(* operator<<: the highest bit of the absolute value says how far it goes *)
ShiftLeft(a, n) ==
    LET v == CopySign(a.value, a.negative)
        highest == CHOOSE r \in 0 .. Bits - 1 : 2 ^ r <= v /\ v < 2 ^ (r + 1)
    IN  CASE a.value = 0 -> a
          [] a.value # 0 /\ n.negative -> Extreme(a.negative)
          [] OTHER -> IF n.value > Bits - 1 - highest THEN Extreme(a.negative)
                      ELSE Number(Word(a.value * 2 ^ n.value), a.negative)

(* operator>>; shifting a word by its width is undefined in C++ *)
ShiftRight(a, n) ==
    LET word == IF a.negative THEN AllOnes - a.value ELSE a.value
        shifted == IF n.value < Bits THEN word \div 2 ^ n.value
                   ELSE IF Beyond = "same" THEN word ELSE 0
    IN  CASE n.negative \/ n.value > Bits -> IF a.negative THEN Minus(1) ELSE FromNat(0)
          [] ~n.negative /\ n.value <= Bits /\ IsMinimum(a) ->
                IF n.value = 0 THEN a ELSE Number(Word(-(2 ^ (Bits - n.value))), TRUE)
          [] OTHER -> Number(IF a.negative THEN AllOnes - shifted ELSE shifted, a.negative)
-----------------------------------------------------------------------------
(* The number that is meant, and a number cut off at the ends *)
Value(a) == IF a.negative THEN a.value - Top ELSE a.value
Saturated(n) == IF n < -Top THEN -Top ELSE IF n > AllOnes THEN AllOnes ELSE n
=============================================================================
