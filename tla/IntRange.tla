------------------------------ MODULE IntRange ------------------------------
(* dfrontend/intrange.c, struct IntRange, and the class IntRangeVisitor of   *)
(* dfrontend/cast.c, which finds for an expression the range that its value  *)
(* is in.  A range that fits decides that an expression converts to a        *)
(* narrower type without a cast, and that an array index is not checked.     *)
EXTENDS SignExtendedNumber

CONSTANTS
    Width,         \* the integral types, each with its bits (Type::sizemask)
    Unsigned,      \* those for which Type::isunsigned holds
    LastDchar      \* the highest character, 0x10FFFF

Types == DOMAIN Width

ASSUME TypesAssumption ==
    /\ Width \in [Types -> 1 .. Bits] /\ Unsigned \subseteq Types
    /\ {"bool", "dchar"} \subseteq Unsigned /\ "int" \in Types \ Unsigned
    /\ Width["bool"] = 1 /\ LastDchar \in 0 .. 2 ^ Width["dchar"] - 1

(* The bitwise operators on words, from the lowest bit up *)
WordAndTable[a \in Words] ==
    [b \in Words |-> IF a = 0 THEN 0
                     ELSE 2 * WordAndTable[a \div 2][b \div 2] + (a % 2) * (b % 2)]
WordAnd(a, b) == WordAndTable[a][b]
WordOr(a, b) == a + b - WordAnd(a, b)
WordXor(a, b) == a + b - 2 * WordAnd(a, b)

Range(imin, imax) == [imin |-> imin, imax |-> imax]
Lower(a, b) == IF Less(a, b) THEN a ELSE b
Higher(a, b) == IF Less(a, b) THEN b ELSE a
Contains(r, a) == LessEq(r.imin, a.imin) /\ LessEq(a.imax, r.imax)
ContainsZero(r) == (r.imin.negative /\ ~r.imax.negative) \/ (~r.imin.negative /\ r.imin.value = 0)
UnionWith(r, a) == Range(Lower(r.imin, a.imin), Higher(r.imax, a.imax))

FromNumbers4(a, b, c, d) ==
    Range(Lower(Lower(a, b), Lower(c, d)), Higher(Higher(a, b), Higher(c, d)))

(* IntRange::castUnsigned: mask + 1 is 2 ^ bits.  A range within one chunk   *)
(* of that length is moved, any other becomes the whole.                     *)
CastUnsigned(r, bits) ==
    LET Chunk(a) == <<a.value \div 2 ^ bits, a.negative>>
    IN  IF Chunk(r.imin) = Chunk(r.imax)
        THEN Range(FromNat(r.imin.value % 2 ^ bits), FromNat(r.imax.value % 2 ^ bits))
        ELSE Range(FromNat(0), FromNat(2 ^ bits - 1))

(* IntRange::castSigned: the chunks start half their length lower, and the   *)
(* last one before Greatest has a sign of its own, -1.                       *)
CastSigned(r, bits) ==
    LET half == 2 ^ (bits - 1)
        Chunk(a) ==
            LET low == a.value - (a.value % half)
                up == (low \div half) % 2 = 1
                chunk == IF up THEN Word(low + half) ELSE low
            IN  <<chunk, (IF a.negative THEN 1 ELSE 0) - (IF up /\ chunk = 0 THEN 1 ELSE 0)>>
        Moved(a) ==
            LET value == a.value % 2 ^ bits
            IN  Number(IF value >= half THEN Word(value - 2 ^ bits) ELSE value, value >= half)
    IN  IF Chunk(r.imin) = Chunk(r.imax) THEN Range(Moved(r.imin), Moved(r.imax))
        ELSE Range(Number(Word(-half), TRUE), FromNat(half - 1))

CastDchar(r) ==
    LET u == CastUnsigned(r, Width["dchar"])
        Cut(a) == IF a.value > LastDchar THEN FromNat(LastDchar) ELSE a
    IN  Range(Cut(u.imin), Cut(u.imax))

CastRange(r, t) ==
    CASE t \notin Unsigned -> CastSigned(r, Width[t])
      [] t = "dchar" -> CastDchar(r)
      [] OTHER -> CastUnsigned(r, Width[t])
CastRangeUnsigned(r, t) == IF t = "dchar" THEN CastDchar(r) ELSE CastUnsigned(r, Width[t])

FromType(t) ==
    LET half == 2 ^ (Width[t] - 1)
    IN  CASE t = "dchar" -> Range(FromNat(0), FromNat(LastDchar))
          [] t \notin Unsigned -> Range(Number(Word(-half), TRUE), FromNat(half - 1))
          [] OTHER -> Range(FromNat(0), FromNat(2 ^ Width[t] - 1))

AbsNeg(r) ==
    CASE r.imax.negative -> r
      [] ~r.imax.negative /\ ~r.imin.negative -> Range(Negate(r.imax), Negate(r.imin))
      [] ~r.imax.negative /\ r.imin.negative -> Range(Lower(Negate(r.imax), r.imin), FromNat(0))

(* splitBySign and the calls of unionOrAssign for the halves there are *)
Halves(r) ==
    (IF r.imin.negative THEN {Range(r.imin, IF r.imax.negative THEN r.imax ELSE Minus(1))} ELSE {})
        \cup (IF ~r.imax.negative THEN {Range(IF r.imin.negative THEN FromNat(0) ELSE r.imin, r.imax)} ELSE {})
UnionOf(rs) ==
    LET mins == {r.imin : r \in rs}
        maxs == {r.imax : r \in rs}
    IN  Range(CHOOSE a \in mins : \A b \in mins : LessEq(a, b),
              CHOOSE a \in maxs : \A b \in maxs : LessEq(b, a))
-----------------------------------------------------------------------------
(* IntRangeVisitor: the ranges of the operators, from those of the operands. *)
(* GetMask rounds up to all ones; DiffMask has the bits that vary in r.      *)
GetMask(v) == CHOOSE m \in {2 ^ n - 1 : n \in 0 .. Bits} : v <= m /\ 2 * v >= m
DiffMask(r) == GetMask(WordXor(r.imin.value, r.imax.value))
Fixed(word, mask) == WordAnd(word, AllOnes - mask)
Max2(a, b) == IF a < b THEN b ELSE a
Min2(a, b) == IF a < b THEN a ELSE b

BitwiseAnd(a, b) ==
    LET negative == a.imin.negative /\ b.imin.negative
        high == WordAnd(WordOr(a.imax.value, DiffMask(a)), WordOr(b.imax.value, DiffMask(b)))
    IN  Range(Number(WordAnd(Fixed(a.imin.value, DiffMask(a)), Fixed(b.imin.value, DiffMask(b))), negative),
              Number(Min2(high, Min2(a.imax.value, b.imax.value)), negative))

BitwiseOr(a, b) ==
    LET negative == a.imin.negative \/ b.imin.negative
        low == WordOr(Fixed(a.imin.value, DiffMask(a)), Fixed(b.imin.value, DiffMask(b)))
        both == GetMask(WordAnd(a.imax.value, b.imax.value))
    IN  Range(Number(Max2(low, Max2(a.imin.value, b.imin.value)), negative),
              Number(WordOr(WordOr(a.imax.value, b.imax.value), both), negative))

BitwiseXor(a, b) ==
    LET negative == a.imin.negative # b.imin.negative
        mask == WordOr(DiffMask(a), DiffMask(b))
    IN  Range(Number(Fixed(WordXor(a.imin.value, b.imin.value), mask), negative),
              Number(WordOr(WordXor(a.imax.value, b.imax.value), mask), negative))

RangeBitwise(op, r1, r2) ==
    UnionOf({CASE op = "&" -> BitwiseAnd(a, b)
               [] op = "|" -> BitwiseOr(a, b)
               [] op = "^" -> BitwiseXor(a, b) : a \in Halves(r1), b \in Halves(r2)})

RangeAdd(r1, r2) == Range(Plus(r1.imin, r2.imin), Plus(r1.imax, r2.imax))
\* Seeded fault: the bounds of the subtrahend are not exchanged.
RangeMin_NotCrossed(r1, r2) == Range(Subtract(r1.imin, r2.imin), Subtract(r1.imax, r2.imax))
RangeMin(r1, r2) == Range(Subtract(r1.imin, r2.imax), Subtract(r1.imax, r2.imin))
RangeMul(r1, r2) ==
    FromNumbers4(Times(r1.imin, r2.imin), Times(r1.imin, r2.imax),
                 Times(r1.imax, r2.imin), Times(r1.imax, r2.imax))

RangeDiv(r1, r2, t) ==
    IF ContainsZero(r2) THEN FromType(t)
    ELSE FromNumbers4(Divide(r1.imin, r2.imin), Divide(r1.imin, r2.imax),
                      Divide(r1.imax, r2.imin), Divide(r1.imax, r2.imax))

(* The remainder is smaller than the largest divisor, with the sign of the   *)
(* dividend.  den is minus the largest remainder.                            *)
RangeMod(r1, r2, t) ==
    LET den == Increment(AbsNeg(r2).imin)
        low == IF ~r1.imin.negative THEN FromNat(0) ELSE Higher(r1.imin, den)
        high == IF r1.imax.negative THEN FromNat(0) ELSE Lower(r1.imax, Negate(den))
    IN  IF ~AbsNeg(r2).imin.negative THEN FromType(t) ELSE Range(low, high)

Counts(r2) == IF r2.imin.negative THEN Range(FromNat(0), FromNat(Bits)) ELSE r2
RangeShl(r1, r2) ==
    LET n == Counts(r2)
    IN  Range(ShiftLeft(r1.imin, IF r1.imin.negative THEN n.imax ELSE n.imin),
              ShiftLeft(r1.imax, IF r1.imax.negative THEN n.imin ELSE n.imax))
RangeShr(r1, r2) ==
    LET n == Counts(r2)
    IN  Range(ShiftRight(r1.imin, IF r1.imin.negative THEN n.imin ELSE n.imax),
              ShiftRight(r1.imax, IF r1.imax.negative THEN n.imax ELSE n.imin))
RangeUshr(r1, r2, t1) ==
    LET n == Counts(r2)
        u == CastRangeUnsigned(r1, t1)
    IN  Range(ShiftRight(u.imin, n.imax), ShiftRight(u.imax, n.imin))

RangeCom(r) ==
    LET Com(a) == Number(AllOnes - a.value, ~a.negative)
    IN  Range(Com(r.imax), Com(r.imin))
RangeNeg(r) == Range(Negate(r.imax), Negate(r.imin))

(* visit of a binary operator whose operands have ranges r1, r2 and types    *)
(* t1 and, but for shifts, t1 too                                            *)
RangeOf(op, r1, r2, t1) ==
    CASE op = "+" -> RangeAdd(r1, r2)
      [] op = "-" -> RangeMin(r1, r2)
      [] op = "*" -> RangeMul(r1, r2)
      [] op = "/" -> RangeDiv(r1, r2, t1)
      [] op = "%" -> RangeMod(r1, r2, t1)
      [] op \in {"&", "|", "^"} -> RangeBitwise(op, r1, r2)
      [] op = "<<" -> RangeShl(r1, r2)
      [] op = ">>" -> RangeShr(r1, r2)
      [] op = ">>>" -> RangeUshr(r1, r2, t1)
RangeBin(op, r1, r2, t1) == CastRange(RangeOf(op, r1, r2, t1), t1)
=============================================================================
