------------------------------ MODULE ConstFold -----------------------------
(* Constant folding of integers (dfrontend/constfold.c, with                 *)
(* IntegerExp::normalize and the checks of optimize.c), which the optimizer  *)
(* and the interpreter share, and the same operators in compiled code        *)
(* (gcc/d/expr.cc, build_binary_op).  IntegerExp::value is a word of the     *)
(* widest type, whatever the type of the expression.                         *)
EXTENDS IntRange

(* IntegerExp::normalize: a word cut to the type and extended to a word *)
Normalize(word, t) ==
    LET low == word % 2 ^ Width[t]
    IN  CASE t = "bool" -> IF word = 0 THEN 0 ELSE 1
          [] t # "bool" /\ t \in Unsigned -> low
          [] t \notin Unsigned -> IF low >= 2 ^ (Width[t] - 1) THEN Word(low - 2 ^ Width[t]) ELSE low

(* sinteger_t: a word as a signed number *)
Signed(word) == IF word >= Top \div 2 THEN word - Top ELSE word

(* The value of an IntegerExp: what it stands for in its type *)
Meaning(word, t) == IF t \in Unsigned THEN word ELSE Signed(word)

(* Division of integers, towards zero *)
Abs(n) == IF n < 0 THEN -n ELSE n
Quotient(a, b) == IF (a < 0) = (b < 0) THEN Abs(a) \div Abs(b) ELSE -(Abs(a) \div Abs(b))
Remainder(a, b) == a - b * Quotient(a, b)

(* Div and Mod; what they report as an error, and the one division that no   *)
(* machine can do, are in DivError.                                          *)
DivError(a, b, t) ==
    b = 0 \/ (t \notin Unsigned /\ Signed(b) = -1 /\ Signed(a) = -(2 ^ (Width[t] - 1)))
FoldDiv(a, b, t) ==
    Word(IF t \in Unsigned THEN a \div b ELSE Quotient(Signed(a), Signed(b)))
FoldMod(a, b, t) ==
    Word(IF t \in Unsigned THEN a % b ELSE Remainder(Signed(a), Signed(b)))

(* Add, Min, Mul and Shl are the operations of unsigned words in C++. *)
FoldAdd(a, b) == Word(a + b)
FoldMin(a, b) == Word(a - b)
FoldMul(a, b) == Word(a * b)
FoldShl(a, n) == Word(a * 2 ^ n)

(* Shr and Ushr look at the type of the first operand. *)
FoldShr(a, n, t) == Word(Meaning(Normalize(a, t), t) \div 2 ^ n)
\* Seeded fault: the sign bits of the word come in from above.
FoldUshr_WholeWord(a, n, t) == a \div 2 ^ n
FoldUshr(a, n, t) == (a % 2 ^ Width[t]) \div 2 ^ n

(* shift_optimize refuses other counts. *)
CountFits(n, t) == n < Width[t]

FoldBin(op, a, b, t) ==
    Normalize(CASE op = "+" -> FoldAdd(a, b)
                [] op = "-" -> FoldMin(a, b)
                [] op = "*" -> FoldMul(a, b)
                [] op = "/" -> FoldDiv(a, b, t)
                [] op = "%" -> FoldMod(a, b, t)
                [] op = "&" -> WordAnd(a, b)
                [] op = "|" -> WordOr(a, b)
                [] op = "^" -> WordXor(a, b)
                [] op = "<<" -> FoldShl(a, b)
                [] op = ">>" -> FoldShr(a, b, t)
                [] op = ">>>" -> FoldUshr(a, b, t), t)
FoldNeg(a, t) == Normalize(Word(-a), t)
FoldCom(a, t) == Normalize(AllOnes - a, t)
-----------------------------------------------------------------------------
(* Compiled code keeps the number itself, in a register of the type: GENERIC *)
(* (-fwrapv) computes it and keeps what fits.                                *)
Wrapped(n, t) ==
    LET low == n % 2 ^ Width[t]
    IN  CASE t = "bool" -> IF n = 0 THEN 0 ELSE 1
          [] t # "bool" /\ t \in Unsigned -> low
          [] t \notin Unsigned -> IF low >= 2 ^ (Width[t] - 1) THEN low - 2 ^ Width[t] ELSE low
BitsOf(n, t) == n % 2 ^ Width[t]

RunBin(op, a, b, t) ==
    Wrapped(CASE op = "+" -> a + b                                      \* PLUS_EXPR
              [] op = "-" -> a - b                                      \* MINUS_EXPR
              [] op = "*" -> a * b                                      \* MULT_EXPR
              [] op = "/" -> Quotient(a, b)                             \* TRUNC_DIV_EXPR
              [] op = "%" -> Remainder(a, b)                            \* TRUNC_MOD_EXPR
              [] op = "&" -> WordAnd(BitsOf(a, t), BitsOf(b, t))              \* BIT_AND_EXPR
              [] op = "|" -> WordOr(BitsOf(a, t), BitsOf(b, t))              \* BIT_IOR_EXPR
              [] op = "^" -> WordXor(BitsOf(a, t), BitsOf(b, t))             \* BIT_XOR_EXPR
              [] op = "<<" -> a * 2 ^ b                                 \* LSHIFT_EXPR
              [] op = ">>" -> a \div 2 ^ b                              \* RSHIFT_EXPR
              [] op = ">>>" -> BitsOf(a, t) \div 2 ^ b, t)              \* UNSIGNED_RSHIFT_EXPR
=============================================================================
