----------------------------- MODULE ValueRange -----------------------------
(* An integer expression grows, operator by operator.  What the front end    *)
(* says about it, the range of its values and the value it folds to when the *)
(* variables are constants, is compared with what the compiled code makes of *)
(* the same values of the variables.                                         *)
EXTENDS ConstFold

CONSTANTS
    Operands,     \* [Types -> SUBSET Nat]: the words of literals and variables used
    Avoided       \* what is not made, because its range is not right: "truth", "character",
                  \* "count", "cut"

VARIABLES
    ty,       \* Expression::type
    folded,   \* the word of the IntegerExp that the expression folds to
    run,      \* the number that the compiled code computes
    range     \* getIntRange

vars == <<ty, folded, run, range>>

(* Leaves: a literal, whose range is its value, and a variable, about which  *)
(* nothing is known (visit(IntegerExp), visit(Expression)).                  *)
Expr(t, word, r) == [ty |-> t, folded |-> word, run |-> Meaning(word, t), range |-> r]
WordsOf(t) == {Normalize(n, t) : n \in 0 .. (IF t = "dchar" THEN LastDchar ELSE 2 ^ Width[t] - 1)}
Literal(t, word) == Expr(t, word, CastRange(Range(FromNat(word), FromNat(word)), t))
Variable(t, word) == Expr(t, word, FromType(t))
Leaves == [t \in Types |->
    LET words == WordsOf(t) \cap Operands[t]
    IN  {Literal(t, w) : w \in words} \cup {Variable(t, w) : w \in words}]

Now == [ty |-> ty, folded |-> folded, run |-> run, range |-> range]
Becomes(e) == ty' = e.ty /\ folded' = e.folded /\ run' = e.run /\ range' = e.range

Init == \E t \in Types : \E e \in Leaves[t] :
    ty = e.ty /\ folded = e.folded /\ run = e.run /\ range = e.range

(* CastExp, also those that integralPromotions and typeMerge put in *)
CastTo(t, e) ==
    [ty |-> t, folded |-> Normalize(e.folded, t), run |-> Wrapped(e.run, t),
     range |-> CastRange(e.range, t)]

(* The types in which there is arithmetic *)
Promoted == Types \ {"bool", "byte", "ubyte", "dchar"}
Arithmetic == {"+", "-", "*", "/", "%", "&", "|", "^"}
Commute == {"+", "*", "&", "|", "^"}
Shifts == {"<<", ">>", ">>>"}

Apply(op, e1, e2) ==
    [ty |-> e1.ty,
     folded |-> FoldBin(op, e1.folded, e2.folded, e1.ty),
     run |-> RunBin(op, e1.run, e2.run, e1.ty),
     range |-> RangeBin(op, e1.range, e2.range, e1.ty)]
Undefined(op, e1, e2) == op \in {"/", "%"} /\ DivError(e1.folded, e2.folded, e1.ty)

(* castUnsigned takes a range modulo 2 also for bool, where 2 is true, and   *)
(* castDchar leaves out what is not a character.                             *)
Truth(t) == "truth" \in Avoided /\ t = "bool" => Contains(FromType("bool"), range)
Character(t) == "character" \in Avoided /\ t = "dchar" => Wrapped(run, t) <= LastDchar
Cast(t) ==
    /\ Truth(t) /\ Character(t)
    /\ Becomes(CastTo(t, Now))

(* castSigned and castUnsigned take a bound that was cut off at the end of   *)
(* the numbers for the bound itself; no harm is done where the whole of the  *)
(* type is the result.                                                       *)
Reached(op, r1, r2, t) ==
    \/ "cut" \notin Avoided
    \/ CastRange(RangeOf(op, r1, r2, t), t) = FromType(t)
    \/ \A a \in {r1.imin, r1.imax}, b \in {r2.imin, r2.imax} :
        LET n == CASE op = "+" -> Value(a) + Value(b)
                   [] op = "-" -> Value(a) - Value(b)
                   [] op = "*" -> Value(a) * Value(b)
                   [] op = "<<" -> Value(a) * 2 ^ Min2(Value(b), Bits)
                   [] OTHER -> 0
        IN  n = Saturated(n)

Binary(op, e) ==
    /\ ty \in Promoted
    /\ ~Undefined(op, Now, e)
    /\ Reached(op, range, e.range, ty)
    /\ Becomes(Apply(op, Now, e))

BinaryRight(op, e) ==
    /\ ty \in Promoted /\ op \notin Commute
    /\ ~Undefined(op, e, Now)
    /\ Reached(op, e.range, range, ty)
    /\ Becomes(Apply(op, e, Now))

(* The count of a shift is an int, often n & mask.  One that may be negative *)
(* is given the range [0, 64], n & 64 has it too, and a word shifted right   *)
(* by 64 is undefined in C++.                                                *)
ShiftCounts ==
    Leaves["int"] \cup
        {Apply("&", Variable("int", w), Literal("int", mask)) : w, mask \in WordsOf("int") \cap Operands["int"]}
Steady(op, n) ==
    "count" \in Avoided /\ op # "<<" /\ Counts(n.range).imax = FromNat(Bits) => Beyond = "zero"
Shift(op, n) ==
    /\ ty \in Promoted
    /\ n.run >= 0 /\ CountFits(n.run, ty)
    /\ Steady(op, n) /\ Reached(op, range, Counts(n.range), ty)
    /\ Becomes(Apply(op, Now, n))

Complement ==
    /\ ty \in Promoted
    /\ Becomes([ty |-> ty, folded |-> FoldCom(folded, ty), run |-> Wrapped(-run - 1, ty),
                range |-> CastRange(RangeCom(range), ty)])

Negation ==
    /\ ty \in Promoted
    /\ Becomes([ty |-> ty, folded |-> FoldNeg(folded, ty), run |-> Wrapped(-run, ty),
                range |-> CastRange(RangeNeg(range), ty)])

(* CondExp: e is the branch not taken. *)
Either(e) == Becomes([Now EXCEPT !.range = CastRange(UnionWith(range, e.range), ty)])

(* foreach (key; lwr .. upr): the expression becomes the loop variable, a    *)
(* constant that starts at it (visit(ForeachRangeStatement)).                *)
Foreach(upr, word) ==
    LET value == Meaning(word, ty)
    IN  /\ ty \in Promoted
        /\ run <= value /\ value < upr.run
        /\ Becomes(Expr(ty, word,
                IF LessEq(range.imin, upr.range.imax)
                THEN CastRange(Range(range.imin, Subtract(upr.range.imax, FromNat(1))), ty)
                ELSE FromType(ty)))

Next ==
    \/ \E t \in Types : Cast(t)
    \/ \E op \in Arithmetic : \E e \in Leaves[ty] : Binary(op, e) \/ BinaryRight(op, e)
    \/ \E op \in Shifts : \E n \in ShiftCounts : Shift(op, n)
    \/ Complement \/ Negation
    \/ \E e \in Leaves[ty] : Either(e)
    \/ \E upr \in Leaves[ty] : \E word \in WordsOf(ty) : Foreach(upr, word)

Spec == Init /\ [][Next]_vars
-----------------------------------------------------------------------------
(* No expression has a value outside the range found for it: what converts   *)
(* to a narrower type without a cast keeps its value, and an index that is   *)
(* not checked is within the bounds.                                         *)
RangeSound == Value(range.imin) <= run /\ run <= Value(range.imax)

(* An expression folds to what the compiled code computes. *)
FoldAsCompiled == Meaning(folded, ty) = run

(* The arithmetic on bounds saturates where the ends are passed and is exact *)
(* elsewhere.                                                                *)
Saturates ==
    \A a \in {range.imin, range.imax} : \A b \in Numbers :
        /\ Value(Plus(a, b)) = Saturated(Value(a) + Value(b))
        /\ Value(Subtract(a, b)) = Saturated(Value(a) - Value(b))
        /\ Value(Times(a, b)) = Saturated(Value(a) * Value(b))
        /\ Value(b) # 0 => Value(Divide(a, b)) = Saturated(Quotient(Value(a), Value(b)))
        /\ Less(a, b) <=> Value(a) < Value(b)
=============================================================================
