---------------------------- MODULE MCControlFlow ----------------------------
(* Function bodies for ControlFlow: a jump, a throw or a call, alone or      *)
(* under an open condition, inside two nested statements of every class, and *)
(* two of them in a row inside one.                                          *)
EXTENDS ControlFlow

Nothing == Compound(<<>>)
Maybe(s) == If("?", s, Nothing)

Ends == <<Throw("Exception"), Return, Break(""), Continue(""), Goto("M")>>
Leaves == Ends \o <<Call("c"), Throw("Error"), Break("L"), Continue("L"), Goto("L"),
                    GotoCase("L"), GotoDefault("L"), GotoCase("I"), GotoDefault("I"), Halt>>
Middles ==
    [i \in DOMAIN Leaves |-> Compound(<<Maybe(Leaves[i]), Exp("e")>>)] \o Ends
        \o <<Compound(<<Maybe(Goto("N")), Exp("e"), Label("N", Exp("n"))>>),
             Compound(<<Maybe(Goto("N")), Exp("e"), Label("N", Throw("Exception"))>>),
             Compound(<<Label("N", Call("c")), Maybe(Goto("N")), Exp("e")>>),
             Compound(<<Logical("&&", Call("c")), Logical("||", Call("d"))>>),
             Compound(<<Conditional(Call("c"), Exp("d")), Exp("e")>>)>>

(* The statements that can stand around b: a loop or switch has the name l,  *)
(* and n makes the names of variables and events distinct.                   *)
(* "reach" is followed by scope guards of which exactly one must "leave".    *)
Around(b, l, n) ==
    <<For(l, "?", b, "i"), For(l, "none", b, "i"), Do(l, b, "?"), Do(l, b, "T"),
      Unrolled(l, <<b, Exp("u")>>),
      Switch(l, Compound(<<Case(l, b), Default(l, Exp("d"))>>)),
      Switch(l, Compound(<<Default(l, b), Case(l, Exp("k"))>>)),
      If("?", b, Exp("x")), With(b),
      TryCatch(b, <<Catch("Exception", "v" \o n, Exp("h"), FALSE)>>),
      TryCatch(b, <<Catch("Error", "v" \o n, Exp("h"), FALSE), Catch("Throwable", "w" \o n, Exp("t"), FALSE)>>),
      TryCatch(Call("p"), <<Catch("Exception", "v" \o n, b, FALSE)>>),
      TryFinally(b, Call("y")), TryFinally(Call("p"), b),
      Compound(<<Exp("reach" \o n), OnScope("exit", Exp("leave" \o n), "g" \o n), b, Exp("z")>>),
      Compound(<<OnScope("success", Call("y"), "g" \o n), b, Exp("z")>>),
      Compound(<<Exp("reach" \o n), OnScope("success", Exp("leave" \o n), "g" \o n),
                 OnScope("failure", Exp("leave" \o n), "h" \o n), b, Exp("z")>>)>>

(* The outer statement, if a loop or switch, has the name L, as has the label*)
(* before it; the inner one has the name I.                                  *)
Function(s) ==
    Compound(<<IF s.k \in {"do", "for", "unrolled", "switch"} THEN Label("L", s) ELSE s,
               IF Goto("M") \in SubStatements(s) THEN Label("M", Exp("m")) ELSE Exp("m")>>)

Forms == Len(Around(Nothing, "", ""))
Digit(k, base, unit) == (((k - 1) \div unit) % base) + 1
Nested(k) ==
    LET inner == Around(Middles[Digit(k, Len(Middles), Forms * Forms)], "I", "2")[Digit(k, Forms, Forms)]
    IN  Function(Around(inner, "L", "1")[Digit(k, Forms, 1)])
Paired(k) ==
    LET first == Maybe(Leaves[Digit(k, Len(Leaves), Forms)])
        second == Ends[Digit(k, Len(Ends), Forms * Len(Leaves))]
    IN  Function(Around(Compound(<<first, second>>), "L", "1")[Digit(k, Forms, 1)])

(* The interpreter does not follow a goto, goto case or goto default in a    *)
(* finally body, within that body or out of it, and after one that leads to  *)
(* the body of a try statement it passes over the handlers of that statement.*)
Followed(body) ==
    LET all == Scoped(Semantic(body, TRUE), FunctionScope)
    IN  \A x \in all : \A y \in Targets(all, x) :
            x.sc.tf = <<>> /\ \A g \in ToSet(y.sc.guards) : ~g.catches

(* blockExit overlooks that a do-while loop can be left by a break, a goto   *)
(* or a labelled continue, when its body cannot otherwise reach its end.     *)
BreakCounted(body) ==
    \A s \in SubStatements(Semantic(body, TRUE)) :
        s.k = "do" /\ BlockExit(s.b) \cap {"break", "goto"} # {} =>
            BlockExit(s.b) = {"break"} \/ "fallthru" \in BlockExit(s.b)

(* Constructors: two parts after each other, or the branches of an if, and   *)
(* what they do about one of the three things that have to be done once.     *)
ConstructorParts(n) ==
    LET blocks == <<Nothing, Exp(n), Return, Compound(<<Exp(n), Return>>), Halt>>
        size == Len(blocks)
        Forward(ij) == ij[1] <= ij[2]
        pairs == SelectSeq([k \in 1 .. size * size |-> <<Digit(k, size, 1), Digit(k, size, size)>>], Forward)
    IN  blocks \o <<For("f1", "?", Exp(n), "i"), Label("N", Exp(n)), Logical("&&", Exp(n)), Logical("||", Exp(n)),
                    Conditional(Exp(n), Exp("e")), Conditional(Exp(n), Exp(n))>>
            \o [k \in DOMAIN pairs |-> If("?", blocks[pairs[k][1]], blocks[pairs[k][2]])]
Rest(n) == Compound(SetToSeq({Exp(f) : f \in Fields \ {n}}))
Once == <<"super", "must", "const">>
PartsOf == [n \in ToSet(Once) |-> ConstructorParts(n)]
Size == Len(PartsOf["super"])
Constructor(k) ==
    LET n == Once[Digit(k, 3, Size * Size * 2)]
        x == PartsOf[n][Digit(k, Size, 1)]
        y == PartsOf[n][Digit(k, Size, Size)]
    IN  Compound(IF Digit(k, 2, Size * Size) = 1 THEN <<Rest(n), x, y>> ELSE <<Rest(n), If("?", x, y), Exp(n)>>)

(* Where two branches end in assert(0), mergeCallSuper forgets the calls of  *)
(* super() on paths that have left one of them.                              *)
CallRemembered(body) ==
    Exp("super") \in SubStatements(body) => "any" \in Flow(body, NoFlow).cs

(* What is assigned behind && or || counts as assigned.                      *)
AssignedForSure(body) ==
    \A s \in SubStatements(body) : s.k = "logical" => Exp("must") \notin SubStatements(s)

NestedPrograms == Forms * Forms * Len(Middles)
PairedPrograms == Forms * Len(Leaves) * Len(Ends)
Constructors == 3 * 2 * Size * Size
MCPrograms ==
    [k \in 1 .. NestedPrograms + PairedPrograms + Constructors |->
        [body |-> IF k <= NestedPrograms THEN Nested(k)
                  ELSE IF k <= NestedPrograms + PairedPrograms THEN Paired(k - NestedPrograms)
                  ELSE Constructor(k - NestedPrograms - PairedPrograms),
         ctor |-> k > NestedPrograms + PairedPrograms]]

Considered(f) ==
    IF f.ctor THEN CallRemembered(f.body) /\ AssignedForSure(f.body)
    ELSE Followed(f.body) /\ BreakCounted(f.body)
MCInit == Init /\ Considered(Programs[program])
MCSpec == MCInit /\ [][Next]_vars

(* What the five restrictions leave out: a goto and a goto default within a  *)
(* finally body, and one out of it; a goto within a try body; a do-while loop*)
(* that is left by its break; a constructor with branches that end in        *)
(* assert(0), and one that assigns a field behind &&; and a labelled continue*)
(* of an unrolled loop.                                                      *)
Plain(body) == [body |-> body, ctor |-> FALSE]
FinallyJumps == <<
    Plain(Compound(<<TryFinally(Call("p"), Compound(<<Maybe(Goto("N")), Exp("e"), Label("N", Exp("n"))>>)), Exp("m")>>)),
    Plain(Compound(<<TryFinally(Call("p"),
                        Switch("s1", Compound(<<Case("s1", GotoDefault("s1")), Default("s1", Exp("d"))>>))), Exp("m")>>)),
    Plain(Compound(<<Switch("s1", Compound(<<Case("s1", TryFinally(Call("p"), GotoDefault("s1"))),
                                             Default("s1", Exp("d"))>>)), Exp("m")>>))>>
TryJumps == <<
    Plain(Compound(<<TryCatch(Compound(<<Maybe(Goto("N")), Exp("e"), Label("N", Call("n"))>>),
                              <<Catch("Exception", "v1", Exp("h"), FALSE)>>), Exp("m")>>))>>
DoBreaks == <<
    Plain(TryCatch(Compound(<<Do("d1", Compound(<<Maybe(Break("")), Return>>), "T"), Call("c")>>),
                   <<Catch("Exception", "v1", Exp("h"), FALSE)>>))>>
LabelledContinues == <<Plain(Label("L", Unrolled("L", <<Maybe(Continue("L")), Exp("u")>>)))>>
HaltingBranches == <<
    [body |-> Compound(<<Rest("super"), If("?", If("?", Compound(<<Exp("super"), Return>>), Halt), Halt)>>),
     ctor |-> TRUE]>>
LogicalAssignments == <<[body |-> Compound(<<Rest("must"), Logical("&&", Exp("must"))>>), ctor |-> TRUE]>>

(* interpret.c: "jump inside [the finally body] will be handled by the       *)
(* ScopeStatement".  Nothing handles it there: the jump is given up, and the *)
(* statements behind it are not run.                                         *)
FinallyJumpHandled == Ended => SameRun(Interpreted(Analysed(TRUE)))

(* A label that the code jumps to stands somewhere in it.  That of a         *)
(* labelled continue of an unrolled loop does not.                           *)
EveryLabelDefined == outcome # "refused"

(* A scope guard runs once for each time it was reached, whichever way the   *)
(* statements after it were left.                                            *)
GuardsRunOnce ==
    outcome \in {"null", "return", "throw"} =>
        \A n \in {"1", "2"} : Times("reach" \o n) = Times("leave" \o n)
=============================================================================
