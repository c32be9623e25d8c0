------------------------------ MODULE Lowering ------------------------------
(* The code that gcc/d/toir.cc (class IRVisitor) makes of an analysed        *)
(* statement tree.  GENERIC is a tree; here it is the flat code that GCC     *)
(* gives it, a sequence of instructions in the order of execution.  eh names *)
(* the TRY_CATCH_EXPRs and TRY_FINALLY_EXPRs an instruction stands in, from  *)
(* the outermost, and the half of them it stands in.                         *)
EXTENDS Statements

Ins(c, op, arg, to) == [op |-> op, eh |-> c.eh, arg |-> arg, to |-> to]

(* The labels: of the function, of the cases, those of lookup_bc_label, and  *)
(* those that GCC makes for the forms of GENERIC, named by where they stand. *)
UserLabel(l) == <<"user", l>>
CaseLabel(sw) == <<"case", sw>>
DefaultLabel(sw) == <<"default", sw>>
BcBreak(key) == <<"bc_break", key>>
BcContinue(key) == <<"bc_continue", key>>
InnerLabel(name, at) == <<name, at>>

(* What the visitors pass on: where they are, break_label_, continue_label_  *)
FunctionContext == [at |-> <<>>, eh |-> <<>>, break_label |-> <<>>, continue_label |-> <<>>]
Within(c, i) == [c EXCEPT !.at = Append(@, i)]

(* In one half of a try: k is "catch" (the body of a TRY_CATCH_EXPR),        *)
(* "finally" (the body of a TRY_FINALLY_EXPR) or "cleanup" (its other half). *)
Region(k, c, handlers) == [k |-> k, at |-> c.at, handlers |-> handlers]
Inside(c, r) == [c EXCEPT !.eh = Append(@, r)]

DoLabel(c, label) == <<Ins(c, "label", "", label)>>
DoJump(c, label) == <<Ins(c, "goto", "", label)>>

(* A COND_EXPR that goes to label when the condition of s does not hold; the *)
(* condition of a switch is open, and does not hold for its default.         *)
Open == {"switch", "logical", "conditional"}
Unless(c, s, label) ==
    <<Ins(c, "unless",
          CASE s.k \in Open -> [c |-> "?", v |-> ""]
            [] s.k \notin Open /\ s.c = "unset" -> [c |-> s.c, v |-> s.v]
            [] OTHER -> [c |-> s.c, v |-> ""], label)>>

RECURSIVE Lower(_, _)

LowerCompound(s, c) ==
    FoldLeft(LAMBDA code, i : code \o Lower(s.ss[i], Within(c, i)), <<>>, [i \in DOMAIN s.ss |-> i])

(* Each statement has a continue label of its own, keyed by that statement.  *)
LowerUnrolled(s, c) ==
    LET lbreak == BcBreak(<<s.l>>)
        Iteration(i) ==
            LET lcontinue == BcContinue(<<s.l, i>>)
            IN  Lower(s.ss[i], [Within(c, i) EXCEPT !.break_label = lbreak, !.continue_label = lcontinue])
                    \o DoLabel(c, lcontinue)
    IN  FoldLeft(LAMBDA code, i : code \o Iteration(i), <<>>, [i \in DOMAIN s.ss |-> i])
            \o DoJump(c, lbreak) \o DoLabel(c, lbreak)

(* An if statement, and visit(CondExp) of expr.cc *)
LowerIf(s, c) ==
    LET else == InnerLabel("else", c.at)
        end == InnerLabel("endif", c.at)
    IN  Unless(c, s, else) \o Lower(s.t, Within(c, 1)) \o DoJump(c, end)
            \o DoLabel(c, else) \o Lower(s.e, Within(c, 2)) \o DoLabel(c, end)

(* visit(AndAndExp) and visit(OrOrExp) of expr.cc *)
LowerLogical(s, c) ==
    LET skip == InnerLabel("skip", c.at)
        rest == InnerLabel("rest", c.at)
        operand == Lower(s.e, Within(c, 1)) \o DoLabel(c, skip)
    IN  IF s.op = "&&" THEN Unless(c, s, skip) \o operand
        ELSE Unless(c, s, rest) \o DoJump(c, skip) \o DoLabel(c, rest) \o operand

(* A loop is a LOOP_EXPR, which runs for ever, and a break label behind it.  *)
LowerDo(s, c) ==
    LET lbreak == BcBreak(<<s.l>>)
        lcontinue == BcContinue(<<s.l>>)
        loop == InnerLabel("loop", c.at)
    IN  DoLabel(c, loop)
            \o Lower(s.b, [Within(c, 1) EXCEPT !.break_label = lbreak, !.continue_label = lcontinue])
            \o DoLabel(c, lcontinue) \o Unless(c, s, lbreak) \o DoJump(c, loop) \o DoLabel(c, lbreak)

LowerFor(s, c) ==
    LET lbreak == BcBreak(<<s.l>>)
        lcontinue == BcContinue(<<s.l>>)
        loop == InnerLabel("loop", c.at)
    IN  DoLabel(c, loop) \o Unless(c, s, lbreak)
            \o Lower(s.b, [Within(c, 1) EXCEPT !.break_label = lbreak, !.continue_label = lcontinue])
            \o DoLabel(c, lcontinue) \o <<Ins(c, "event", s.n, <<>>)>>
            \o DoJump(c, loop) \o DoLabel(c, lbreak)

(* A labelled break or continue goes by the statement behind the label. *)
LowerBreak(s, c) == DoJump(c, IF s.to = "" THEN c.break_label ELSE BcBreak(<<s.to>>))
LowerContinue(s, c) == DoJump(c, IF s.to = "" THEN c.continue_label ELSE BcContinue(<<s.to>>))

LowerSwitch(s, c) ==
    LET lbreak == BcBreak(<<s.l>>)
    IN  Unless(c, s, DefaultLabel(s.l)) \o DoJump(c, CaseLabel(s.l))
            \o Lower(s.b, [Within(c, 1) EXCEPT !.break_label = lbreak]) \o DoLabel(c, lbreak)

(* Every handler starts with BUILT_IN_EH_POINTER and __gdc_begin_catch. *)
LowerTryCatch(s, c) ==
    LET handlers == [i \in DOMAIN s.cs |-> [ty |-> s.cs[i].ty, label |-> InnerLabel("catch", Append(c.at, i + 1))]]
        end == InnerLabel("endtry", c.at)
        Handler(i) == DoLabel(c, handlers[i].label) \o <<Ins(c, "begin_catch", s.cs[i].v, <<>>)>>
                        \o Lower(s.cs[i].h, Within(c, i + 1)) \o DoJump(c, end)
    IN  Lower(s.b, Inside(Within(c, 1), Region("catch", c, handlers))) \o DoJump(c, end)
            \o FoldLeft(LAMBDA code, i : code \o Handler(i), <<>>, [i \in DOMAIN s.cs |-> i])
            \o DoLabel(c, end)

LowerTryFinally(s, c) ==
    LET cleanup == Inside(Within(c, 2), Region("cleanup", c, <<>>))
    IN  Lower(s.b, Inside(Within(c, 1), Region("finally", c, <<>>))) \o <<Ins(c, "enter", "", <<>>)>>
            \o DoLabel(cleanup, InnerLabel("cleanup", c.at)) \o Lower(s.f, cleanup)
            \o <<Ins(c, "resume", "", <<>>)>>

Lower(s, c) ==
    CASE s.k = "compound" -> LowerCompound(s, c)
      [] s.k = "unrolled" -> LowerUnrolled(s, c)
      [] s.k = "exp" -> <<Ins(c, "event", s.n, <<>>)>>
      [] s.k = "call" -> <<Ins(c, "call", s.n, <<>>)>>
      [] s.k = "halt" -> <<Ins(c, "halt", "", <<>>)>>
      [] s.k = "temp" -> <<Ins(c, "set", s, <<>>)>>
      [] s.k = "throw" -> <<Ins(c, "throw", s.ty, <<>>)>>
      [] s.k = "rethrow" -> <<Ins(c, "rethrow", s.v, <<>>)>>
      [] s.k = "return" -> <<Ins(c, "return", "", <<>>)>>
      [] s.k = "break" -> LowerBreak(s, c)
      [] s.k = "continue" -> LowerContinue(s, c)
      [] s.k = "goto" -> DoJump(c, UserLabel(s.to))
      [] s.k = "gotocase" -> DoJump(c, CaseLabel(s.sw))
      [] s.k = "gotodefault" -> DoJump(c, DefaultLabel(s.sw))
      [] s.k \in {"if", "conditional"} -> LowerIf(s, c)
      [] s.k = "logical" -> LowerLogical(s, c)
      [] s.k = "do" -> LowerDo(s, c)
      [] s.k = "for" -> LowerFor(s, c)
      [] s.k = "switch" -> LowerSwitch(s, c)
      [] s.k = "case" -> DoLabel(c, CaseLabel(s.sw)) \o Lower(s.b, Within(c, 1))
      [] s.k = "default" -> DoLabel(c, DefaultLabel(s.sw)) \o Lower(s.b, Within(c, 1))
      [] s.k = "label" -> DoLabel(c, UserLabel(s.l)) \o Lower(s.b, Within(c, 1))
      [] s.k = "with" -> Lower(s.b, Within(c, 1))
      [] s.k = "trycatch" -> LowerTryCatch(s, c)
      [] s.k = "tryfinally" -> LowerTryFinally(s, c)
=============================================================================
