------------------------------ MODULE CtorFlow ------------------------------
(* The flow analysis of constructors, "primitive" as scope.c calls it: along *)
(* with semantic analysis, sc->callSuper and sc->fieldinit collect on one    *)
(* walk over the statements whether the constructor of the base class was    *)
(* called, and which fields were initialised.  The walk refuses calls in     *)
(* loops and branches that disagree.  Three events count: "super" is a call  *)
(* super(), "must" an assignment to a field that has to be initialised, and  *)
(* "const" one to a field that cannot be modified.                           *)
EXTENDS Statements

Fields == {"must", "const"}

(* What the walk keeps: the flags of callSuper and of fieldinit[field], how  *)
(* deep in loops and switches it is (noctor), and whether it has reported    *)
(* an error.  "ctor" is CSXsuper_ctor, and CSXthis_ctor for a field.         *)
NoFlow == [cs |-> {}, fi |-> [f \in Fields |-> {}], noctor |-> 0, bad |-> FALSE]
Error(st, cond) == [st EXCEPT !.bad = @ \/ cond]

(* Scope::pop: the flags of the scope that ends are added to those of the    *)
(* enclosing one, whose copy it started from.                                *)
Pop(outer, inner) ==
    [inner EXCEPT !.cs = @ \cup outer.cs, !.fi = [f \in Fields |-> @[f] \cup outer.fi[f]],
                  !.noctor = outer.noctor]

(* CallExp::semantic of super() *)
FlowSuper(st) ==
    IF "halt" \in st.cs THEN st
    ELSE Error([st EXCEPT !.cs = @ \cup {"any", "ctor"}],
               \/ st.noctor > 0 \/ "label" \in st.cs
               \/ "ctor" \in st.cs
               \/ "return" \in st.cs /\ "any" \notin st.cs)

(* modifyFieldVar *)
FlowField(f, st) ==
    Error([st EXCEPT !.fi[f] = @ \cup {"ctor"}],
          IF "ctor" \in st.fi[f] THEN f = "const" ELSE st.noctor > 0 \/ "label" \in st.fi[f])

(* AssertExp::semantic of assert(0), visit(ReturnStatement), and what        *)
(* visit(LabelStatement) does first                                          *)
Mark(st, flag) == [st EXCEPT !.cs = @ \cup {flag}, !.fi = [f \in Fields |-> @[f] \cup {flag}]]
FlowReturn(st) ==
    Error(Mark(st, "return"), ("any" \in st.cs /\ "ctor" \notin st.cs) \/ "ctor" \notin st.fi["must"])

(* Scope::mergeCallSuper: b, the flags of the path just walked, with a *)
MergeCallSuper(b, a) ==
    LET Skips(x, y) == {"halt", "return", "any"} \cap x = {"return"} /\ "any" \in y
        Left(x) == "halt" \in x \/ {"return", "ctor"} \subseteq x
        passed == a \cap {"any", "label"}
    IN  CASE a = b -> [cs |-> b, ok |-> TRUE]
          [] a # b /\ "halt" \in a \cap b -> [cs |-> {"halt"}, ok |-> TRUE]
          [] a # b /\ "halt" \notin a \cap b ->
                IF Skips(a, b) \/ Skips(b, a) THEN [cs |-> b, ok |-> FALSE]
                ELSE IF Left(a) THEN [cs |-> b \cup passed, ok |-> TRUE]
                ELSE IF Left(b) THEN [cs |-> a \cup (b \cap {"any", "label"}), ok |-> TRUE]
                ELSE LET ok == ("ctor" \in a) = ("ctor" \in b)
                         returned == IF ok /\ {"return", "any"} \cap a = {"return"} THEN {"return"} ELSE {}
                     IN  [cs |-> b \cup passed \cup returned, ok |-> ok]

(* mergeFieldInit, for one field *)
MergeFieldInit(b, a, mustInit) ==
    LET Needs(x) == mustInit => "ctor" \in x
        Returned(x) == "return" \in x /\ "halt" \notin x
    IN  CASE a = b -> [fi |-> b, ok |-> TRUE]
          [] a # b /\ "halt" \in a \cap b -> [fi |-> {"halt"}, ok |-> TRUE]
          [] a # b /\ "halt" \notin a \cap b ->
                IF Returned(a) THEN [fi |-> b, ok |-> Needs(a)]
                ELSE IF Returned(b) THEN [fi |-> a, ok |-> Needs(b)]
                ELSE IF "halt" \in a THEN [fi |-> b, ok |-> Needs(b)]
                ELSE IF "halt" \in b THEN [fi |-> a, ok |-> Needs(a)]
                ELSE [fi |-> a \cup b, ok |-> mustInit => ("ctor" \in a) = ("ctor" \in b)]

Merge(st, branch) ==
    LET call == MergeCallSuper(st.cs, branch.cs)
        field == [f \in Fields |-> MergeFieldInit(st.fi[f], branch.fi[f], f = "must")]
    IN  Error([st EXCEPT !.cs = call.cs, !.fi = [f \in Fields |-> field[f].fi]],
              ~call.ok \/ \E f \in Fields : ~field[f].ok)

RECURSIVE Flow(_, _)

(* visit(IfStatement): both branches start from the flags before it *)
FlowIf(s, st) ==
    LET then == Pop(st, Flow(s.t, st))
        else == Pop(st, Flow(s.e, [st EXCEPT !.bad = then.bad]))
    IN  Merge(else, then)

(* AndAndExp::semantic and OrOrExp::semantic merge sc->callSuper only,       *)
(* CondExp::semantic both.                                                   *)
FlowLogical(s, st) ==
    LET after == Flow(s.e, st)
        call == MergeCallSuper(after.cs, st.cs)
    IN  Error([after EXCEPT !.cs = call.cs], ~call.ok)
FlowConditional(s, st) ==
    LET first == Flow(s.t, st)
    IN  Merge(Flow(s.e, [st EXCEPT !.bad = first.bad]), first)

(* The visitors of loops and of switch, which know no more than noctor *)
FlowLoop_Unmarked(b, st) == Pop(st, Flow(b, st))    \* seeded fault: noctor is not raised
FlowLoop(b, st) == Pop(st, Flow(b, [st EXCEPT !.noctor = @ + 1]))

Flow(s, st) ==
    CASE s.k = "exp" -> IF s.n = "super" THEN FlowSuper(st)
                        ELSE IF s.n \in Fields THEN FlowField(s.n, st) ELSE st
      [] s.k = "halt" -> Mark(st, "halt")
      [] s.k = "return" -> FlowReturn(st)
      [] s.k \in {"compound", "unrolled"} -> FoldLeft(LAMBDA a, x : Flow(x, a), st, s.ss)
      [] s.k = "if" -> FlowIf(s, st)
      [] s.k = "logical" -> FlowLogical(s, st)
      [] s.k = "conditional" -> FlowConditional(s, st)
      [] s.k \in {"do", "for", "switch"} -> FlowLoop(s.b, st)
      [] s.k = "label" -> Pop(st, Flow(s.b, Mark(st, "label")))
      [] s.k \in {"case", "default", "with", "onscope"} -> Pop(st, Flow(s.b, st))
      [] s.k = "trycatch" -> FoldLeft(LAMBDA a, c : Pop(a, Flow(c.h, a)), Pop(st, Flow(s.b, st)), s.cs)
      [] s.k = "tryfinally" -> LET body == Pop(st, Flow(s.b, st)) IN Pop(body, Flow(s.f, body))
      [] OTHER -> st
-----------------------------------------------------------------------------
(* FuncDeclaration::semantic3, what it does to the body of a constructor of  *)
(* a derived class: the fields are checked, an implicit super() is put in    *)
(* front when there was no call, and "return this" is appended when the end  *)
(* can be reached.                                                           *)
ReachesEnd(fbody) == "fallthru" \in BlockExit(fbody)

AcceptsConstructor(body, fbody) ==
    LET st == Flow(body, NoFlow)
        assigned == {f \in Fields : Exp(f) \in SubStatements(body)}
        called == IF "any" \in st.cs THEN st ELSE FlowSuper([st EXCEPT !.cs = {}])
        cleared == [called EXCEPT !.fi = [f \in Fields |-> {"ctor"}]]    \* fieldinit = NULL
        end == IF ReachesEnd(fbody) THEN FlowReturn(cleared) ELSE called
    IN  assigned = Fields /\ "ctor" \in st.fi["must"] /\ ~end.bad

FinishConstructor(body, fbody) ==
    LET front == IF "any" \in Flow(body, NoFlow).cs THEN <<>> ELSE <<Exp("super")>>
        back == IF ReachesEnd(fbody) THEN <<Return>> ELSE <<>>
    IN  Compound(front \o <<fbody>> \o back)
=============================================================================
