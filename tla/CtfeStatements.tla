--------------------------- MODULE CtfeStatements ---------------------------
(* The statements of the compile-time interpreter (dfrontend/interpret.c,    *)
(* class Interpreter).  It walks the tree; a jump is a result that bubbles   *)
(* up, and its target is looked for by walking the tree again with           *)
(* istate.start set, in which nothing is executed until the target is met.   *)
EXTENDS Statements

(* What a visitor is given and gives back: InterState::start and gotoTarget, *)
(* the result, with the class of the exception when it is "throw", the       *)
(* variables of the handlers and of the scope guards, the choices that open  *)
(* conditions and calls still have to make, and the events so far.  Without  *)
(* a choice left, and without rounds left, the interpreter gives up, as it   *)
(* does for what it cannot evaluate (CTFEExp::cantexp).                      *)
Null == <<>>                            \* no statement
AtLabel(l) == <<"label", l>>            \* a LabelStatement
AtLoop(l) == <<"loop", l>>              \* the loop or switch behind a label
AtCase(sw) == <<"case", sw>>
AtDefault(sw) == <<"default", sw>>

StartState(choices, rounds) ==
    [start |-> Null, gotoTarget |-> Null, result |-> "null", thrown |-> "",
     caught |-> <<>>, temps |-> <<>>, choices |-> choices, events |-> <<>>, rounds |-> rounds]

RECURSIVE Interpret(_, _)

With_(st, r) == [st EXCEPT !.result = r]
Cleared(st) == With_(st, "null")
Cant(st) == With_(st, "cant")

(* if (istate->start == s) istate->start = NULL *)
Arrive(st, target) == IF st.start = target THEN [st EXCEPT !.start = Null] ELSE st

(* The choice of an open condition *)
Decide(st, c, v) ==
    CASE c = "T" \/ c = "none" -> [st |-> st, value |-> TRUE]
      [] c = "F" -> [st |-> st, value |-> FALSE]
      [] c = "unset" -> [st |-> st, value |-> ~st.temps[v]]
      [] c = "?" -> IF st.choices = <<>> THEN [st |-> Cant(st), value |-> FALSE]
                    ELSE [st |-> [st EXCEPT !.choices = Tail(@)], value |-> Head(st.choices)]

InterpretExp(s, st) ==
    LET did == [st EXCEPT !.events = Append(@, s.n)]
        d == Decide(did, "?", "")
    IN  IF s.k = "exp" THEN did
        ELSE IF d.st.result = "cant" \/ ~d.value THEN d.st
        ELSE [d.st EXCEPT !.result = "throw", !.thrown = "Exception"]

(* visit(AndAndExp) and visit(OrOrExp) of the interpreter *)
InterpretLogical(s, st) ==
    LET d == Decide(st, "?", "")
    IN  IF d.st.result # "cant" /\ d.value = (s.op = "&&") THEN Interpret(s.e, d.st) ELSE d.st

(* visit(CondExp) *)
InterpretConditional(s, st) ==
    LET d == Decide(st, "?", "")
    IN  IF d.st.result = "cant" THEN d.st ELSE Interpret(IF d.value THEN s.t ELSE s.e, d.st)

(* visit(CompoundStatement) *)
InterpretCompound(ss, st) ==
    FoldLeft(LAMBDA a, s : IF a.result = "null" THEN Interpret(s, a) ELSE a, st, ss)

(* A break or continue that reached the loop s: does it go further up? *)
Higher_Never(s, st) == FALSE        \* seeded fault: every break is for the nearest loop
Higher(s, st) == st.gotoTarget # Null /\ st.gotoTarget # AtLoop(s.l)
Landed(st) == [st EXCEPT !.gotoTarget = Null, !.result = "null"]

(* visit(UnrolledLoopStatement); an exception or a failure in it ends the    *)
(* visit before its result is set to anything but that                       *)
InterpretUnrolled(s, st) ==
    LET Step(a, x) ==
            LET e == Interpret(x, a.st)
            IN  IF a.over THEN a
                ELSE CASE e.result = "null" -> [st |-> e, over |-> FALSE]
                       [] e.result = "break" -> [st |-> IF Higher(s, e) THEN e ELSE Landed(e), over |-> TRUE]
                       [] e.result = "continue" ->
                            IF Higher(s, e) THEN [st |-> e, over |-> TRUE]
                            ELSE [st |-> Landed(e), over |-> FALSE]
                       [] OTHER -> [st |-> e, over |-> TRUE]
    IN  FoldLeft(Step, [st |-> Arrive(st, AtLoop(s.l)), over |-> FALSE], s.ss).st

(* visit(IfStatement) *)
InterpretIf(s, st) ==
    LET then == Interpret(s.t, st)
        d == Decide(st, s.c, IF s.c = "unset" THEN s.v ELSE "")
    IN  IF st.start # Null
        THEN IF then.result = "null" /\ then.start # Null THEN Interpret(s.e, then) ELSE then
        ELSE CASE d.st.result = "cant" -> d.st
               [] d.st.result # "cant" /\ d.value -> Interpret(s.t, d.st)
               [] OTHER -> Interpret(s.e, d.st)

(* visit(DoStatement) *)
RECURSIVE InterpretDo(_, _)
InterpretDo(s, st) ==
    LET e == Interpret(s.b, st)
        ended == IF e.result = "continue" THEN Landed(e) ELSE e
        d == Decide(ended, s.c, "")
    IN  CASE st.rounds = 0 -> Cant(st)
          [] st.rounds > 0 /\ e.result = "null" /\ e.start # Null -> e
          [] st.rounds > 0 /\ e.result = "break" -> IF Higher(s, e) THEN e ELSE Landed(e)
          [] st.rounds > 0 /\ ((e.result = "null" /\ e.start = Null)
                                \/ (e.result = "continue" /\ ~Higher(s, e))) ->
                IF d.st.result = "cant" \/ ~d.value THEN d.st
                ELSE InterpretDo(s, [d.st EXCEPT !.rounds = @ - 1])
          [] OTHER -> e

(* visit(ForStatement); the increment is the event s.n *)
RECURSIVE InterpretFor(_, _)
InterpretFor(s, st) ==
    LET d == IF st.start = Null THEN Decide(st, s.c, "") ELSE [st |-> st, value |-> TRUE]
        e == Interpret(s.b, d.st)
        ended == IF e.result = "continue" THEN Landed(e) ELSE e
    IN  CASE st.rounds = 0 -> Cant(st)
          [] st.rounds > 0 /\ (d.st.result = "cant" \/ ~d.value) -> d.st
          [] st.rounds > 0 /\ d.st.result # "cant" /\ d.value ->
                CASE e.result = "null" /\ e.start # Null -> e
                  [] e.result = "break" -> IF Higher(s, e) THEN e ELSE Landed(e)
                  [] (e.result = "null" /\ e.start = Null) \/ (e.result = "continue" /\ ~Higher(s, e)) ->
                        InterpretFor(s, [ended EXCEPT !.events = Append(@, s.n), !.rounds = @ - 1])
                  [] OTHER -> e

(* visit(SwitchStatement): a choice of TRUE selects the case *)
InterpretSwitch(s, st) ==
    LET d == IF st.start = Null THEN Decide(st, "?", "") ELSE [st |-> st, value |-> TRUE]
        from == IF st.start # Null THEN d.st
                ELSE [d.st EXCEPT !.start = IF d.value THEN AtCase(s.l) ELSE AtDefault(s.l)]
        e == Interpret(s.b, from)
    IN  IF d.st.result = "cant" THEN d.st
        ELSE IF e.result = "break" /\ ~Higher(s, e) THEN Landed(e) ELSE e

(* A handler or the body of a with statement is searched for the target of   *)
(* a goto out of it, once.                                                   *)
SearchAgain(s, e) ==
    LET x == Interpret(s, [e EXCEPT !.start = e.gotoTarget, !.gotoTarget = Null, !.result = "null"])
    IN  IF e.result = "goto" /\ x.start = Null THEN [x EXCEPT !.gotoTarget = Null] ELSE e

(* visit(TryCatchStatement) *)
InterpretHandler(s, e) ==
    LET Fits(i) == Catches(s.cs[i].ty, e.thrown)
        i == CHOOSE j \in DOMAIN s.cs : Fits(j) /\ \A k \in 1 .. j - 1 : ~Fits(k)
        c == s.cs[i]
        handled == Interpret(c.h, [e EXCEPT !.result = "null",
                                            !.caught = (c.v :> e.thrown) @@ @])
    IN  IF \E j \in DOMAIN s.cs : Fits(j) THEN SearchAgain(c.h, handled) ELSE e

InterpretTryCatch(s, st) ==
    LET e == Interpret(s.b, st)
        Seek(a, c) == IF a.result = "null" /\ a.start # Null THEN Interpret(c.h, a) ELSE a
    IN  IF st.start # Null THEN FoldLeft(Seek, e, s.cs)
        ELSE IF e.result = "throw" THEN InterpretHandler(s, e) ELSE e

(* chainExceptions: which of two collided exceptions goes on *)
ChainExceptions(oldest, newest) ==
    IF newest = "Error" /\ oldest # "Error" THEN newest ELSE oldest

(* visit(TryFinallyStatement): jumps inside the body first, then the finally *)
(* body, in the same InterState as the jump that is pending                  *)
RECURSIVE JumpsWithin(_, _)
JumpsWithin(b, ex) ==
    LET x == Interpret(b, [ex EXCEPT !.start = ex.gotoTarget, !.gotoTarget = Null, !.result = "null",
                                     !.rounds = @ - 1])
    IN  IF ex.result # "goto" THEN ex
        ELSE IF ex.rounds = 0 THEN Cant(ex)
        ELSE IF x.start # Null THEN ex
        ELSE IF x.result = "cant" THEN x ELSE JumpsWithin(b, x)

InterpretTryFinally(s, st) ==
    LET first == Interpret(s.b, st)
        ex == JumpsWithin(s.b, first)
        ey == Interpret(s.f, Cleared(ex))
    IN  CASE st.start # Null -> first
          [] st.start = Null /\ ex.result = "cant" -> ex
          [] st.start = Null /\ ex.result # "cant" ->
                CASE ey.result = "cant" -> ey
                  [] ey.result = "throw" /\ ex.result = "throw" ->
                        [ey EXCEPT !.thrown = ChainExceptions(ex.thrown, ey.thrown)]
                  [] ey.result = "throw" /\ ex.result # "throw" -> ey
                  [] OTHER -> [ey EXCEPT !.result = ex.result, !.thrown = ex.thrown]

(* visit(BreakStatement), visit(ContinueStatement), visit(GotoStatement),    *)
(* visit(GotoCaseStatement), visit(GotoDefaultStatement), findGotoTarget     *)
InterpretJump(s, st) ==
    CASE s.k \in {"break", "continue"} ->
            [st EXCEPT !.result = s.k, !.gotoTarget = IF s.to = "" THEN Null ELSE AtLoop(s.to)]
      [] s.k = "goto" -> [st EXCEPT !.result = "goto", !.gotoTarget = AtLabel(s.to)]
      [] s.k = "gotocase" -> [st EXCEPT !.result = "goto", !.gotoTarget = AtCase(s.sw)]
      [] s.k = "gotodefault" -> [st EXCEPT !.result = "goto", !.gotoTarget = AtDefault(s.sw)]

(* The statements that do nothing while a target is looked for *)
InterpretLeaf(s, st) ==
    CASE st.start # Null -> st
      [] st.start = Null /\ s.k \in {"exp", "call"} -> InterpretExp(s, st)
      [] st.start = Null /\ s.k = "logical" -> InterpretLogical(s, st)
      [] st.start = Null /\ s.k = "conditional" -> InterpretConditional(s, st)
      [] st.start = Null /\ s.k = "temp" -> [st EXCEPT !.temps = (s.v :> s.to) @@ @]
      [] st.start = Null /\ s.k = "halt" -> Cant(st)
      [] st.start = Null /\ s.k = "return" -> With_(st, "return")
      [] st.start = Null /\ s.k = "throw" -> [st EXCEPT !.result = "throw", !.thrown = s.ty]
      [] st.start = Null /\ s.k = "rethrow" -> [st EXCEPT !.result = "throw", !.thrown = st.caught[s.v]]
      [] OTHER -> InterpretJump(s, st)

Interpret(s, st) ==
    CASE s.k = "compound" -> InterpretCompound(s.ss, st)
      [] s.k = "unrolled" -> InterpretUnrolled(s, st)
      [] s.k = "if" -> InterpretIf(s, st)
      [] s.k = "do" -> InterpretDo(s, Arrive(st, AtLoop(s.l)))
      [] s.k = "for" -> InterpretFor(s, Arrive(st, AtLoop(s.l)))
      [] s.k = "switch" -> InterpretSwitch(s, Arrive(st, AtLoop(s.l)))
      [] s.k = "case" -> Interpret(s.b, Arrive(st, AtCase(s.sw)))
      [] s.k = "default" -> Interpret(s.b, Arrive(st, AtDefault(s.sw)))
      [] s.k = "label" -> Interpret(s.b, Arrive(st, AtLabel(s.l)))
      [] s.k = "with" -> SearchAgain(s.b, Interpret(s.b, st))
      [] s.k = "trycatch" -> InterpretTryCatch(s, st)
      [] s.k = "tryfinally" -> InterpretTryFinally(s, st)
      [] OTHER -> InterpretLeaf(s, st)

(* interpret(FuncDeclaration): the body, again and again while the result is *)
(* a jump                                                                    *)
RECURSIVE InterpretBody(_, _)
InterpretBody(fbody, st) ==
    LET e == Interpret(fbody, st)
    IN  IF e.result # "goto" THEN e
        ELSE IF e.rounds = 0 THEN Cant(e)
        ELSE InterpretBody(fbody, [e EXCEPT !.start = e.gotoTarget, !.gotoTarget = Null,
                                            !.result = "null", !.rounds = @ - 1])
=============================================================================
