----------------------------- MODULE Statements -----------------------------
(* The statement trees of the D front end (dfrontend/statement.h) and what   *)
(* semantic analysis computes from them: how control can leave a statement   *)
(* (Statement::blockExit), which jumps are legal, and the rewriting of scope *)
(* guards and of try statements that need none.  A statement is a record; k  *)
(* names its class.  An expression statement is an event, n; a call, an      *)
(* event that may end in an Exception; or a logical or conditional           *)
(* expression of these.  A condition is constant ("T", "F"),                 *)
(* open ("?") or the test that the temporary of a scope guard is unset.      *)
(* Loops and switches have distinct names, and a label has the name of the   *)
(* loop it stands before, or of its own.                                     *)
EXTENDS Naturals, Sequences, SequencesExt, FiniteSets, TLC

Compound(ss) == [k |-> "compound", ss |-> ss]
Exp(n) == [k |-> "exp", n |-> n]
Call(n) == [k |-> "call", n |-> n]
Logical(op, e) == [k |-> "logical", op |-> op, e |-> e]   \* "&&" or "||", behind an open condition
Conditional(t, e) == [k |-> "conditional", t |-> t, e |-> e]
Halt == [k |-> "halt"]
Temp(v, to) == [k |-> "temp", v |-> v, to |-> to]   \* v = to, for the temporary of a guard
Throw(ty) == [k |-> "throw", ty |-> ty]             \* ty: "Exception" or "Error"
Rethrow(v) == [k |-> "rethrow", v |-> v]            \* ThrowStatement::internalThrow
Return == [k |-> "return"]
Break(to) == [k |-> "break", to |-> to]             \* to: a label, or "" for none
Continue(to) == [k |-> "continue", to |-> to]
Goto(to) == [k |-> "goto", to |-> to]
GotoCase(sw) == [k |-> "gotocase", sw |-> sw]
GotoDefault(sw) == [k |-> "gotodefault", sw |-> sw]
Unrolled(l, ss) == [k |-> "unrolled", l |-> l, ss |-> ss]
If(c, t, e) == [k |-> "if", c |-> c, t |-> t, e |-> e]
IfUnset_Always(v, t) == If("T", t, Compound(<<>>))  \* seeded fault: the temporary is not tested
IfUnset(v, t) == [k |-> "if", c |-> "unset", v |-> v, t |-> t, e |-> Compound(<<>>)]
Do(l, b, c) == [k |-> "do", l |-> l, b |-> b, c |-> c]
For(l, c, b, n) == [k |-> "for", l |-> l, c |-> c, b |-> b, n |-> n]  \* c "none": no condition
Switch(l, b) == [k |-> "switch", l |-> l, b |-> b]  \* one case and a default
Case(sw, b) == [k |-> "case", sw |-> sw, b |-> b]
Default(sw, b) == [k |-> "default", sw |-> sw, b |-> b]
With(b) == [k |-> "with", b |-> b]
Label(l, b) == [k |-> "label", l |-> l, b |-> b]
Catch(ty, v, h, internal) == [ty |-> ty, v |-> v, h |-> h, internal |-> internal]
TryCatch(b, cs) == [k |-> "trycatch", b |-> b, cs |-> cs]
TryFinally(b, f) == [k |-> "tryfinally", b |-> b, f |-> f]
OnScope(tok, b, v) == [k |-> "onscope", tok |-> tok, b |-> b, v |-> v]

(* The statements directly inside one, in the order of the source *)
Parts(s) ==
    CASE s.k \in {"compound", "unrolled"} -> s.ss
      [] s.k \in {"if", "conditional"} -> <<s.t, s.e>>
      [] s.k = "logical" -> <<s.e>>
      [] s.k \in {"do", "for", "switch", "case", "default", "with", "label", "onscope"} -> <<s.b>>
      [] s.k = "trycatch" -> <<s.b>> \o [i \in DOMAIN s.cs |-> s.cs[i].h]
      [] s.k = "tryfinally" -> <<s.b, s.f>>
      [] OTHER -> <<>>

RECURSIVE SubStatements(_)
SubStatements(s) ==
    {s} \cup UNION {SubStatements(Parts(s)[i]) : i \in DOMAIN Parts(s)}

(* Statement::comeFrom *)
ComeFrom(s) == \E t \in SubStatements(s) : t.k \in {"case", "default", "label"}

Catches(ty, exc) == ty \in {exc, "Throwable"}       \* catch types: classes and Throwable
-----------------------------------------------------------------------------
(* Statement::blockExit: the ways control may leave a statement, a set of    *)
(* the flags of enum BE.  One operator for each visitor that does more than  *)
(* pass on the result of the statement inside.                               *)
RECURSIVE BlockExit(_)

CanThrow(s) == \E t \in SubStatements(s) : t.k = "call"

BlockExitCompound(ss) ==
    FoldLeft(LAMBDA r, s : IF "fallthru" \notin r /\ ~ComeFrom(s) THEN r
                           ELSE (r \ {"fallthru"}) \cup BlockExit(s),
             {"fallthru"}, ss)

BlockExitUnrolled(ss) ==
    FoldLeft(LAMBDA r, s :
                LET e == BlockExit(s)
                    out == r \cup (e \ {"break", "continue", "fallthru"})
                IN  IF e \cap {"fallthru", "continue", "break"} = {} THEN out \ {"fallthru"} ELSE out,
             {"fallthru"}, ss)

BlockExitDo(s) ==
    LET b == BlockExit(s.b)
        ends == IF "continue" \in b THEN b \cup {"fallthru"} ELSE b
        r == IF "break" \notin ends /\ s.c = "T" THEN ends \ {"fallthru"} ELSE ends
    IN  IF b = {"break"} THEN {"fallthru"} ELSE r \ {"break", "continue"}

BlockExitFor(s) ==
    LET r == IF s.c \in {"T", "none"} THEN {} ELSE {"fallthru"}
        b == BlockExit(s.b)
        left == IF b \cap {"break", "goto"} # {} THEN {"fallthru"} ELSE {}
    IN  IF s.c = "F" THEN r ELSE r \cup left \cup (b \ {"fallthru", "break", "continue"})

BlockExitIf(s) ==
    (IF s.c = "F" THEN {} ELSE BlockExit(s.t)) \cup (IF s.c = "T" THEN {} ELSE BlockExit(s.e))

BlockExitSwitch(s) ==
    LET b == BlockExit(s.b)
    IN  IF "break" \in b THEN (b \ {"break"}) \cup {"fallthru"} ELSE b

BlockExitTryCatch(s) ==
    LET Exit(c) == BlockExit(c.h)
        Passes(c) == c.internal /\ "fallthru" \in Exit(c)
        stopped == UNION {CASE Passes(c) -> {}
                            [] ~Passes(c) /\ c.ty = "Throwable" -> {"throw", "errthrow"}
                            [] ~Passes(c) /\ c.ty = "Exception" -> {"throw"}
                            [] OTHER -> {} : c \in ToSet(s.cs)}
        handled == UNION {IF Passes(c) THEN Exit(c) \ {"fallthru"} ELSE Exit(c) : c \in ToSet(s.cs)}
    IN  (BlockExit(s.b) \ stopped) \cup handled

BlockExitTryFinally(s) ==
    LET b == BlockExit(s.b)
        f == BlockExit(s.f)
        final == IF b = {"halt"} THEN {} ELSE f
        body == IF final = {"halt"} THEN {} ELSE b
        kept == IF "fallthru" \in final THEN body ELSE body \ {"fallthru"}
    IN  kept \cup (final \ {"fallthru"})

BlockExitLabel_NoBreak(s) == BlockExit(s.b)         \* seeded fault: breaks to the label are overlooked
BlockExitLabel(s) ==
    BlockExit(s.b) \cup (IF Break(s.l) \in SubStatements(s.b) THEN {"fallthru"} ELSE {})

BlockExit(s) ==
    CASE s.k \in {"exp", "temp", "rethrow", "onscope"} -> {"fallthru"}
      [] s.k \in {"call", "logical", "conditional"} -> {"fallthru"} \cup (IF CanThrow(s) THEN {"throw"} ELSE {})
      [] s.k = "halt" -> {"halt"}
      [] s.k = "throw" -> IF s.ty = "Error" THEN {"errthrow"} ELSE {"throw"}
      [] s.k = "return" -> {"return"}
      [] s.k \in {"break", "continue"} -> IF s.to = "" THEN {s.k} ELSE {"goto"}
      [] s.k \in {"goto", "gotocase", "gotodefault"} -> {"goto"}
      [] s.k = "compound" -> BlockExitCompound(s.ss)
      [] s.k = "unrolled" -> BlockExitUnrolled(s.ss)
      [] s.k = "if" -> BlockExitIf(s)
      [] s.k = "do" -> BlockExitDo(s)
      [] s.k = "for" -> BlockExitFor(s)
      [] s.k = "switch" -> BlockExitSwitch(s)
      [] s.k \in {"case", "default", "with"} -> BlockExit(s.b)
      [] s.k = "label" -> BlockExitLabel(s)
      [] s.k = "trycatch" -> BlockExitTryCatch(s)
      [] s.k = "tryfinally" -> BlockExitTryFinally(s)
-----------------------------------------------------------------------------
(* Every statement of a tree with the Scope it is analysed in: the try and   *)
(* catch blocks around it, sc->tf, sc->os, sc->sbreak, sc->scontinue, the    *)
(* labels in scope (sc->slabel, outward) each with its tf, and the switches  *)
(* around it (sc->sw, outward).                                              *)
(* A statement is named by its path from the root.                           *)
FunctionScope == [at |-> <<>>, guards |-> <<>>, tf |-> <<>>, os |-> <<>>, tok |-> "",
                  sbreak |-> "", scontinue |-> "", slabels |-> {}, sw |-> <<>>]

Push(s, i, sc) ==
    LET c == [sc EXCEPT !.at = Append(@, i)]
    IN  CASE s.k \in {"do", "for", "unrolled"} -> [c EXCEPT !.sbreak = s.l, !.scontinue = s.l]
          [] s.k = "switch" -> [c EXCEPT !.sbreak = s.l, !.sw = Append(@, s.l)]
          [] s.k = "label" -> [c EXCEPT !.slabels = @ \cup {[l |-> s.l, tf |-> sc.tf, loop |-> s.b.k]}]
          [] s.k = "trycatch" -> [c EXCEPT !.guards = Append(@, [at |-> c.at, catches |-> i = 1])]
          [] s.k = "tryfinally" /\ i = 1 -> [c EXCEPT !.guards = Append(@, [at |-> c.at, catches |-> FALSE])]
          [] s.k = "tryfinally" /\ i = 2 -> [c EXCEPT !.tf = sc.at, !.sbreak = "", !.scontinue = ""]
          [] s.k = "onscope" -> IF s.tok = "failure" THEN [c EXCEPT !.tf = <<>>, !.os = c.at, !.tok = s.tok]
                                ELSE [c EXCEPT !.tf = <<>>, !.os = c.at, !.tok = s.tok,
                                               !.sbreak = "", !.scontinue = ""]
          [] OTHER -> c

RECURSIVE Scoped(_, _)
Scoped(s, sc) ==
    {[s |-> s, sc |-> sc]} \cup UNION {Scoped(Parts(s)[i], Push(s, i, sc)) : i \in DOMAIN Parts(s)}

(* The labels a goto can lead to *)
Targets(all, x) ==
    {y \in all : CASE x.s.k = "goto" -> y.s.k = "label" /\ y.s.l = x.s.to
                   [] x.s.k = "gotocase" -> y.s.k = "case" /\ y.s.sw = x.s.sw
                   [] x.s.k = "gotodefault" -> y.s.k = "default" /\ y.s.sw = x.s.sw
                   [] OTHER -> FALSE}

(* GotoStatement::checkLabel, and the check of toir.cc on try and catch      *)
(* blocks (see JumpScopes)                                                   *)
CheckLabel(from, to) ==
    /\ to.os = from.os \/ (from.tok = "failure" /\ to.os = <<>>)
    /\ to.tf = from.tf
    /\ IsPrefix(to.guards, from.guards)

(* What the visitors for jumps and labels accept; GDC has no condition on    *)
(* the place of catches and scope guards.                                    *)
Labelled(x, kinds) == \E ls \in x.sc.slabels : ls.l = x.s.to /\ ls.tf = x.sc.tf /\ ls.loop \in kinds
BreakLegal(x) ==
    IF x.s.to = "" THEN x.sc.sbreak # "" ELSE Labelled(x, {"do", "for", "unrolled", "switch"})
ContinueLegal(x) ==
    IF x.s.to = "" THEN x.sc.scontinue # "" ELSE Labelled(x, {"do", "for", "unrolled"})
GotoLegal(all, x) == \E y \in Targets(all, x) : CheckLabel(x.sc, y.sc)

(* A case or default belongs to the nearest switch, sc->sw. *)
InSwitch(x) == x.sc.sw # <<>> /\ x.s.sw = Last(x.sc.sw)
CaseLegal(all, x) ==
    /\ InSwitch(x)
    /\ \E y \in all : /\ y.s.k = "switch" /\ y.s.l = x.s.sw
                      /\ y.sc.tf = x.sc.tf /\ y.sc.guards = x.sc.guards

(* At the end of a switch its goto cases are looked up in it and, outward,   *)
(* among the cases that the switches around it have so far.                  *)
Before(p, q) ==
    \/ IsPrefix(p, q)
    \/ \E i \in DOMAIN p \cap DOMAIN q : SubSeq(p, 1, i - 1) = SubSeq(q, 1, i - 1) /\ p[i] < q[i]
GotoCaseLegal(all, x) ==
    \/ InSwitch(x)
    \/ \E y \in Targets(all, x) : x.s.sw \in ToSet(x.sc.sw) /\ Before(y.sc.at, x.sc.at)
GotoDefaultLegal(x) == InSwitch(x)
ReturnLegal(x) == x.sc.tok \in {"", "failure"} /\ x.sc.tf = <<>>

Legal(s) ==
    LET all == Scoped(s, FunctionScope)
    IN  \A x \in all : CASE x.s.k = "break" -> BreakLegal(x)
                          [] x.s.k = "continue" -> ContinueLegal(x)
                          [] x.s.k = "goto" -> GotoLegal(all, x)
                          [] x.s.k \in {"case", "default"} -> CaseLegal(all, x)
                          [] x.s.k = "gotocase" -> GotoCaseLegal(all, x)
                          [] x.s.k = "gotodefault" -> GotoDefaultLegal(x)
                          [] x.s.k = "return" -> ReturnLegal(x)
                          [] OTHER -> TRUE
-----------------------------------------------------------------------------
(* The rewriting of semantic analysis.  With drop, try statements that       *)
(* blockExit shows to be of no use are dropped; without it they are kept, to *)
(* compare the two.                                                          *)
RECURSIVE Semantic(_, _)

(* visit(TryCatchStatement): handlers of Exception go when the body throws   *)
(* none                                                                      *)
SemanticTryCatch(b, cs, drop) ==
    LET Useless(c) == "throw" \notin BlockExit(b) /\ c.ty = "Exception" /\ ~ComeFrom(c.h)
        kept == IF drop THEN SelectSeq(cs, LAMBDA c : ~Useless(c)) ELSE cs
    IN  IF kept = <<>> THEN b ELSE TryCatch(b, kept)

(* visit(TryFinallyStatement): no try when the body just ends *)
SemanticTryFinally_NothingThrown(b, f, drop) ==     \* seeded fault: only exceptions are looked at
    IF drop /\ "throw" \notin BlockExit(b) THEN Compound(<<b, f>>) ELSE TryFinally(b, f)
SemanticTryFinally(b, f, drop) ==
    IF drop /\ BlockExit(b) = {"fallthru"} THEN Compound(<<b, f>>) ELSE TryFinally(b, f)

(* visit(CompoundStatement) with OnScopeStatement::scopeCode: the statements *)
(* after a scope guard become the body of the try statement it stands for.   *)
RECURSIVE SemanticList(_, _)
SemanticList(ss, drop) ==
    IF ss = <<>> THEN <<>>
    ELSE LET s == Head(ss)
             rest == SemanticList(Tail(ss), drop)
             guard == Semantic(s.b, drop)
             body == Compound(rest)
             handler == IF "fallthru" \in BlockExit(guard) THEN Compound(<<guard, Rethrow(s.v)>>) ELSE guard
             noted == Compound(<<Temp(s.v, TRUE), Rethrow(s.v)>>)
         IN  CASE s.k # "onscope" -> <<Semantic(s, drop)>> \o rest
               [] s.k = "onscope" /\ s.tok = "exit" -> <<SemanticTryFinally(body, guard, drop)>>
               [] s.k = "onscope" /\ s.tok = "failure" ->
                    IF rest = <<>> THEN <<>>
                    ELSE <<SemanticTryCatch(body, <<Catch("Throwable", s.v, handler, TRUE)>>, drop)>>
               [] s.k = "onscope" /\ s.tok = "success" ->
                    <<Temp(s.v, FALSE),
                      SemanticTryFinally(SemanticTryCatch(body, <<Catch("Throwable", s.v, noted, TRUE)>>, drop),
                                         IfUnset(s.v, guard), drop)>>

Semantic(s, drop) ==
    CASE s.k = "compound" -> Compound(SemanticList(s.ss, drop))
      [] s.k = "unrolled" -> [s EXCEPT !.ss = [i \in DOMAIN @ |-> Semantic(@[i], drop)]]
      [] s.k = "if" -> [s EXCEPT !.t = Semantic(@, drop), !.e = Semantic(@, drop)]
      [] s.k \in {"do", "for", "switch", "case", "default", "with", "label"} ->
            [s EXCEPT !.b = Semantic(@, drop)]
      [] s.k = "trycatch" ->
            SemanticTryCatch(Semantic(s.b, drop),
                             [i \in DOMAIN s.cs |-> [s.cs[i] EXCEPT !.h = Semantic(@, drop)]], drop)
      [] s.k = "tryfinally" -> SemanticTryFinally(Semantic(s.b, drop), Semantic(s.f, drop), drop)
      [] OTHER -> s
=============================================================================
