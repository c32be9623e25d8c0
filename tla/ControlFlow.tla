---------------------------- MODULE ControlFlow ----------------------------
(* A function runs as compiled: the code of Lowering, step by step, as GCC   *)
(* and the exception handling of the runtime (gcc/deh.d) run it.  What it    *)
(* does is compared with what the compile-time interpreter does with the     *)
(* same statements, and with what semantic analysis concluded about them.    *)
EXTENDS Lowering, CtfeStatements, CtorFlow

CONSTANTS
    Programs,     \* functions, a sequence of records: the body, and is it a constructor?
    MaxChoices,   \* bound: choices a run makes (open conditions, calls that may throw)
    MaxEvents,    \* bound: events of a run
    MaxRounds     \* bound: rounds the interpreter makes

ASSUME BoundsAssumption ==
    MaxChoices \in Nat /\ MaxEvents \in Nat /\ MaxRounds \in Nat

(* FuncDeclaration::semantic3 *)
Semantic3(f, drop) ==
    LET fbody == Semantic(f.body, drop)
    IN  IF f.ctor THEN FinishConstructor(f.body, fbody) ELSE fbody
Accepted(f) ==
    Legal(f.body) /\ (f.ctor => AcceptsConstructor(f.body, Semantic(f.body, TRUE)))

(* GCC refuses a function with a jump to a label that stands nowhere. *)
Linked(instructions) ==
    LET Those(ops) == SelectSeq(instructions, LAMBDA x : x.op \in ops)
        Labels(ops) == {Those(ops)[i].to : i \in DOMAIN Those(ops)}
    IN  Labels({"goto", "unless"}) \subseteq Labels({"label"})

VARIABLES
    program,   \* the function that runs
    code,      \* what it was compiled to
    pc,        \* the next instruction
    exc,       \* the class of the exception in flight to a handler
    pending,   \* the transfers that wait for the cleanups being run, innermost last
    temps,     \* the temporaries of scope guards
    caught,    \* the variables of handlers
    choices,   \* the choices made
    events,    \* the events so far
    outcome    \* how the function ended, if it has, and if GCC took it

vars == <<program, code, pc, exc, pending, temps, caught, choices, events, outcome>>

Init ==
    /\ program \in {i \in DOMAIN Programs : Accepted(Programs[i])}
    /\ code = Lower(Semantic3(Programs[program], TRUE), FunctionContext)
    /\ outcome = IF Linked(code) THEN "running" ELSE "refused"
    /\ pc = 1 /\ exc = "" /\ pending = <<>> /\ temps = <<>> /\ caught = <<>>
    /\ choices = <<>> /\ events = <<>>

ins == code[pc]
Position(label) == CHOOSE i \in DOMAIN code : code[i].op = "label" /\ code[i].to = label

(* A transfer of control: to a label, out of the function, or of an          *)
(* exception; "none" goes on behind the cleanup.                             *)
ToLabel(label) == [k |-> "goto", to |-> label, ty |-> ""]
Out == [k |-> "return", to |-> <<>>, ty |-> ""]
Raise(ty) == [k |-> "throw", to |-> <<>>, ty |-> ty]
GoOn == [k |-> "none", to |-> <<>>, ty |-> ""]

Handles(r, t) == r.k = "catch" /\ t.k = "throw" /\ \E i \in DOMAIN r.handlers : Catches(r.handlers[i].ty, t.ty)
FirstHandler(r, t) ==
    LET i == CHOOSE j \in DOMAIN r.handlers :
                /\ Catches(r.handlers[j].ty, t.ty)
                /\ \A h \in 1 .. j - 1 : ~Catches(r.handlers[h].ty, t.ty)
    IN  r.handlers[i].label

(* The exceptions that wait for the cleanups a throw leaves are chained with *)
(* it (__gdc_personality): the oldest goes on, unless an Error bypasses it.  *)
Collided(t, waiting) ==
    FoldRight(LAMBDA w, newest : IF w.k # "throw" THEN newest
                                 ELSE Raise(ChainExceptions(w.ty, newest.ty)),
              waiting, t)

(* Transfer t leaves, from the inside, the regions eh that its target is not *)
(* in.  It stops at the first TRY_FINALLY_EXPR it leaves, whose cleanup runs *)
(* with t pending, or at a handler; a transfer that waited for a cleanup     *)
(* that t leaves is forgotten.                                               *)
Transfer(t, eh, waiting) ==
    LET target == IF t.k = "goto" THEN code[Position(t.to)].eh ELSE <<>>
        Left == {i \in DOMAIN eh : ~IsPrefix(SubSeq(eh, 1, i), target)}
        Cleanups(i) == Cardinality({j \in Left : j > i /\ eh[j].k = "cleanup"})
        Arrived(i) == SubSeq(waiting, 1, Len(waiting) - Cleanups(i))
        Final(i) == IF t.k = "throw" THEN Collided(t, SubSeq(waiting, Len(waiting) - Cleanups(i) + 1, Len(waiting)))
                    ELSE t
        Stops == {i \in Left : eh[i].k = "finally" \/ Handles(eh[i], Final(i))}
        stop == IF Stops = {} THEN 0 ELSE CHOOSE i \in Stops : \A j \in Stops : j <= i
        r == eh[stop]
    IN  CASE stop > 0 /\ r.k = "finally" ->
                /\ pc' = Position(InnerLabel("cleanup", r.at))
                /\ pending' = Append(Arrived(stop), Final(stop))
                /\ UNCHANGED <<exc, outcome>>
          [] stop > 0 /\ r.k = "catch" ->
                /\ pc' = Position(FirstHandler(r, Final(stop)))
                /\ exc' = Final(stop).ty
                /\ pending' = Arrived(stop)
                /\ UNCHANGED outcome
          [] stop = 0 /\ t.k = "goto" ->
                /\ pc' = Position(t.to)
                /\ pending' = Arrived(0)
                /\ UNCHANGED <<exc, outcome>>
          [] stop = 0 /\ t.k = "return" ->
                /\ outcome' = "return"
                /\ pending' = <<>>
                /\ UNCHANGED <<pc, exc>>
          [] stop = 0 /\ t.k = "throw" ->
                /\ outcome' = "throw"
                /\ exc' = Final(0).ty
                /\ pending' = <<>>
                /\ UNCHANGED pc

Running(op) == outcome = "running" /\ pc <= Len(code) /\ ins.op = op
Step == pc' = pc + 1 /\ UNCHANGED <<exc, pending, outcome>>
Choose(value) == Len(choices) < MaxChoices /\ choices' = Append(choices, value)
Note == Len(events) < MaxEvents /\ events' = Append(events, ins.arg)

TakeJump ==
    /\ Running("goto")
    /\ Transfer(ToLabel(ins.to), ins.eh, pending)
    /\ UNCHANGED <<program, code, temps, caught, choices, events>>

PassLabel ==
    /\ Running("label")
    /\ Step
    /\ UNCHANGED <<program, code, temps, caught, choices, events>>

(* if (condition) ; else goto label *)
Known == CASE ins.arg.c \in {"T", "none"} -> {TRUE}
           [] ins.arg.c = "F" -> {FALSE}
           [] ins.arg.c = "unset" -> {~temps[ins.arg.v]}
           [] ins.arg.c = "?" -> BOOLEAN

Branch(holds) ==
    /\ Running("unless") /\ holds \in Known
    /\ IF ins.arg.c = "?" THEN Choose(holds) ELSE choices' = choices
    /\ IF holds THEN Step ELSE Transfer(ToLabel(ins.to), ins.eh, pending)
    /\ UNCHANGED <<program, code, temps, caught, events>>

Event ==
    /\ Running("event")
    /\ Note /\ Step
    /\ UNCHANGED <<program, code, temps, caught, choices>>

CallReturns ==
    /\ Running("call")
    /\ Note /\ Choose(FALSE) /\ Step
    /\ UNCHANGED <<program, code, temps, caught>>

CallThrows ==
    /\ Running("call")
    /\ Note /\ Choose(TRUE) /\ Transfer(Raise("Exception"), ins.eh, pending)
    /\ UNCHANGED <<program, code, temps, caught>>

SetTemp ==
    /\ Running("set")
    /\ temps' = (ins.arg.v :> ins.arg.to) @@ temps
    /\ Step
    /\ UNCHANGED <<program, code, caught, choices, events>>

ThrowNew ==
    /\ Running("throw")
    /\ Transfer(Raise(ins.arg), ins.eh, pending)
    /\ UNCHANGED <<program, code, temps, caught, choices, events>>

ThrowAgain ==
    /\ Running("rethrow")
    /\ Transfer(Raise(caught[ins.arg]), ins.eh, pending)
    /\ UNCHANGED <<program, code, temps, caught, choices, events>>

ReturnNow ==
    /\ Running("return")
    /\ Transfer(Out, ins.eh, pending)
    /\ UNCHANGED <<program, code, temps, caught, choices, events>>

BeginCatch ==
    /\ Running("begin_catch")
    /\ caught' = (ins.arg :> exc) @@ caught
    /\ Step
    /\ UNCHANGED <<program, code, temps, choices, events>>

(* The body of a TRY_FINALLY_EXPR has ended, its cleanup begins. *)
EnterCleanup ==
    /\ Running("enter")
    /\ pc' = pc + 1
    /\ pending' = Append(pending, GoOn)
    /\ UNCHANGED <<program, code, exc, temps, caught, choices, events, outcome>>

(* The cleanup has ended: what waited for it goes on. *)
ResumeTransfer ==
    /\ Running("resume")
    /\ IF Last(pending).k = "none"
       THEN pc' = pc + 1 /\ pending' = Front(pending) /\ UNCHANGED <<exc, outcome>>
       ELSE Transfer(Last(pending), ins.eh, Front(pending))
    /\ UNCHANGED <<program, code, temps, caught, choices, events>>

HaltNow ==
    /\ Running("halt")
    /\ outcome' = "halt"
    /\ UNCHANGED <<program, code, pc, exc, pending, temps, caught, choices, events>>

EndOfBody ==
    /\ outcome = "running" /\ pc = Len(code) + 1
    /\ outcome' = "null"
    /\ UNCHANGED <<program, code, pc, exc, pending, temps, caught, choices, events>>

Next ==
    \/ TakeJump \/ PassLabel \/ (\E holds \in BOOLEAN : Branch(holds)) \/ Event
    \/ CallReturns \/ CallThrows \/ SetTemp \/ ThrowNew \/ ThrowAgain \/ ReturnNow
    \/ BeginCatch \/ EnterCleanup \/ ResumeTransfer \/ HaltNow \/ EndOfBody

Spec == Init /\ [][Next]_vars
-----------------------------------------------------------------------------
Ended == outcome \notin {"running", "refused"}
Interpreted(tree) == InterpretBody(tree, StartState(choices, MaxRounds))

(* The run and the interpretation of a tree had the same events, made the    *)
(* same choices and ended the same way.  CTFE gives up at assert(0).         *)
SameRun(e) ==
    /\ e.events = events
    /\ e.choices = <<>>
    /\ e.result = (IF outcome = "halt" THEN "cant" ELSE outcome)
    /\ outcome = "throw" => e.thrown = exc

(* A function does at compile time what it does at run time: the jumps, the  *)
(* handlers and the finally bodies that the interpreter finds by walking the *)
(* tree are those that the compiled code runs into.                          *)
Analysed(drop) == Semantic3(Programs[program], drop)
CompileTimeAsRunTime == Ended => SameRun(Interpreted(Analysed(TRUE)))

(* Semantic analysis may drop the try statements it drops: with them kept,   *)
(* the function does the same.                                               *)
RewritingKeepsMeaning == Ended => SameRun(Interpreted(Analysed(FALSE)))

(* No function ends in a way that blockExit says it cannot: on that depend   *)
(* the check for a missing return, nothrow, and the dropped try statements.  *)
BlockExitSound ==
    Ended =>
    LET ways == BlockExit(Analysed(TRUE))
    IN  /\ outcome = "null" => "fallthru" \in ways
        /\ outcome = "return" => "return" \in ways
        /\ outcome = "halt" => "halt" \in ways
        /\ outcome = "throw" => (IF exc = "Error" THEN "errthrow" ELSE "throw") \in ways

(* A constructor that is accepted and that returns has called the            *)
(* constructor of the base class exactly once, whichever branches it took,   *)
(* and has initialised the field that must be; no run calls the one twice,   *)
(* or initialises a field twice that cannot be modified.                     *)
Times(n) == Cardinality({i \in DOMAIN events : events[i] = n})
ConstructsOnce ==
    Programs[program].ctor =>
        /\ Times("super") <= 1 /\ Times("const") <= 1
        /\ outcome \in {"null", "return"} => Times("super") = 1 /\ Times("must") >= 1
=============================================================================
