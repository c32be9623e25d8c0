----------------------------- MODULE CtfeStack ------------------------------
(* The stack of variables of the compile-time interpreter                    *)
(* (dfrontend/interpret.c, struct CtfeStack).  A variable has one address,   *)
(* ctfeAdrOnStack, that all activations of its function share: a slot keeps  *)
(* the address its variable had before, and leaving the frame puts it back.  *)
(* A reference parameter holds the VarExp of the variable it refers to,      *)
(* unless that variable belongs to the function called: then the parameter   *)
(* takes over its address.                                                   *)
EXTENDS Integers, FiniteSets, SequencesExt

CONSTANTS
    Funcs,           \* functions
    Params,          \* [Funcs -> Seq(variables)]: their ref parameters
    Locals,          \* [Funcs -> SUBSET variables]: their local variables
    Dollars,         \* [Funcs -> SUBSET variables]: lengthVar of their index expressions
    Start,           \* the function that is interpreted
    RepeatedArgs,    \* whether a call may pass what ArgsApart excludes
    MaxFrames,       \* bound: frames on the stack
    MaxValues        \* bound: values stored

ASSUME StackAssumption ==
    /\ Start \in Funcs /\ RepeatedArgs \in BOOLEAN
    /\ MaxFrames \in Nat \ {0} /\ MaxValues \in Nat

Own(fd) == Locals[fd] \cup Dollars[fd] \cup ToSet(Params[fd])
Vars == UNION {Own(fd) : fd \in Funcs}

(* A variable is declared in one place, and so belongs to one function.      *)
ASSUME DeclaredOnce ==
    /\ IsFiniteSet(Vars)
    /\ \A fn \in Funcs :
        /\ Params[fn] \in Seq(Vars) /\ IsInjective(Params[fn])
        /\ Locals[fn] \cap Dollars[fn] = {}
        /\ (Locals[fn] \cup Dollars[fn]) \cap ToSet(Params[fn]) = {}
    /\ \A f, g \in Funcs : f # g => Own(f) \cap Own(g) = {}

VARIABLES
    adr,        \* VarDeclaration::ctfeAdrOnStack, 0 for -1: slots are counted from 1
    slots,      \* vars, values and savedId, slot by slot
    fp,         \* framepointer: the slots below the current frame
    frames,     \* saved framepointers, each with the function of its frame and,
                \* for FramesRestored only, the addresses when the call began
    fd,         \* InterState::fd of the current frame
    open,       \* the lengthVars and the locals of the current frame whose index
                \* expression or initializer is being interpreted, innermost last
    aborted,    \* an assertion has failed: the compiler ends
    envs,       \* reference: the location of each variable, frame by frame
    store       \* reference: the value of each location

vars == <<adr, slots, fp, frames, fd, open, aborted, envs, store>>

NULL == [kind |-> "null"]
Literal(n) == [kind |-> "literal", value |-> n]
VarExp(v) == [kind |-> "var", var |-> v]

Mem(a, s) == [adr |-> a, slots |-> s]
Now == Mem(adr, slots)
GetValue(m, v) == m.slots[m.adr[v]].value
HasValue(m, v) == m.adr[v] # 0 /\ GetValue(m, v) # NULL
SetValue(m, v, e) == [m EXCEPT !.slots[m.adr[v]].value = e]

(* CtfeStack::push, for a frame that starts above slot base *)
Push_Reused(m, base, v) ==      \* seeded fault: the slot of an outer frame is taken
    IF m.adr[v] > 0
    THEN SetValue(m, v, NULL)
    ELSE Mem([m.adr EXCEPT ![v] = Len(m.slots) + 1],
             Append(m.slots, [var |-> v, value |-> NULL, saved |-> m.adr[v]]))
Push(m, base, v) ==
    IF m.adr[v] > base
    THEN SetValue(m, v, NULL)
    ELSE Mem([m.adr EXCEPT ![v] = Len(m.slots) + 1],
             Append(m.slots, [var |-> v, value |-> NULL, saved |-> m.adr[v]]))

(* CtfeStack::pop: the address goes back; the slot goes only when the        *)
(* address put back is the one of the last slot.                             *)
Pop(m, v) ==
    LET old == m.slots[m.adr[v]].saved
        a == [m.adr EXCEPT ![v] = old]
    IN  IF old = Len(m.slots) THEN Mem(a, Front(m.slots)) ELSE Mem(a, m.slots)

(* CtfeStack::popAll: upward, so that the highest slot of a variable decides *)
PopAll_Dropped(m, base) ==      \* seeded fault: the addresses are not put back
    Mem(m.adr, SubSeq(m.slots, 1, base))
PopAll(m, base) ==
    LET Of(v) == {i \in base + 1 .. Len(m.slots) : m.slots[i].var = v}
    IN  Mem([v \in Vars |-> IF Of(v) = {} THEN m.adr[v]
                            ELSE m.slots[CHOOSE i \in Of(v) : \A k \in Of(v) : k <= i].saved],
            SubSeq(m.slots, 1, base))

(* Interpreter::visit(VarExp) for an lvalue: "Strip off the nest of ref      *)
(* variables", each of which is stripped off once at most.                   *)
Strip(v) ==
    IF HasValue(Now, v) /\ GetValue(Now, v).kind = "var" THEN GetValue(Now, v).var ELSE v
Lvalue(v) ==
    LET nest[n \in 0 .. Cardinality(Vars)] == IF n = 0 THEN v ELSE Strip(nest[n - 1])
    IN  nest[Cardinality(Vars)]

(* interpret(FuncDeclaration): parameter v takes the argument VarExp(vx)     *)
Bind_LateAddress(m, base, callee, v, vx) ==     \* seeded fault: oldadr read after the push
    LET m1 == Push(m, base, v)
        m2 == Push(m1, base, vx)
    IN  IF vx \in Own(callee)
        THEN [m2 EXCEPT !.adr[v] = m2.adr[vx]]
        ELSE SetValue(m1, v, VarExp(vx))
Bind(m, base, callee, v, vx) ==
    LET m1 == Push(m, base, v)
        m2 == Push(m1, base, vx)
    IN  IF vx \in Own(callee)
        THEN [m2 EXCEPT !.adr[v] = m1.adr[vx]]
        ELSE SetValue(m1, v, VarExp(vx))

BindAll(m, base, callee, eargs) ==      \* the memory after each parameter
    LET mems[i \in 0 .. Len(Params[callee])] ==
            IF i = 0 THEN m ELSE Bind(mems[i - 1], base, callee, Params[callee][i], eargs[i])
    IN  mems

(* No argument is, behind its references, a parameter of the function called *)
(* or a variable passed twice to it.                                         *)
ArgsApart(callee, eargs) ==
    /\ ToSet(eargs) \cap ToSet(Params[callee]) = {}
    /\ \A i, k \in DOMAIN eargs : eargs[i] = eargs[k] /\ eargs[i] \in Own(callee) => i = k
-----------------------------------------------------------------------------
Env == Last(envs)
InScope == {v \in Own(fd) : Env[v] # 0}
Assignable == InScope \ Dollars[fd]
NoEnv == [v \in Vars |-> 0]

Init ==
    /\ adr = [v \in Vars |-> 0]
    /\ slots = <<>> /\ fp = 0 /\ frames = <<>> /\ fd = Start /\ open = <<>>
    /\ aborted = FALSE
    /\ envs = <<NoEnv>> /\ store = <<>>

Remember(m) == adr' = m.adr /\ slots' = m.slots

(* v has a fresh value, in a location of its own *)
Locate(v) ==
    /\ store' = Append(store, Len(store) + 1)
    /\ envs' = Append(Front(envs), [Env EXCEPT ![v] = Len(store) + 1])

(* visit(DeclarationExp) up to the initializer, which is interpreted with     *)
(* the variable on the stack; one interpreted again starts afresh.           *)
Declare(v) ==
    /\ ~aborted /\ v \in Locals[fd] \ ToSet(open)
    /\ Remember(Push(Now, fp, v))
    /\ open' = Append(open, v)
    /\ envs' = Append(Front(envs), [Env EXCEPT ![v] = 0])
    /\ UNCHANGED <<fp, frames, fd, aborted, store>>

(* The construction that ends it: the variable takes the value               *)
Initialize ==
    /\ ~aborted /\ open # <<>> /\ Last(open) \in Locals[fd] /\ Len(store) < MaxValues
    /\ Remember(SetValue(Now, Last(open), Literal(Len(store) + 1)))
    /\ Locate(Last(open))
    /\ open' = Front(open)
    /\ UNCHANGED <<fp, frames, fd, aborted>>

(* Index and slice expressions: $ exists while the index is interpreted *)
PushDollar(v) ==
    /\ ~aborted /\ v \in Dollars[fd] \ ToSet(open) /\ Len(store) < MaxValues
    /\ Remember(SetValue(Push(Now, fp, v), v, Literal(Len(store) + 1)))
    /\ Locate(v)
    /\ open' = Append(open, v)
    /\ UNCHANGED <<fp, frames, fd, aborted>>

PopDollar ==
    /\ ~aborted /\ open # <<>> /\ Last(open) \in Dollars[fd]
    /\ Remember(Pop(Now, Last(open)))
    /\ open' = Front(open)
    /\ envs' = Append(Front(envs), [Env EXCEPT ![Last(open)] = 0])
    /\ UNCHANGED <<fp, frames, fd, aborted, store>>

(* interpretAssignCommon to a variable, of a value that needs no call; the    *)
(* value takes the number of a location that no variable has                 *)
Assign(v) ==
    /\ ~aborted /\ v \in Assignable /\ Len(store) < MaxValues
    /\ LET n == Len(store) + 1
       IN  /\ Remember(SetValue(Now, Lvalue(v), Literal(n)))
           /\ store' = Append([store EXCEPT ![Env[v]] = n], n)
    /\ UNCHANGED <<fp, frames, fd, open, aborted, envs>>

(* interpret(FuncDeclaration) up to the body: the arguments are made lvalues *)
(* in the caller's frame, then the frame starts and the parameters are bound *)
(* one after the other.                                                      *)
Call(callee, args) ==
    LET eargs == [i \in DOMAIN args |-> Lvalue(args[i])]
        mems == BindAll(Now, Len(slots), callee, eargs)
        asserts == \A i \in DOMAIN args : HasValue(mems[i], Params[callee][i])
    IN  /\ ~aborted /\ Len(frames) + 1 < MaxFrames
        /\ RepeatedArgs \/ ArgsApart(callee, eargs)
        /\ aborted' = ~asserts
        /\ Remember(mems[Len(args)])
        /\ frames' = Append(frames, [fp |-> fp, fd |-> fd, open |-> open, adr |-> adr])
        /\ fp' = Len(slots) /\ fd' = callee /\ open' = <<>>
        /\ envs' = Append(envs, [v \in Vars |->
                        IF \E i \in DOMAIN args : Params[callee][i] = v
                        THEN Env[args[CHOOSE i \in DOMAIN args : Params[callee][i] = v]] ELSE 0])
        /\ store' = store

(* CtfeStack::endFrame *)
Return ==
    /\ ~aborted /\ frames # <<>> /\ open = <<>>
    /\ Remember(PopAll(Now, fp))
    /\ fp' = Last(frames).fp /\ fd' = Last(frames).fd /\ open' = Last(frames).open
    /\ frames' = Front(frames) /\ envs' = Front(envs)
    /\ UNCHANGED <<aborted, store>>

Next ==
    \/ \E v \in Vars : Declare(v) \/ PushDollar(v) \/ Assign(v)
    \/ Initialize \/ PopDollar
    \/ \E callee \in Funcs : \E args \in [DOMAIN Params[callee] -> Assignable] : Call(callee, args)
    \/ Return

Spec == Init /\ [][Next]_vars
-----------------------------------------------------------------------------
TypeOK ==
    /\ adr \in [Vars -> 0 .. Len(slots)]
    /\ \A i \in DOMAIN slots : slots[i].var \in Vars /\ slots[i].saved \in 0 .. i - 1
    /\ fp \in 0 .. Len(slots)
    /\ Len(envs) = Len(frames) + 1

(* Every variable in scope reads as the language says: a local variable has  *)
(* the value of its own activation, however often its function runs          *)
(* recursively above it, and a reference parameter reads through to the      *)
(* caller's variable.                                                        *)
ReadsAgree ==
    ~aborted => \A v \in InScope :
        /\ HasValue(Now, Lvalue(v))
        /\ GetValue(Now, Lvalue(v)) = Literal(store[Env[v]])

(* The assertions on the reference parameters: "vx is made uninitialized"    *)
(* and "ref parameter v should refer existing value".                        *)
AssertionsHold == ~aborted

(* The end of a call leaves every variable of the program at the address it  *)
(* had when the call began: those of the caller and of the activations under *)
(* it, and the variables that the two functions share when one calls itself. *)
FramesRestored ==
    [][Len(frames') < Len(frames) => adr' = Last(frames).adr]_vars
=============================================================================
