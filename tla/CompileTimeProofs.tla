------------------------- MODULE CompileTimeProofs --------------------------
(* The variables of the compile-time interpreter (CtfeStack), for all        *)
(* functions that are declared once (DeclaredOnce) and calls whose arguments *)
(* are apart (~RepeatedArgs), by the invariant IInv.                         *)
EXTENDS CtfeStack, FiniteSetTheorems, SequenceTheorems, NaturalsInduction,
        WellFoundedInduction, TLAPS

-------------------------------------------------------------------------------
(* The variables of the interpreter.  The frames on the stack, the current   *)
(* one last, are the levels.                                                 *)
TopLevel == [fp |-> fp, fd |-> fd, open |-> open, adr |-> adr]
Levels == Append(frames, TopLevel)

Below(L, k) == IF k = 1 THEN NoEnv ELSE L[k - 1].adr
TopOf(L, s, k) == IF k = Len(L) THEN Len(s) ELSE L[k + 1].fp

(* The variables that are on the stack while an expression is interpreted    *)
Opened(fn) == Locals[fn] \cup Dollars[fn]

LevelSet == [fp : Nat, fd : Funcs, open : Seq(Vars), adr : [Vars -> Nat]]
Values == [kind : {"null"}] \cup [kind : {"literal"}, value : Nat]
          \cup [kind : {"var"}, var : Vars]
SlotSet == [var : Vars, value : Values, saved : Nat]

(* A slot of a level belongs to a variable of its function and keeps the     *)
(* address the variable has in the level below; a variable that has no slot  *)
(* in the level has its address from there, and so has every variable with   *)
(* an address under the level that is not a parameter.                       *)
LevelOK(s, l, below, top) ==
    /\ l.fp <= top
    /\ \A v \in Vars :
        /\ l.adr[v] <= top
        /\ l.adr[v] > l.fp => s[l.adr[v]].var = v
        /\ l.adr[v] <= l.fp /\ v \notin ToSet(Params[l.fd]) => l.adr[v] = below[v]
        /\ (\A i \in l.fp + 1 .. top : s[i].var # v) => l.adr[v] = below[v]
    /\ \A i \in l.fp + 1 .. top : s[i].var \in Own(l.fd) /\ s[i].saved = below[s[i].var]
    /\ IsInjective(l.open)
    /\ \A i \in DOMAIN l.open : l.open[i] \in Opened(l.fd) /\ l.adr[l.open[i]] > l.fp

(* The variable that v stands for in a level, and its slot *)
Behind(s, l, v) == IF s[l.adr[v]].value.kind = "var" THEN s[l.adr[v]].value.var ELSE v
Place(s, l, v) == l.adr[Behind(s, l, v)]

(* A variable with a location reads its value in a slot, at once or through  *)
(* one reference to a variable of another function.                          *)
ReadOK(s, st, l, e) ==
    \A v \in Own(l.fd) : e[v] # 0 =>
        /\ l.adr[v] # 0
        /\ Behind(s, l, v) = v \/ Behind(s, l, v) \in Vars \ Own(l.fd)
        /\ Place(s, l, v) # 0
        /\ s[Place(s, l, v)].value = Literal(st[e[v]])

(* Two variables share a slot when they share a location. *)
Separate(L, E, s) ==
    \A j, k \in 1 .. Len(L) : \A v \in Own(L[j].fd), w \in Own(L[k].fd) :
        E[j][v] # 0 /\ E[k][w] # 0 =>
            (Place(s, L[j], v) = Place(s, L[k], w) <=> E[j][v] = E[k][w])

StackOK(L, E, s, st) ==
    /\ L \in Seq(LevelSet) /\ E \in Seq([Vars -> Nat]) /\ Len(E) = Len(L) /\ L # <<>>
    /\ s \in Seq(SlotSet) /\ st \in Seq(Nat)
    /\ \A j, k \in 1 .. Len(L) : j <= k => L[j].fp <= L[k].fp
    /\ \A k \in 1 .. Len(L) :
        /\ LevelOK(s, L[k], Below(L, k), TopOf(L, s, k))
        /\ ReadOK(s, st, L[k], E[k])
        /\ \A v \in Vars : E[k][v] <= Len(st)
    /\ Separate(L, E, s)

IInv ==
    /\ ~aborted
    /\ frames \in Seq(LevelSet) /\ TopLevel \in LevelSet
    /\ StackOK(Levels, envs, slots, store)

-------------------------------------------------------------------------------
(* Sequences *)
LEMMA SequenceAppend ==
  ASSUME NEW S, NEW q \in Seq(S), NEW x \in S
  PROVE  /\ Append(q, x) \in Seq(S) /\ Append(q, x) # <<>>
         /\ Len(q) \in Nat /\ Len(Append(q, x)) = Len(q) + 1
         /\ \A i \in 1 .. Len(q) : Append(q, x)[i] = q[i]
         /\ Append(q, x)[Len(q) + 1] = x
         /\ Last(Append(q, x)) = x /\ Front(Append(q, x)) = q
<1> DEFINE r == Append(q, x)
<1>1. /\ r \in Seq(S) /\ r # <<>> /\ Len(q) \in Nat /\ Len(r) = Len(q) + 1
      /\ \A i \in 1 .. Len(q) : r[i] = q[i]
      /\ r[Len(q) + 1] = x
  BY AppendProperties, LenProperties
<1> HIDE DEF r
<1>2. Last(r) = x BY <1>1 DEF Last
<1>3. Front(r) = q
  <2>1. Len(r) - 1 = Len(q) BY <1>1
  <2>2. Front(r) = SubSeq(r, 1, Len(q)) BY <2>1 DEF Front
  <2>3. \A i \in 1 .. Len(q) : r[i] \in S BY <1>1, ElementOfSeq
  <2>4. /\ SubSeq(r, 1, Len(q)) \in Seq(S) /\ Len(SubSeq(r, 1, Len(q))) = Len(q)
        /\ \A i \in 1 .. Len(q) : SubSeq(r, 1, Len(q))[i] = r[i]
    BY <1>1, <2>3, SubSeqProperties
  <2> QED BY <1>1, <2>2, <2>4, SeqEqual
<1> QED BY <1>1, <1>2, <1>3 DEF r

LEMMA SequenceFront ==
  ASSUME NEW S, NEW q \in Seq(S), q # <<>>
  PROVE  /\ Front(q) \in Seq(S) /\ Last(q) \in S
         /\ Len(q) \in Nat \ {0} /\ Len(Front(q)) = Len(q) - 1
         /\ \A i \in 1 .. Len(q) - 1 : Front(q)[i] = q[i]
         /\ Last(q) = q[Len(q)]
         /\ Append(Front(q), Last(q)) = q
<1>1. PICK r \in Seq(S), x \in S : q = Append(r, x) BY SequenceEmptyOrAppend
<1> QED BY <1>1, SequenceAppend DEF Last

LEMMA Prefix ==
  ASSUME NEW S, NEW q \in Seq(S), NEW n \in 0 .. Len(q)
  PROVE  /\ SubSeq(q, 1, n) \in Seq(S) /\ Len(SubSeq(q, 1, n)) = n
         /\ \A i \in 1 .. n : SubSeq(q, 1, n)[i] = q[i]
<1>1. \A i \in 1 .. n : q[i] \in S BY LenProperties, ElementOfSeq
<1>2. n \in Int /\ n >= 0 BY LenProperties
<1>3. /\ SubSeq(q, 1, n) \in Seq(S)
      /\ Len(SubSeq(q, 1, n)) = IF 1 <= n THEN n - 1 + 1 ELSE 0
      /\ \A i \in 1 .. n - 1 + 1 : SubSeq(q, 1, n)[i] = q[1 + i - 1]
  BY <1>1, <1>2, SubSeqProperties
<1> QED BY <1>2, <1>3

(* Variables *)
LEMMA OwnVars ==
  /\ \A fn \in Funcs : Own(fn) \subseteq Vars
  /\ \A fn \in Funcs : \A i \in DOMAIN Params[fn] :
        Params[fn][i] \in Vars /\ Params[fn][i] \in Own(fn) /\ Params[fn][i] \in ToSet(Params[fn])
  /\ \A fn \in Funcs : Opened(fn) \subseteq Own(fn) /\ Opened(fn) \cap ToSet(Params[fn]) = {}
  /\ Start \in Funcs
<1>1. \A fn \in Funcs : Own(fn) \subseteq Vars BY DEF Vars
<1>2. \A fn \in Funcs : \A i \in DOMAIN Params[fn] : Params[fn][i] \in ToSet(Params[fn])
  BY DEF ToSet
<1> QED BY <1>1, <1>2, DeclaredOnce, StackAssumption DEF Own, Opened

(* Values *)
LEMMA ValueFacts ==
  /\ NULL \in Values /\ NULL.kind = "null"
  /\ \A n \in Nat : Literal(n) \in Values /\ Literal(n).kind = "literal"
  /\ \A n, k : Literal(n) = Literal(k) => n = k
  /\ \A v \in Vars : VarExp(v) \in Values /\ VarExp(v).kind = "var" /\ VarExp(v).var = v
  /\ \A e \in Values : e.kind = "var" => e.var \in Vars
  /\ \A n : Literal(n) # NULL
  /\ \A v : VarExp(v) # NULL
<1>1. \A n : Literal(n).kind = "literal" /\ Literal(n).value = n BY DEF Literal
<1>2. \A v : VarExp(v).kind = "var" /\ VarExp(v).var = v BY DEF VarExp
<1>3. NULL.kind = "null" BY DEF NULL
<1>4. NULL \in Values BY DEF NULL, Values
<1>5. \A n \in Nat : Literal(n) \in Values BY DEF Literal, Values
<1>6. \A v \in Vars : VarExp(v) \in Values BY DEF VarExp, Values
<1>7. \A e \in Values : e.kind = "var" => e.var \in Vars BY DEF Values
<1> QED BY <1>1, <1>2, <1>3, <1>4, <1>5, <1>6, <1>7

-------------------------------------------------------------------------------
(* The operations on the memory *)
MemOK(m) ==
    /\ m.adr \in [Vars -> Nat] /\ m.slots \in Seq(SlotSet)
    /\ \A v \in Vars : m.adr[v] <= Len(m.slots)

(* m2 is m after v has got a slot above base, one it had there already or a  *)
(* new one, and the value e in it.                                           *)
SlotFor(m, base, v) == IF m.adr[v] > base THEN m.adr[v] ELSE Len(m.slots) + 1
Entered(m, m2, base, v, e) ==
    /\ MemOK(m2)
    /\ m2.adr = [m.adr EXCEPT ![v] = SlotFor(m, base, v)]
    /\ Len(m2.slots) = IF m.adr[v] > base THEN Len(m.slots) ELSE Len(m.slots) + 1
    /\ \A i \in 1 .. Len(m.slots) :
        /\ m2.slots[i].var = m.slots[i].var /\ m2.slots[i].saved = m.slots[i].saved
        /\ i # SlotFor(m, base, v) => m2.slots[i].value = m.slots[i].value
    /\ m2.slots[SlotFor(m, base, v)].value = e
    /\ ~(m.adr[v] > base) =>
        /\ m2.slots[Len(m.slots) + 1].var = v
        /\ m2.slots[Len(m.slots) + 1].saved = m.adr[v]

(* Storing a value in the slot of a variable enters it.                      *)
LEMMA SetValueIs ==
  ASSUME NEW m, MemOK(m), NEW v \in Vars, m.adr[v] # 0, NEW e \in Values,
         NEW n, n = SetValue(m, v, e), m = Mem(m.adr, m.slots)
  PROVE  /\ n.adr = m.adr /\ n = Mem(n.adr, n.slots)
         /\ n.slots \in Seq(SlotSet) /\ Len(n.slots) = Len(m.slots)
         /\ \A i \in 1 .. Len(m.slots) :
              /\ n.slots[i].var = m.slots[i].var /\ n.slots[i].saved = m.slots[i].saved
              /\ i # m.adr[v] => n.slots[i].value = m.slots[i].value
         /\ n.slots[m.adr[v]].value = e
<1> DEFINE a == m.adr
           s == m.slots
           slot == [s[a[v]] EXCEPT !.value = e]
           t == [s EXCEPT ![a[v]] = slot]
<1>1. a[v] \in 1 .. Len(s) BY LenProperties DEF MemOK
<1>2. s[a[v]] \in SlotSet BY <1>1, ElementOfSeq DEF MemOK
<1>3. /\ slot \in SlotSet /\ slot.value = e
      /\ slot.var = s[a[v]].var /\ slot.saved = s[a[v]].saved
  BY <1>2 DEF SlotSet
<1>4. n = Mem(a, t) BY DEF SetValue, Mem
<1> HIDE DEF slot
<1>5. /\ t \in Seq(SlotSet) /\ Len(t) = Len(s)
      /\ \A i \in 1 .. Len(s) : t[i] = IF i = a[v] THEN slot ELSE s[i]
  BY <1>1, <1>3, ExceptSeq DEF MemOK
<1>6. n.adr = a /\ n.slots = t BY <1>4 DEF Mem
<1> HIDE DEF t
<1> QED BY <1>1, <1>3, <1>4, <1>5, <1>6

(* CtfeStack::push enters null.                                              *)
LEMMA PushIs ==
  ASSUME NEW m, MemOK(m), NEW base \in Nat, NEW v \in Vars, m = Mem(m.adr, m.slots)
  PROVE  /\ Entered(m, Push(m, base, v), base, v, NULL)
         /\ Push(m, base, v) = Mem(Push(m, base, v).adr, Push(m, base, v).slots)
<1> DEFINE n == Push(m, base, v)
<1>1. NULL \in Values BY ValueFacts
<1>2. m.adr[v] \in Nat /\ Len(m.slots) \in Nat BY LenProperties DEF MemOK
<1>3. CASE m.adr[v] > base
  <2>1. m.adr[v] # 0 BY <1>2, <1>3
  <2>2. n = SetValue(m, v, NULL) BY <1>3 DEF Push
  <2> HIDE DEF n
  <2>3. /\ n.adr = m.adr /\ n = Mem(n.adr, n.slots)
        /\ n.slots \in Seq(SlotSet) /\ Len(n.slots) = Len(m.slots)
        /\ \A i \in 1 .. Len(m.slots) :
              /\ n.slots[i].var = m.slots[i].var /\ n.slots[i].saved = m.slots[i].saved
              /\ i # m.adr[v] => n.slots[i].value = m.slots[i].value
        /\ n.slots[m.adr[v]].value = NULL
    BY <1>1, <2>1, <2>2, SetValueIs
  <2>4. n.adr = [m.adr EXCEPT ![v] = m.adr[v]] BY <2>3 DEF MemOK
  <2>5. MemOK(n) BY <2>3 DEF MemOK
  <2>6. SlotFor(m, base, v) = m.adr[v] BY <1>3 DEF SlotFor
  <2> QED BY <1>3, <2>3, <2>4, <2>5, <2>6 DEF Entered, n
<1>4. CASE ~(m.adr[v] > base)
  <2> DEFINE slot == [var |-> v, value |-> NULL, saved |-> m.adr[v]]
             t == Append(m.slots, slot)
             b == [m.adr EXCEPT ![v] = Len(m.slots) + 1]
  <2>1. slot \in SlotSet BY <1>1, <1>2 DEF SlotSet
  <2>2. n = Mem(b, t) BY <1>4 DEF Push
  <2>3. n.adr = b /\ n.slots = t /\ n = Mem(n.adr, n.slots) BY <2>2 DEF Mem
  <2>4. slot.var = v /\ slot.value = NULL /\ slot.saved = m.adr[v] OBVIOUS
  <2> HIDE DEF n, slot
  <2>5. /\ t \in Seq(SlotSet) /\ Len(t) = Len(m.slots) + 1
        /\ \A i \in 1 .. Len(m.slots) : t[i] = m.slots[i]
        /\ t[Len(m.slots) + 1] = slot
    BY <2>1, SequenceAppend DEF MemOK
  <2>6. b \in [Vars -> Nat] /\ \A w \in Vars : b[w] <= Len(m.slots) + 1 BY <1>2 DEF MemOK
  <2> HIDE DEF t, b
  <2>7. MemOK(n) BY <2>3, <2>5, <2>6 DEF MemOK
  <2>8. SlotFor(m, base, v) = Len(m.slots) + 1 BY <1>4 DEF SlotFor
  <2> QED BY <1>4, <2>3, <2>4, <2>5, <2>7, <2>8 DEF Entered, n, b
<1> QED BY <1>3, <1>4

(* push and then setValue enter the value.                                   *)
LEMMA EnteredValue ==
  ASSUME NEW m, MemOK(m), NEW base \in Nat, NEW v \in Vars, m = Mem(m.adr, m.slots),
         NEW e \in Values
  PROVE  /\ Entered(m, SetValue(Push(m, base, v), v, e), base, v, e)
         /\ SetValue(Push(m, base, v), v, e) =
               Mem(SetValue(Push(m, base, v), v, e).adr, SetValue(Push(m, base, v), v, e).slots)
<1> DEFINE n == Push(m, base, v)
           r == SetValue(n, v, e)
           p == SlotFor(m, base, v)
<1>1. Entered(m, n, base, v, NULL) /\ n = Mem(n.adr, n.slots) BY PushIs
<1>2. m.adr[v] \in Nat /\ Len(m.slots) \in Nat /\ m.adr[v] <= Len(m.slots)
  BY LenProperties DEF MemOK
<1>3. p \in Nat \ {0} /\ p <= Len(n.slots)
  BY <1>1, <1>2 DEF SlotFor, Entered
<1>4. MemOK(n) /\ n.adr[v] = p BY <1>1 DEF Entered, MemOK
<1> HIDE DEF n
<1>5. /\ r.adr = n.adr /\ r = Mem(r.adr, r.slots)
      /\ r.slots \in Seq(SlotSet) /\ Len(r.slots) = Len(n.slots)
      /\ \A i \in 1 .. Len(n.slots) :
            /\ r.slots[i].var = n.slots[i].var /\ r.slots[i].saved = n.slots[i].saved
            /\ i # p => r.slots[i].value = n.slots[i].value
      /\ r.slots[p].value = e
  BY <1>1, <1>3, <1>4, SetValueIs, SMTT(30)
<1> HIDE DEF r
<1>6. MemOK(r) BY <1>4, <1>5 DEF MemOK
<1>7. \A i \in 1 .. Len(m.slots) : i \in 1 .. Len(n.slots) BY <1>1, <1>2 DEF Entered
<1>8. ~(m.adr[v] > base) => Len(m.slots) + 1 \in 1 .. Len(n.slots) BY <1>1, <1>2 DEF Entered
<1>9. Entered(m, r, base, v, e) BY <1>1, <1>5, <1>6, <1>7, <1>8 DEF Entered
<1> QED BY <1>5, <1>9 DEF n, r

(* A set of naturals has a least element.                                    *)
LEMMA LeastElement ==
  ASSUME NEW T \in SUBSET Nat, T # {}
  PROVE  \E n \in T : \A m \in T : n <= m
<1> DEFINE R == OpToRel(<, Nat)
<1>1. \A x, y \in Nat : x < y => <<x, y>> \in R BY DEF OpToRel
<1>2. IsWellFoundedOn(R, Nat) BY NatLessThanWellFounded
<1> HIDE DEF R
<1>3. PICK x \in T : \A y \in T : <<y, x>> \notin R BY <1>2, WFMin
<1>4. \A y \in T : ~(y < x) BY <1>1, <1>3
<1> QED BY <1>4

(* A nest of one reference *)
LEMMA LvalueOnce ==
  ASSUME NEW v \in Vars, Strip(Strip(v)) = Strip(v)
  PROVE  Lvalue(v) = Strip(v)
<1> DEFINE N == Cardinality(Vars)
           Rec(f) == f = [n \in 0 .. N |-> IF n = 0 THEN v ELSE Strip(f[n - 1])]
           once == [n \in 0 .. N |-> IF n = 0 THEN v ELSE Strip(v)]
           nest == CHOOSE f : Rec(f)
<1>1. N \in Nat /\ N # 0 BY DeclaredOnce, FS_CardinalityType, FS_EmptySet
<1>2. Lvalue(v) = nest[N] BY DEF Lvalue
<1> HIDE DEF N
<1>3. \A n \in 0 .. N : n # 0 => n - 1 \in 0 .. N BY <1>1
<1>4. Rec(once) BY <1>3
<1> HIDE DEF once
<1>5. Rec(nest) BY <1>4
<1> HIDE DEF nest
<1>6. \A n \in 0 .. N : n # 0 => nest[n] = Strip(v)
  <2> SUFFICES ASSUME NEW k \in 0 .. N, k # 0, nest[k] # Strip(v) PROVE FALSE OBVIOUS
  <2> DEFINE T == {n \in 0 .. N : n # 0 /\ nest[n] # Strip(v)}
  <2>1. T \in SUBSET Nat /\ T # {} OBVIOUS
  <2>2. PICK n \in T : \A m \in T : n <= m BY <2>1, LeastElement
  <2>3. n \in 0 .. N /\ n # 0 /\ n - 1 \in 0 .. N /\ ~(n <= n - 1) BY <1>3, <2>2
  <2>4. nest[n] = Strip(nest[n - 1]) BY <1>5, <2>3
  <2>5. CASE n - 1 = 0
    <3>1. nest[n - 1] = v BY <1>5, <2>3, <2>5
    <3> QED BY <2>2, <2>4, <3>1
  <2>6. CASE n - 1 # 0
    <3>1. nest[n - 1] = Strip(v) BY <2>2, <2>3, <2>6
    <3> QED BY <2>2, <2>4, <3>1
  <2> QED BY <2>5, <2>6
<1> QED BY <1>1, <1>2, <1>6

(* The parameters are bound one after the other. *)
LEMMA BindAllIs ==
  ASSUME NEW m, NEW base, NEW callee \in Funcs, NEW eargs
  PROVE  /\ BindAll(m, base, callee, eargs)[0] = m
         /\ \A i \in 1 .. Len(Params[callee]) :
               BindAll(m, base, callee, eargs)[i] =
                  Bind(BindAll(m, base, callee, eargs)[i - 1], base, callee,
                       Params[callee][i], eargs[i])
<1> DEFINE N == Len(Params[callee])
           Step(b, i) == Bind(b, base, callee, Params[callee][i], eargs[i])
           Rec(f) == f = [i \in 0 .. N |-> IF i = 0 THEN m ELSE Step(f[i - 1], i)]
           Upto(k, f) == \A i \in 0 .. k : f[i] = IF i = 0 THEN m ELSE Step(f[i - 1], i)
           mems == CHOOSE f : Rec(f)
<1>1. N \in Nat BY DeclaredOnce, LenProperties
<1>2. BindAll(m, base, callee, eargs) = mems BY DEF BindAll
<1> HIDE DEF N, Step
<1>3. \A k \in Nat : \E f : Upto(k, f)
  <2> SUFFICES ASSUME NEW j \in Nat, ~ \E f : Upto(j, f) PROVE FALSE OBVIOUS
  <2> DEFINE T == {k \in Nat : ~ \E f : Upto(k, f)}
  <2>1. T \in SUBSET Nat /\ T # {} OBVIOUS
  <2>2. PICK k \in T : \A i \in T : k <= i BY <2>1, LeastElement
  <2>3. k \in Nat /\ ~ \E f : Upto(k, f) BY <2>2
  <2>4. k # 0
    <3>1. Upto(0, [i \in {0} |-> m]) OBVIOUS
    <3> QED BY <2>3, <3>1
  <2>5. k - 1 \in Nat /\ ~(k <= k - 1) BY <2>3, <2>4
  <2>6. PICK f : Upto(k - 1, f) BY <2>2, <2>5
  <2> DEFINE g == [i \in 0 .. k |-> IF i = k THEN Step(f[k - 1], k) ELSE f[i]]
  <2>7. Upto(k, g)
    <3> SUFFICES ASSUME NEW i \in 0 .. k
                 PROVE  g[i] = IF i = 0 THEN m ELSE Step(g[i - 1], i)
      OBVIOUS
    <3>1. CASE i = 0 BY <2>4, <2>5, <2>6, <3>1
    <3>2. CASE i # 0 /\ i # k
      <4>1. i \in 0 .. k - 1 /\ i - 1 \in 0 .. k /\ i - 1 # k BY <2>3, <3>2
      <4>2. f[i] = Step(f[i - 1], i) BY <2>6, <3>2, <4>1
      <4>3. g[i] = f[i] /\ g[i - 1] = f[i - 1] BY <3>2, <4>1
      <4> QED BY <3>2, <4>2, <4>3
    <3>3. CASE i # 0 /\ i = k
      <4>1. k - 1 \in 0 .. k /\ k - 1 # k BY <2>5
      <4>2. g[k] = Step(f[k - 1], k) /\ g[k - 1] = f[k - 1] BY <2>3, <4>1
      <4> QED BY <3>3, <4>2
    <3> QED BY <3>1, <3>2, <3>3
  <2> QED BY <2>3, <2>7
<1>4. Rec(mems)
  <2>1. PICK f : Upto(N, f) BY <1>1, <1>3
  <2> DEFINE h == [i \in 0 .. N |-> f[i]]
  <2>2. Rec(h)
    <3>1. \A i \in 0 .. N : f[i] = IF i = 0 THEN m ELSE Step(f[i - 1], i) BY <2>1
    <3>2. \A i \in 0 .. N : i # 0 => i - 1 \in 0 .. N BY <1>1
    <3>3. \A i \in 0 .. N : i # 0 => h[i - 1] = f[i - 1] BY <3>2
    <3> QED BY <3>1, <3>3
  <2> QED BY <2>2
<1> HIDE DEF mems
<1>5. mems[0] = m BY <1>1, <1>4
<1>6. \A i \in 1 .. N : mems[i] = Step(mems[i - 1], i) BY <1>1, <1>4
<1> QED BY <1>2, <1>5, <1>6 DEF N, Step

(* A variable of the function gets a slot in its level. *)
LEMMA LevelEntered ==
  ASSUME NEW m, NEW n, MemOK(m), NEW l \in LevelSet, NEW k \in LevelSet, NEW below, NEW v \in Vars, NEW e,
         l.adr = m.adr, LevelOK(m.slots, l, below, Len(m.slots)),
         Entered(m, n, l.fp, v, e),
         v \in Own(l.fd), ~(l.adr[v] > l.fp) => l.adr[v] = below[v],
         k.adr = n.adr, k.fp = l.fp, k.fd = l.fd,
         IsInjective(k.open),
         \A i \in DOMAIN k.open : k.open[i] \in Opened(l.fd) /\ k.adr[k.open[i]] > l.fp
  PROVE  LevelOK(n.slots, k, below, Len(n.slots))
<1> DEFINE p == SlotFor(m, l.fp, v)
           fresh == ~(l.adr[v] > l.fp)
<1>1. /\ l.fp \in Nat /\ l.adr \in [Vars -> Nat] /\ Len(m.slots) \in Nat
      /\ l.fp <= Len(m.slots) /\ \A w \in Vars : l.adr[w] <= Len(m.slots)
  BY LenProperties DEF LevelSet, MemOK, LevelOK
<1>2. p = (IF fresh THEN Len(m.slots) + 1 ELSE l.adr[v]) BY DEF SlotFor
<1>3. Len(n.slots) = (IF fresh THEN Len(m.slots) + 1 ELSE Len(m.slots)) BY DEF Entered
<1>4. k.adr = [l.adr EXCEPT ![v] = p] BY DEF Entered
<1>5. p \in Nat /\ p > l.fp /\ p <= Len(n.slots) BY <1>1, <1>2, <1>3
<1>6. n.slots[p].var = v
  <2>1. CASE fresh BY <1>2, <2>1 DEF Entered
  <2>2. CASE ~fresh
    <3>1. m.slots[p].var = v BY <1>2, <2>2 DEF LevelOK
    <3>2. p \in 1 .. Len(m.slots) BY <1>1, <1>2, <2>2
    <3> QED BY <3>1, <3>2 DEF Entered
  <2> QED BY <2>1, <2>2
<1>7. \A i \in 1 .. Len(m.slots) :
         n.slots[i].var = m.slots[i].var /\ n.slots[i].saved = m.slots[i].saved
  BY DEF Entered
<1>8. ASSUME NEW w \in Vars
      PROVE  /\ k.adr[w] <= Len(n.slots)
             /\ k.adr[w] > k.fp => n.slots[k.adr[w]].var = w
             /\ k.adr[w] <= k.fp /\ w \notin ToSet(Params[k.fd]) => k.adr[w] = below[w]
             /\ (\A i \in k.fp + 1 .. Len(n.slots) : n.slots[i].var # w) => k.adr[w] = below[w]
  <2>1. CASE w = v
    <3>1. k.adr[w] = p BY <1>1, <1>4, <2>1
    <3>2. p \in k.fp + 1 .. Len(n.slots) BY <1>1, <1>3, <1>5
    <3> QED BY <1>1, <1>5, <1>6, <2>1, <3>1, <3>2
  <2>2. CASE w # v
    <3>1. k.adr[w] = l.adr[w] BY <1>1, <1>4, <2>2
    <3>2. l.adr[w] \in Nat /\ l.adr[w] <= Len(n.slots) BY <1>1, <1>3
    <3>3. ASSUME l.adr[w] > l.fp PROVE n.slots[l.adr[w]].var = w
      <4>1. l.adr[w] \in 1 .. Len(m.slots) BY <1>1, <3>3
      <4>2. m.slots[l.adr[w]].var = w BY <3>3 DEF LevelOK
      <4> QED BY <1>7, <4>1, <4>2
    <3>4. ASSUME l.adr[w] <= l.fp, w \notin ToSet(Params[l.fd]) PROVE l.adr[w] = below[w]
      BY <3>4 DEF LevelOK
    <3>5. ASSUME \A i \in l.fp + 1 .. Len(n.slots) : n.slots[i].var # w PROVE l.adr[w] = below[w]
      <4>1. ASSUME NEW i \in l.fp + 1 .. Len(m.slots) PROVE m.slots[i].var # w
        <5>1. i \in 1 .. Len(m.slots) /\ i \in l.fp + 1 .. Len(n.slots) BY <1>1, <1>3
        <5> QED BY <1>7, <3>5, <5>1
      <4> QED BY <4>1 DEF LevelOK
    <3> QED BY <3>1, <3>2, <3>3, <3>4, <3>5
  <2> QED BY <2>1, <2>2
<1>9. ASSUME NEW i \in k.fp + 1 .. Len(n.slots)
      PROVE  n.slots[i].var \in Own(k.fd) /\ n.slots[i].saved = below[n.slots[i].var]
  <2>1. CASE i \in 1 .. Len(m.slots)
    <3>1. i \in l.fp + 1 .. Len(m.slots) BY <1>1, <2>1
    <3>2. m.slots[i].var \in Own(l.fd) /\ m.slots[i].saved = below[m.slots[i].var]
      BY <3>1 DEF LevelOK
    <3> QED BY <1>7, <2>1, <3>2
  <2>2. CASE i \notin 1 .. Len(m.slots)
    <3>1. fresh /\ i = Len(m.slots) + 1 BY <1>1, <1>3, <2>2
    <3>2. n.slots[i].var = v /\ n.slots[i].saved = l.adr[v] BY <3>1 DEF Entered
    <3> QED BY <3>1, <3>2
  <2> QED BY <2>1, <2>2
<1>10. k.fp <= Len(n.slots) BY <1>1, <1>3
<1> HIDE DEF p, fresh
<1> QED BY <1>8, <1>9, <1>10 DEF LevelOK

(* The memory m of a call after i parameters have been bound; m0 is the one  *)
(* of the caller.                                                            *)
Entry(m0, m, callee) == [fp |-> Len(m0.slots), fd |-> callee, open |-> <<>>, adr |-> m.adr]
Bound(m0, m, callee, eargs, i) ==
    /\ MemOK(m) /\ m = Mem(m.adr, m.slots)
    /\ Len(m0.slots) <= Len(m.slots)
    /\ \A k \in 1 .. Len(m0.slots) :
        /\ m.slots[k].var = m0.slots[k].var
        /\ m.slots[k].saved = m0.slots[k].saved
        /\ m.slots[k].value = m0.slots[k].value
    /\ LevelOK(m.slots, Entry(m0, m, callee), m0.adr, Len(m.slots))
    /\ \A j \in 1 .. i :
        IF eargs[j] \in Own(callee)
        THEN m.adr[Params[callee][j]] = m0.adr[eargs[j]]
        ELSE /\ m.adr[Params[callee][j]] > Len(m0.slots)
             /\ m.slots[m.adr[Params[callee][j]]].value = VarExp(eargs[j])
    /\ \A v \in Vars :
        (\A j \in 1 .. i : v # Params[callee][j] /\ (v = eargs[j] => v \notin Own(callee)))
        => m.adr[v] = m0.adr[v]

(* A parameter belongs to its function and to one position.                  *)
LEMMA ParamFacts ==
  ASSUME NEW callee \in Funcs
  PROVE  /\ Len(Params[callee]) \in Nat /\ DOMAIN Params[callee] = 1 .. Len(Params[callee])
         /\ \A i \in 1 .. Len(Params[callee]) :
              /\ Params[callee][i] \in Vars /\ Params[callee][i] \in Own(callee)
              /\ Params[callee][i] \in ToSet(Params[callee])
         /\ \A i, j \in 1 .. Len(Params[callee]) :
              Params[callee][i] = Params[callee][j] => i = j
<1>1. Params[callee] \in Seq(Vars) /\ IsInjective(Params[callee]) BY DeclaredOnce
<1>2. Len(Params[callee]) \in Nat /\ DOMAIN Params[callee] = 1 .. Len(Params[callee])
  BY <1>1, LenProperties
<1> QED BY <1>1, <1>2, OwnVars DEF IsInjective

(* One more parameter is bound.                                              *)
LEMMA BindStep ==
  ASSUME NEW m0, MemOK(m0), NEW m, NEW n, NEW callee \in Funcs,
         NEW eargs \in [DOMAIN Params[callee] -> Vars], ArgsApart(callee, eargs),
         NEW i \in 1 .. Len(Params[callee]), m0.adr[eargs[i]] # 0,
         Bound(m0, m, callee, eargs, i - 1),
         n = Bind(m, Len(m0.slots), callee, Params[callee][i], eargs[i])
  PROVE  Bound(m0, n, callee, eargs, i)
<1> DEFINE base == Len(m0.slots)
           P == Params[callee]
           p == P[i]
           vx == eargs[i]
           m1 == Push(m, base, p)
           m2 == Push(m1, base, vx)
           l == Entry(m0, m, callee)
<1>1. /\ Len(P) \in Nat /\ DOMAIN P = 1 .. Len(P)
      /\ p \in Vars /\ p \in Own(callee) /\ p \in ToSet(P) /\ vx \in Vars
      /\ \A j \in 1 .. Len(P) : P[j] \in ToSet(P)
      /\ \A j \in 1 .. Len(P) : p = P[j] => i = j
  BY ParamFacts
<1>2. i \in 1 .. Len(P) /\ i - 1 \in Nat /\ \A j \in 1 .. i : j \in 1 .. Len(P) /\ (j = i \/ j \in 1 .. i - 1)
  BY <1>1
<1>3. /\ \A j \in 1 .. Len(P) : eargs[j] \notin ToSet(P)
      /\ \A j \in 1 .. Len(P) : eargs[j] = vx /\ vx \in Own(callee) => i = j
  BY <1>1 DEF ArgsApart, ToSet
<1>4. base \in Nat /\ m0.adr \in [Vars -> Nat] /\ \A v \in Vars : m0.adr[v] <= base
  BY LenProperties DEF MemOK
<1>5. MemOK(m) /\ m = Mem(m.adr, m.slots) /\ m.adr \in [Vars -> Nat] /\ Len(m.slots) \in Nat
      /\ base <= Len(m.slots)
  BY LenProperties DEF MemOK, Bound
<1>6. m.adr[p] = m0.adr[p]
  <2>1. \A j \in 1 .. i - 1 : p # P[j] /\ p # eargs[j] BY <1>1, <1>2, <1>3
  <2> QED BY <1>1, <2>1 DEF Bound
<1>7. vx \in Own(callee) => m.adr[vx] = m0.adr[vx]
  <2> SUFFICES ASSUME vx \in Own(callee) PROVE m.adr[vx] = m0.adr[vx] OBVIOUS
  <2>1. \A j \in 1 .. i - 1 : vx # P[j] /\ vx # eargs[j] BY <1>1, <1>2, <1>3
  <2> QED BY <1>1, <2>1 DEF Bound
<1>8. vx # p BY <1>1, <1>3
<1>9. ~(m.adr[p] > base) BY <1>1, <1>4, <1>6
<1>10. LevelOK(m.slots, l, m0.adr, Len(m.slots)) BY DEF Bound
<1>11. \A x, y : <<>> \in Seq(x) /\ DOMAIN <<>> = {} BY EmptySeq, LenProperties
<1>12. \A a \in [Vars -> Nat] :
          [fp |-> base, fd |-> callee, open |-> <<>>, adr |-> a] \in LevelSet
  BY <1>4, <1>11 DEF LevelSet
<1>13. IsInjective(<<>>) BY <1>11 DEF IsInjective
<1>14. \A x, y : Entered(m, x, base, p, y) =>
          LevelOK(x.slots, Entry(m0, x, callee), m0.adr, Len(x.slots))
  <2> SUFFICES ASSUME NEW x, NEW y, Entered(m, x, base, p, y)
               PROVE  LevelOK(x.slots, Entry(m0, x, callee), m0.adr, Len(x.slots))
    OBVIOUS
  <2> DEFINE k == Entry(m0, x, callee)
  <2>1. x.adr \in [Vars -> Nat] BY DEF Entered, MemOK
  <2>2. /\ k \in LevelSet /\ l \in LevelSet
        /\ l.fp = base /\ l.fd = callee /\ l.adr = m.adr
        /\ k.fp = base /\ k.fd = callee /\ k.adr = x.adr /\ k.open = <<>>
    BY <1>5, <1>12, <2>1 DEF Entry
  <2> HIDE DEF k, l
  <2>3. /\ MemOK(m) /\ l.adr = m.adr /\ LevelOK(m.slots, l, m0.adr, Len(m.slots))
        /\ Entered(m, x, l.fp, p, y) /\ p \in Own(l.fd) /\ l.adr[p] = m0.adr[p]
    BY <1>1, <1>5, <1>6, <1>10, <2>2
  <2>4. IsInjective(k.open) /\ DOMAIN k.open = {} BY <1>11, <1>13, <2>2
  <2>5. LevelOK(x.slots, k, m0.adr, Len(x.slots)) BY <1>1, <2>2, <2>3, <2>4, LevelEntered
  <2> QED BY <2>5 DEF k
<1>15. CASE vx \notin Own(callee)
  <2>1. VarExp(vx) \in Values BY <1>1, ValueFacts
  <2>2. n = SetValue(m1, p, VarExp(vx)) BY <1>15 DEF Bind
  <2> HIDE DEF m1, m2, l, p, vx, P
  <2>3. Entered(m, n, base, p, VarExp(vx)) /\ n = Mem(n.adr, n.slots)
    BY <1>1, <1>4, <1>5, <2>1, <2>2, EnteredValue, SMTT(30) DEF m1
  <2>4. LevelOK(n.slots, Entry(m0, n, callee), m0.adr, Len(n.slots)) BY <1>14, <2>3
  <2>5. /\ MemOK(n) /\ n.adr = [m.adr EXCEPT ![p] = Len(m.slots) + 1]
        /\ Len(n.slots) = Len(m.slots) + 1 /\ n.slots[Len(m.slots) + 1].value = VarExp(vx)
        /\ \A k \in 1 .. Len(m.slots) :
             /\ n.slots[k].var = m.slots[k].var /\ n.slots[k].saved = m.slots[k].saved
             /\ n.slots[k].value = m.slots[k].value
    <3>1. SlotFor(m, base, p) = Len(m.slots) + 1 BY <1>9 DEF SlotFor
    <3>2. \A k \in 1 .. Len(m.slots) : k # Len(m.slots) + 1 BY <1>5
    <3> QED BY <1>9, <2>3, <3>1, <3>2 DEF Entered
  <2>6. \A k \in 1 .. base :
          /\ n.slots[k].var = m0.slots[k].var
          /\ n.slots[k].saved = m0.slots[k].saved
          /\ n.slots[k].value = m0.slots[k].value
    <3>1. \A k \in 1 .. base : k \in 1 .. Len(m.slots) BY <1>4, <1>5
    <3>2. \A k \in 1 .. base :
            /\ m.slots[k].var = m0.slots[k].var
            /\ m.slots[k].saved = m0.slots[k].saved
            /\ m.slots[k].value = m0.slots[k].value
      BY DEF Bound
    <3> QED BY <2>5, <3>1, <3>2
  <2>7. ASSUME NEW j \in 1 .. i
        PROVE  IF eargs[j] \in Own(callee)
               THEN n.adr[P[j]] = m0.adr[eargs[j]]
               ELSE n.adr[P[j]] > base /\ n.slots[n.adr[P[j]]].value = VarExp(eargs[j])
    <3>1. CASE j = i
      <4>1. eargs[j] = vx /\ P[j] = p BY <3>1 DEF p, vx
      <4>2. n.adr[p] = Len(m.slots) + 1 BY <1>1, <1>5, <2>5
      <4>3. n.adr[p] > base BY <1>4, <1>5, <4>2
      <4>4. n.slots[n.adr[p]].value = VarExp(vx) BY <2>5, <4>2
      <4> QED BY <1>15, <4>1, <4>3, <4>4
    <3>2. CASE j # i
      <4>1. j \in 1 .. i - 1 /\ j \in 1 .. Len(P) BY <1>2, <3>2
      <4>2. P[j] # p BY <1>1, <3>2, <4>1
      <4>3. n.adr[P[j]] = m.adr[P[j]] BY <1>5, <2>5, <4>2
      <4>4. IF eargs[j] \in Own(callee)
            THEN m.adr[P[j]] = m0.adr[eargs[j]]
            ELSE m.adr[P[j]] > base /\ m.slots[m.adr[P[j]]].value = VarExp(eargs[j])
        BY <4>1 DEF Bound, P
      <4>5. P[j] \in Vars BY <4>1, ParamFacts DEF P
      <4>6. m.adr[P[j]] > base => m.adr[P[j]] \in 1 .. Len(m.slots) BY <1>4, <1>5, <4>5 DEF MemOK
      <4> QED BY <2>5, <4>3, <4>4, <4>6
    <3> QED BY <3>1, <3>2
  <2>8. ASSUME NEW v \in Vars,
               \A j \in 1 .. i : v # P[j] /\ (v = eargs[j] => v \notin Own(callee))
        PROVE  n.adr[v] = m0.adr[v]
    <3>1. i \in 1 .. i BY <1>1, <1>2
    <3>2. v # p BY <2>8, <3>1 DEF p
    <3>3. n.adr[v] = m.adr[v] BY <1>5, <2>5, <3>2
    <3>4. \A j \in 1 .. i - 1 : j \in 1 .. i BY <1>2
    <3>5. m.adr[v] = m0.adr[v] BY <2>8, <3>4 DEF Bound, P
    <3> QED BY <3>3, <3>5
  <2>9. base <= Len(n.slots) BY <1>4, <1>5, <2>5
  <2> QED BY <2>3, <2>4, <2>5, <2>6, <2>7, <2>8, <2>9 DEF Bound, P
<1>16. CASE vx \in Own(callee)
  <2> DEFINE q == m1.adr[vx]
             new == Len(m.slots) + 1
             l1 == Entry(m0, m1, callee)
             l2 == Entry(m0, m2, callee)
  <2>1. n = [m2 EXCEPT !.adr[p] = q] BY <1>16 DEF Bind
  <2> HIDE DEF m1, m2, l, p, vx, P
  <2>2. Entered(m, m1, base, p, NULL) /\ m1 = Mem(m1.adr, m1.slots)
    BY <1>1, <1>4, <1>5, PushIs DEF m1
  <2>3. /\ MemOK(m1) /\ m1.adr = [m.adr EXCEPT ![p] = new]
        /\ Len(m1.slots) = new /\ m1.slots[new].var = p
        /\ \A k \in 1 .. Len(m.slots) :
             /\ m1.slots[k].var = m.slots[k].var /\ m1.slots[k].saved = m.slots[k].saved
             /\ m1.slots[k].value = m.slots[k].value
    <3>1. SlotFor(m, base, p) = Len(m.slots) + 1 BY <1>9 DEF SlotFor
    <3>2. \A k \in 1 .. Len(m.slots) : k # Len(m.slots) + 1 BY <1>5
    <3> QED BY <1>9, <2>2, <3>1, <3>2 DEF Entered
  <2>4. LevelOK(m1.slots, l1, m0.adr, Len(m1.slots)) BY <1>14, <2>2
  <2>5. q = m0.adr[vx] /\ q \in Nat /\ ~(q > base) /\ q = m1.adr[vx]
    BY <1>1, <1>4, <1>5, <1>7, <1>8, <1>16, <2>3
  <2> HIDE DEF q
  <2>6. Entered(m1, m2, base, vx, NULL) /\ m2 = Mem(m2.adr, m2.slots)
    BY <1>1, <1>4, <2>2, <2>3, PushIs DEF m2
  <2>7. new \in Nat /\ new > base /\ \A k \in 1 .. Len(m.slots) : k \in 1 .. new BY <1>4, <1>5
  <2>8. /\ MemOK(m2) /\ m2.adr = [m1.adr EXCEPT ![vx] = new + 1]
        /\ Len(m2.slots) = new + 1
        /\ \A k \in 1 .. new :
             /\ m2.slots[k].var = m1.slots[k].var /\ m2.slots[k].saved = m1.slots[k].saved
             /\ m2.slots[k].value = m1.slots[k].value
    <3>1. SlotFor(m1, base, vx) = new + 1 BY <2>3, <2>5 DEF SlotFor
    <3>2. \A k \in 1 .. new : k # new + 1 BY <2>7
    <3> QED BY <2>3, <2>5, <2>6, <3>1, <3>2 DEF Entered
  <2>9. LevelOK(m2.slots, l2, m0.adr, Len(m2.slots))
    <3>1. m1.adr \in [Vars -> Nat] /\ m2.adr \in [Vars -> Nat] BY <2>3, <2>8 DEF MemOK
    <3>2. /\ l1 \in LevelSet /\ l2 \in LevelSet
          /\ l1.fp = base /\ l1.fd = callee /\ l1.adr = m1.adr
          /\ l2.fp = base /\ l2.fd = callee /\ l2.adr = m2.adr /\ l2.open = <<>>
      BY <1>12, <3>1 DEF Entry
    <3> HIDE DEF l1, l2
    <3>3. /\ Entered(m1, m2, l1.fp, vx, NULL) /\ vx \in Own(l1.fd) /\ l1.adr[vx] = m0.adr[vx]
      BY <1>16, <2>5, <2>6, <3>2
    <3>4. IsInjective(l2.open) /\ DOMAIN l2.open = {} BY <1>11, <1>13, <3>2
    <3> QED BY <1>1, <2>3, <2>4, <3>2, <3>3, <3>4, LevelEntered, ZenonT(40)
  <2>10. n.adr = [m2.adr EXCEPT ![p] = q] /\ n.slots = m2.slots /\ n = Mem(n.adr, n.slots)
    <3>1. n = [Mem(m2.adr, m2.slots) EXCEPT !.adr[p] = q] BY <2>1, <2>6
    <3> QED BY <3>1 DEF Mem
  <2>11. /\ n.adr[p] = m0.adr[vx] /\ n.adr[vx] = new + 1
         /\ \A v \in Vars \ {p, vx} : n.adr[v] = m.adr[v]
         /\ \A v \in Vars \ {p} : n.adr[v] = m2.adr[v]
    BY <1>1, <1>5, <1>8, <2>3, <2>5, <2>8, <2>10 DEF MemOK
  <2>12. MemOK(n)
    <3> m2.adr \in [Vars -> Nat] BY <2>8 DEF MemOK
    <3>1. n.adr \in [Vars -> Nat] BY <2>5, <2>10
    <3>2. ASSUME NEW v \in Vars PROVE n.adr[v] <= Len(m2.slots)
      <4>1. CASE v = p BY <1>1, <1>4, <1>5, <2>7, <2>8, <2>11, <4>1
      <4>2. CASE v # p BY <2>8, <2>11, <4>2 DEF MemOK
      <4> QED BY <4>1, <4>2
    <3> QED BY <2>8, <2>10, <3>1, <3>2 DEF MemOK
  <2>13. LevelOK(n.slots, Entry(m0, n, callee), m0.adr, Len(n.slots))
    <3> DEFINE k == Entry(m0, n, callee)
    <3>1. /\ k.fp = base /\ k.fd = callee /\ k.adr = n.adr /\ k.open = <<>>
          /\ l2.fp = base /\ l2.fd = callee /\ l2.adr = m2.adr /\ l2.open = <<>>
      BY DEF Entry
    <3> HIDE DEF k, l2
    <3>2. m2.slots[new].var = p /\ new \in base + 1 .. Len(m2.slots)
      <4>1. new \in 1 .. new /\ new \in base + 1 .. new + 1 BY <1>4, <2>7
      <4> QED BY <2>3, <2>8, <4>1
    <3>3. p \in ToSet(Params[callee]) BY <1>1 DEF P
    <3>4. ASSUME NEW v \in Vars
          PROVE  /\ n.adr[v] <= Len(m2.slots)
                 /\ n.adr[v] > base => m2.slots[n.adr[v]].var = v
                 /\ n.adr[v] <= base /\ v \notin ToSet(Params[callee]) => n.adr[v] = m0.adr[v]
                 /\ (\A i_1 \in base + 1 .. Len(m2.slots) : m2.slots[i_1].var # v)
                       => n.adr[v] = m0.adr[v]
      <4>1. CASE v = p BY <2>5, <2>10, <2>11, <2>12, <3>2, <3>3, <4>1 DEF MemOK
      <4>2. CASE v # p
        <5>1. /\ m2.adr[v] <= Len(m2.slots)
              /\ m2.adr[v] > base => m2.slots[m2.adr[v]].var = v
              /\ m2.adr[v] <= base /\ v \notin ToSet(Params[callee]) => m2.adr[v] = m0.adr[v]
              /\ (\A i_1 \in base + 1 .. Len(m2.slots) : m2.slots[i_1].var # v)
                    => m2.adr[v] = m0.adr[v]
          BY <2>9, <3>1 DEF LevelOK
        <5>2. n.adr[v] = m2.adr[v] BY <2>11, <4>2
        <5> QED BY <5>1, <5>2
      <4> QED BY <4>1, <4>2
    <3>5. \A j \in base + 1 .. Len(m2.slots) :
            m2.slots[j].var \in Own(callee) /\ m2.slots[j].saved = m0.adr[m2.slots[j].var]
      BY <2>9, <3>1 DEF LevelOK
    <3>6. base <= Len(m2.slots) BY <2>9, <3>1 DEF LevelOK
    <3>7. LevelOK(n.slots, k, m0.adr, Len(n.slots))
      BY <1>11, <1>13, <2>10, <3>1, <3>4, <3>5, <3>6 DEF LevelOK
    <3> QED BY <3>7 DEF k
  <2>14. \A k \in 1 .. base :
          /\ n.slots[k].var = m0.slots[k].var
          /\ n.slots[k].saved = m0.slots[k].saved
          /\ n.slots[k].value = m0.slots[k].value
    <3>1. \A k \in 1 .. base : k \in 1 .. Len(m.slots) /\ k \in 1 .. new BY <1>4, <1>5
    <3>2. \A k \in 1 .. base :
            /\ m.slots[k].var = m0.slots[k].var
            /\ m.slots[k].saved = m0.slots[k].saved
            /\ m.slots[k].value = m0.slots[k].value
      BY DEF Bound
    <3>3. n.slots = m2.slots BY <2>10
    <3>4. \A k \in 1 .. base :
            /\ m2.slots[k].var = m1.slots[k].var /\ m1.slots[k].var = m.slots[k].var
            /\ m2.slots[k].saved = m1.slots[k].saved /\ m1.slots[k].saved = m.slots[k].saved
            /\ m2.slots[k].value = m1.slots[k].value /\ m1.slots[k].value = m.slots[k].value
      BY <2>3, <2>8, <3>1
    <3> QED BY <3>2, <3>3, <3>4
  <2>15. ASSUME NEW j \in 1 .. i
        PROVE  IF eargs[j] \in Own(callee)
               THEN n.adr[P[j]] = m0.adr[eargs[j]]
               ELSE n.adr[P[j]] > base /\ n.slots[n.adr[P[j]]].value = VarExp(eargs[j])
    <3>1. CASE j = i
      <4>1. eargs[j] = vx /\ P[j] = p BY <3>1 DEF p, vx
      <4> QED BY <1>16, <2>11, <4>1
    <3>2. CASE j # i
      <4>1. j \in 1 .. i - 1 /\ j \in 1 .. Len(P) BY <1>2, <3>2
      <4>2. P[j] # p /\ P[j] # vx BY <1>1, <1>2, <1>3, <3>2, <4>1 DEF vx
      <4>3. P[j] \in Vars BY <4>1, ParamFacts DEF P
      <4>4. n.adr[P[j]] = m.adr[P[j]] BY <2>11, <4>2, <4>3
      <4>5. IF eargs[j] \in Own(callee)
            THEN m.adr[P[j]] = m0.adr[eargs[j]]
            ELSE m.adr[P[j]] > base /\ m.slots[m.adr[P[j]]].value = VarExp(eargs[j])
        BY <4>1 DEF Bound, P
      <4>6. m.adr[P[j]] > base => m.adr[P[j]] \in 1 .. Len(m.slots) BY <1>4, <1>5, <4>3 DEF MemOK
      <4>7. m.adr[P[j]] > base => m.adr[P[j]] \in 1 .. new BY <2>7, <4>6
      <4> QED BY <2>3, <2>8, <2>10, <4>4, <4>5, <4>6, <4>7, ZenonT(40)
    <3> QED BY <3>1, <3>2
  <2>16. ASSUME NEW v \in Vars,
               \A j \in 1 .. i : v # P[j] /\ (v = eargs[j] => v \notin Own(callee))
        PROVE  n.adr[v] = m0.adr[v]
    <3>1. i \in 1 .. i BY <1>1, <1>2
    <3>2. v # p /\ v # vx BY <1>16, <2>16, <3>1 DEF p, vx
    <3>3. n.adr[v] = m.adr[v] BY <2>11, <3>2
    <3>4. \A j \in 1 .. i - 1 : j \in 1 .. i BY <1>2
    <3>5. m.adr[v] = m0.adr[v] BY <2>16, <3>4 DEF Bound, P
    <3> QED BY <3>3, <3>5
  <2>17. base <= Len(n.slots) BY <1>4, <1>5, <2>8, <2>10
  <2> QED BY <2>10, <2>12, <2>13, <2>14, <2>15, <2>16, <2>17 DEF Bound, P
<1> QED BY <1>15, <1>16

(* So all of them are, when the arguments are apart.                         *)
LEMMA BoundAfter ==
  ASSUME NEW m0, MemOK(m0), m0 = Mem(m0.adr, m0.slots), NEW callee \in Funcs,
         NEW eargs \in [DOMAIN Params[callee] -> Vars], ArgsApart(callee, eargs),
         \A i \in DOMAIN Params[callee] : m0.adr[eargs[i]] # 0
  PROVE  \A i \in 0 .. Len(Params[callee]) :
            Bound(m0, BindAll(m0, Len(m0.slots), callee, eargs)[i], callee, eargs, i)
<1> DEFINE base == Len(m0.slots)
           N == Len(Params[callee])
           mems == BindAll(m0, base, callee, eargs)
<1>1. N \in Nat /\ DOMAIN Params[callee] = 1 .. N BY ParamFacts
<1>2. mems[0] = m0 BY BindAllIs
<1>3. \A i \in 1 .. N : mems[i] = Bind(mems[i - 1], base, callee, Params[callee][i], eargs[i])
  BY BindAllIs
<1> HIDE DEF mems, N
<1>4. Bound(m0, m0, callee, eargs, 0)
  <2> DEFINE l == Entry(m0, m0, callee)
  <2>1. l.fp = base /\ l.fd = callee /\ l.adr = m0.adr /\ l.open = <<>> BY DEF Entry
  <2>2. base \in Nat /\ m0.adr \in [Vars -> Nat] /\ \A v \in Vars : m0.adr[v] <= base
    BY LenProperties DEF MemOK
  <2>3. DOMAIN <<>> = {} OBVIOUS
  <2>4. IsInjective(<<>>) BY <2>3 DEF IsInjective
  <2>5. base + 1 .. base = {} /\ base <= base BY <2>2
  <2> HIDE DEF l
  <2>6. \A v \in Vars : ~(m0.adr[v] > base) BY <2>2
  <2>7. LevelOK(m0.slots, l, m0.adr, base) BY <2>1, <2>2, <2>3, <2>4, <2>5, <2>6 DEF LevelOK
  <2> QED BY <2>2, <2>7 DEF Bound, l
<1> SUFFICES ASSUME NEW j \in 0 .. N, ~Bound(m0, mems[j], callee, eargs, j) PROVE FALSE
  BY DEF N, mems
<1> DEFINE T == {i \in 0 .. N : ~Bound(m0, mems[i], callee, eargs, i)}
<1>5. T \in SUBSET Nat /\ T # {} BY <1>1
<1>6. PICK i \in T : \A k \in T : i <= k BY <1>5, LeastElement
<1>7. i \in 1 .. N /\ i - 1 \in 0 .. N /\ ~(i <= i - 1) BY <1>1, <1>2, <1>4, <1>6
<1>8. Bound(m0, mems[i - 1], callee, eargs, i - 1) BY <1>6, <1>7
<1>9. Bound(m0, mems[i], callee, eargs, i)
  <2>1. i \in 1 .. Len(Params[callee]) /\ m0.adr[eargs[i]] # 0 BY <1>1, <1>7 DEF N
  <2> QED BY <1>3, <1>7, <1>8, <2>1, BindStep
<1> QED BY <1>6, <1>9

-------------------------------------------------------------------------------
(* The stack of levels *)
LEMMA LevelKept ==
  ASSUME NEW l \in LevelSet, NEW top \in Nat, NEW s, NEW t, NEW below,
         LevelOK(s, l, below, top),
         \A i \in 1 .. top : t[i].var = s[i].var /\ t[i].saved = s[i].saved
  PROVE  LevelOK(t, l, below, top)
<1>1. l.fp \in Nat /\ l.adr \in [Vars -> Nat] BY DEF LevelSet
<1>2. \A i \in l.fp + 1 .. top : i \in 1 .. top BY <1>1
<1>3. ASSUME NEW v \in Vars
      PROVE  /\ l.adr[v] <= top
             /\ l.adr[v] > l.fp => t[l.adr[v]].var = v
             /\ l.adr[v] <= l.fp /\ v \notin ToSet(Params[l.fd]) => l.adr[v] = below[v]
             /\ (\A i \in l.fp + 1 .. top : t[i].var # v) => l.adr[v] = below[v]
  <2>1. l.adr[v] <= top BY DEF LevelOK
  <2>2. l.adr[v] > l.fp => l.adr[v] \in 1 .. top BY <1>1, <2>1
  <2> QED BY <1>2, <2>2 DEF LevelOK
<1>4. \A i \in l.fp + 1 .. top : t[i].var \in Own(l.fd) /\ t[i].saved = below[t[i].var]
  BY <1>2 DEF LevelOK
<1> QED BY <1>3, <1>4 DEF LevelOK

Reach(l, top) == \A v \in Vars : l.adr[v] <= top
SameValues(s, t, top) == \A i \in 1 .. top : t[i].value = s[i].value
SameStore(st, st2, l, e) == \A v \in Own(l.fd) : e[v] # 0 => st2[e[v]] = st[e[v]]
SamePlaces(s, t, l, e) ==
    \A v \in Own(l.fd) : e[v] # 0 =>
        Behind(t, l, v) = Behind(s, l, v) /\ Place(t, l, v) = Place(s, l, v)

(* A frame reads the same where its places and its store stay.               *)
LEMMA ReadKept ==
  ASSUME NEW l \in LevelSet, NEW top \in Nat, NEW s, NEW t, NEW st, NEW st2, NEW e,
         Reach(l, top), ReadOK(s, st, l, e), SameValues(s, t, top), SameStore(st, st2, l, e)
  PROVE  ReadOK(t, st2, l, e) /\ SamePlaces(s, t, l, e)
<1>1. l.fd \in Funcs /\ l.adr \in [Vars -> Nat] BY DEF LevelSet
<1>2. ASSUME NEW v \in Own(l.fd), e[v] # 0
      PROVE  /\ Behind(t, l, v) = Behind(s, l, v) /\ Place(t, l, v) = Place(s, l, v)
             /\ l.adr[v] # 0
             /\ Behind(t, l, v) = v \/ Behind(t, l, v) \in Vars \ Own(l.fd)
             /\ Place(t, l, v) # 0
             /\ t[Place(t, l, v)].value = Literal(st2[e[v]])
  <2>1. /\ l.adr[v] # 0
        /\ Behind(s, l, v) = v \/ Behind(s, l, v) \in Vars \ Own(l.fd)
        /\ Place(s, l, v) # 0
        /\ s[Place(s, l, v)].value = Literal(st[e[v]])
    BY <1>2 DEF ReadOK
  <2>2. v \in Vars BY <1>1, OwnVars
  <2>3. l.adr[v] \in 1 .. top BY <1>1, <2>1, <2>2 DEF Reach
  <2>4. Behind(t, l, v) = Behind(s, l, v) BY <2>3 DEF Behind, SameValues
  <2>5. Behind(s, l, v) \in Vars BY <2>1, <2>2
  <2>6. Place(t, l, v) = Place(s, l, v) BY <2>4 DEF Place
  <2>7. Place(s, l, v) \in 1 .. top BY <1>1, <2>1, <2>5 DEF Place, Reach
  <2>8. t[Place(s, l, v)].value = s[Place(s, l, v)].value BY <2>7 DEF SameValues
  <2>9. st2[e[v]] = st[e[v]] BY <1>2 DEF SameStore
  <2> QED BY <2>1, <2>4, <2>6, <2>8, <2>9
<1> QED BY <1>2 DEF ReadOK, SamePlaces

LEMMA StackFacts ==
  ASSUME NEW L, NEW E, NEW s, NEW st, StackOK(L, E, s, st)
  PROVE  /\ Len(L) \in Nat \ {0} /\ Len(s) \in Nat /\ Len(st) \in Nat
         /\ \A k \in 1 .. Len(L) :
              /\ L[k] \in LevelSet /\ L[k].fd \in Funcs /\ L[k].fp \in Nat
              /\ L[k].adr \in [Vars -> Nat] /\ E[k] \in [Vars -> Nat]
              /\ Own(L[k].fd) \subseteq Vars
              /\ TopOf(L, s, k) \in Nat /\ TopOf(L, s, k) <= Len(s)
              /\ k # Len(L) => TopOf(L, s, k) <= L[Len(L)].fp
              /\ \A v \in Vars : L[k].adr[v] <= TopOf(L, s, k)
              /\ \A v \in Own(L[k].fd) : E[k][v] # 0 =>
                   /\ Behind(s, L[k], v) \in Vars
                   /\ Place(s, L[k], v) \in 1 .. TopOf(L, s, k)
<1>1. /\ L \in Seq(LevelSet) /\ E \in Seq([Vars -> Nat]) /\ Len(E) = Len(L) /\ L # <<>>
      /\ s \in Seq(SlotSet) /\ st \in Seq(Nat)
  BY DEF StackOK
<1>2. Len(L) \in Nat \ {0} /\ Len(s) \in Nat /\ Len(st) \in Nat BY <1>1, EmptySeq, LenProperties
<1> SUFFICES ASSUME NEW k \in 1 .. Len(L)
             PROVE  /\ L[k] \in LevelSet /\ L[k].fd \in Funcs /\ L[k].fp \in Nat
                    /\ L[k].adr \in [Vars -> Nat] /\ E[k] \in [Vars -> Nat]
                    /\ Own(L[k].fd) \subseteq Vars
                    /\ TopOf(L, s, k) \in Nat /\ TopOf(L, s, k) <= Len(s)
                    /\ k # Len(L) => TopOf(L, s, k) <= L[Len(L)].fp
                    /\ \A v \in Vars : L[k].adr[v] <= TopOf(L, s, k)
                    /\ \A v \in Own(L[k].fd) : E[k][v] # 0 =>
                         /\ Behind(s, L[k], v) \in Vars
                         /\ Place(s, L[k], v) \in 1 .. TopOf(L, s, k)
  BY <1>2
<1>3. \A j \in 1 .. Len(L) : L[j] \in LevelSet BY <1>1, ElementOfSeq
<1>4. \A j \in 1 .. Len(L) : L[j].fp \in Nat /\ L[j].fd \in Funcs /\ L[j].adr \in [Vars -> Nat]
  BY <1>3 DEF LevelSet
<1>5. E[k] \in [Vars -> Nat] BY <1>1, ElementOfSeq
<1>6. Own(L[k].fd) \subseteq Vars BY <1>4, OwnVars
<1>7. LevelOK(s, L[k], Below(L, k), TopOf(L, s, k)) /\ ReadOK(s, st, L[k], E[k])
  BY DEF StackOK
<1>8. /\ TopOf(L, s, k) \in Nat /\ TopOf(L, s, k) <= Len(s)
      /\ k # Len(L) => TopOf(L, s, k) <= L[Len(L)].fp
  <2>1. Len(L) \in 1 .. Len(L) BY <1>2
  <2>2. L[Len(L)].fp <= Len(s)
    <3>1. LevelOK(s, L[Len(L)], Below(L, Len(L)), TopOf(L, s, Len(L))) BY <2>1 DEF StackOK
    <3> QED BY <3>1 DEF LevelOK, TopOf
  <2>3. CASE k = Len(L) BY <1>2, <2>3 DEF TopOf
  <2>4. CASE k # Len(L)
    <3>1. k + 1 \in 1 .. Len(L) /\ k + 1 <= Len(L) BY <1>2, <2>4
    <3>2. L[k + 1].fp <= L[Len(L)].fp BY <2>1, <3>1 DEF StackOK
    <3>3. TopOf(L, s, k) = L[k + 1].fp BY <2>4 DEF TopOf
    <3> QED BY <1>2, <1>4, <2>1, <2>2, <3>1, <3>2, <3>3
  <2> QED BY <2>3, <2>4
<1>9. \A v \in Vars : L[k].adr[v] <= TopOf(L, s, k) BY <1>7 DEF LevelOK
<1>10. ASSUME NEW v \in Own(L[k].fd), E[k][v] # 0
       PROVE  Behind(s, L[k], v) \in Vars /\ Place(s, L[k], v) \in 1 .. TopOf(L, s, k)
  <2>1. Behind(s, L[k], v) \in Vars /\ Place(s, L[k], v) # 0 BY <1>6, <1>7, <1>10 DEF ReadOK
  <2>2. Place(s, L[k], v) \in Nat /\ Place(s, L[k], v) <= TopOf(L, s, k)
    BY <1>4, <1>9, <2>1 DEF Place
  <2> QED BY <1>8, <2>1, <2>2
<1> QED BY <1>3, <1>4, <1>5, <1>6, <1>8, <1>9, <1>10

(* A step of the current frame that changes no slot under it *)
SameSlots(s, t, top) ==
    \A i \in 1 .. top :
        t[i].var = s[i].var /\ t[i].saved = s[i].saved /\ t[i].value = s[i].value
Grown(st, st2) == Len(st) <= Len(st2) /\ \A i \in 1 .. Len(st) : st2[i] = st[i]
Located(e, st) == \A v \in Vars : e[v] <= Len(st)
Apart(s, l, e) ==
    \A v, w \in Own(l.fd) :
        e[v] # 0 /\ e[w] # 0 => (Place(s, l, v) = Place(s, l, w) <=> e[v] = e[w])
ApartBelow(L, E, s, t, l, e) ==
    \A j \in 1 .. Len(L) - 1 : \A w \in Own(L[j].fd), v \in Own(l.fd) :
        E[j][w] # 0 /\ e[v] # 0 => (Place(s, L[j], w) = Place(t, l, v) <=> E[j][w] = e[v])

LEMMA TopChanged ==
  ASSUME NEW L, NEW E, NEW s, NEW st, StackOK(L, E, s, st),
         NEW l2 \in LevelSet, l2.fp = L[Len(L)].fp, l2.fd = L[Len(L)].fd,
         NEW e2 \in [Vars -> Nat], NEW s2 \in Seq(SlotSet), NEW st2 \in Seq(Nat),
         Grown(st, st2), Located(e2, st2), SameSlots(s, s2, l2.fp),
         LevelOK(s2, l2, Below(L, Len(L)), Len(s2)), ReadOK(s2, st2, l2, e2),
         Apart(s2, l2, e2), ApartBelow(L, E, s, s2, l2, e2)
  PROVE  StackOK(Append(Front(L), l2), Append(Front(E), e2), s2, st2)
<1> DEFINE n == Len(L)
           M == Append(Front(L), l2)
           F == Append(Front(E), e2)
<1>1. /\ L \in Seq(LevelSet) /\ E \in Seq([Vars -> Nat]) /\ Len(E) = n /\ L # <<>>
      /\ s \in Seq(SlotSet) /\ st \in Seq(Nat)
  BY DEF StackOK
<1>2. n \in Nat \ {0} /\ Len(st) \in Nat /\ Len(st2) \in Nat
  BY StackFacts, LenProperties
<1>3. E # <<>>
  <2>1. Len(<<>>) = 0 BY EmptySeq
  <2> QED BY <1>1, <1>2, <2>1
<1>4. /\ M \in Seq(LevelSet) /\ M # <<>> /\ Len(M) = n
      /\ \A k \in 1 .. n - 1 : M[k] = L[k]
      /\ M[n] = l2
  <2>1. /\ Front(L) \in Seq(LevelSet) /\ Len(Front(L)) = n - 1
        /\ \A k \in 1 .. n - 1 : Front(L)[k] = L[k]
    BY <1>1, SequenceFront
  <2>2. /\ M \in Seq(LevelSet) /\ M # <<>> /\ Len(M) = n - 1 + 1
        /\ \A k \in 1 .. n - 1 : M[k] = Front(L)[k]
        /\ M[n - 1 + 1] = l2
    BY <2>1, SequenceAppend
  <2>3. n - 1 + 1 = n BY <1>2
  <2> QED BY <2>1, <2>2, <2>3
<1>5. /\ F \in Seq([Vars -> Nat]) /\ Len(F) = n
      /\ \A k \in 1 .. n - 1 : F[k] = E[k]
      /\ F[n] = e2
  <2>1. /\ Front(E) \in Seq([Vars -> Nat]) /\ Len(Front(E)) = n - 1
        /\ \A k \in 1 .. n - 1 : Front(E)[k] = E[k]
    <3>1. /\ Front(E) \in Seq([Vars -> Nat]) /\ Len(Front(E)) = Len(E) - 1
          /\ \A k \in 1 .. Len(E) - 1 : Front(E)[k] = E[k]
      BY <1>1, <1>3, SequenceFront
    <3> QED BY <1>1, <3>1
  <2>2. /\ F \in Seq([Vars -> Nat]) /\ Len(F) = n - 1 + 1
        /\ \A k \in 1 .. n - 1 : F[k] = Front(E)[k]
        /\ F[n - 1 + 1] = e2
    BY <2>1, SequenceAppend
  <2>3. n - 1 + 1 = n BY <1>2
  <2> QED BY <2>1, <2>2, <2>3
<1> HIDE DEF M, F, n
<1>6. n \in 1 .. n /\ \A k \in 1 .. n : k = n \/ k \in 1 .. n - 1 BY <1>2
<1>7. \A k \in 1 .. n - 1 : k \in 1 .. n /\ k # n /\ k + 1 \in 1 .. n BY <1>2
<1>8. \A k \in 1 .. n : M[k].fp = L[k].fp BY <1>4, <1>6 DEF n
<1>9. \A j, k \in 1 .. n : j <= k => M[j].fp <= M[k].fp BY <1>8 DEF StackOK, n
<1>10. ASSUME NEW k \in 1 .. n - 1
       PROVE  /\ LevelOK(s2, M[k], Below(M, k), TopOf(M, s2, k))
              /\ ReadOK(s2, st2, M[k], F[k])
              /\ \A v \in Vars : F[k][v] <= Len(st2)
              /\ \A v \in Own(M[k].fd) : F[k][v] # 0 => Place(s2, M[k], v) = Place(s, L[k], v)
  <2>1. M[k] = L[k] /\ F[k] = E[k] /\ k \in 1 .. n /\ k # n BY <1>4, <1>5, <1>7
  <2>2. Below(M, k) = Below(L, k)
    <3>1. k # 1 => k - 1 \in 1 .. n - 1 BY <1>2
    <3> QED BY <1>4, <3>1 DEF Below
  <2>3. TopOf(M, s2, k) = TopOf(L, s, k)
    BY <1>4, <1>7, <1>8, <2>1 DEF TopOf, n
  <2> DEFINE top == TopOf(L, s, k)
  <2>4. /\ L[k] \in LevelSet /\ top \in Nat /\ top <= l2.fp /\ l2.fp \in Nat
        /\ \A v \in Vars : L[k].adr[v] <= top
        /\ E[k] \in [Vars -> Nat] /\ Own(L[k].fd) \subseteq Vars
    <3>1. l2.fp \in Nat BY DEF LevelSet
    <3> QED BY <2>1, <3>1, StackFacts DEF n
  <2>5. /\ LevelOK(s, L[k], Below(L, k), top) /\ ReadOK(s, st, L[k], E[k])
        /\ \A v \in Vars : E[k][v] <= Len(st)
    BY <2>1 DEF StackOK, n
  <2>6. \A i \in 1 .. top :
          s2[i].var = s[i].var /\ s2[i].saved = s[i].saved /\ s2[i].value = s[i].value
    <3>1. \A i \in 1 .. top : i \in 1 .. l2.fp BY <2>4
    <3> QED BY <3>1 DEF SameSlots
  <2>7. \A v \in Own(L[k].fd) : E[k][v] # 0 => st2[E[k][v]] = st[E[k][v]]
    <3>1. \A v \in Own(L[k].fd) : E[k][v] # 0 => E[k][v] \in 1 .. Len(st) BY <1>2, <2>4, <2>5
    <3> QED BY <3>1 DEF Grown
  <2> HIDE DEF top
  <2>8. LevelOK(s2, L[k], Below(L, k), top) BY <2>4, <2>5, <2>6, LevelKept
  <2>9. /\ ReadOK(s2, st2, L[k], E[k])
        /\ \A v \in Own(L[k].fd) : E[k][v] # 0 => Place(s2, L[k], v) = Place(s, L[k], v)
    <3>1. L[k] \in LevelSet /\ top \in Nat /\ Reach(L[k], top) BY <2>4 DEF Reach
    <3>2. SameValues(s, s2, top) BY <2>6 DEF SameValues
    <3>3. SameStore(st, st2, L[k], E[k]) BY <2>7 DEF SameStore
    <3>4. ReadOK(s2, st2, L[k], E[k]) /\ SamePlaces(s, s2, L[k], E[k])
      BY <2>5, <3>1, <3>2, <3>3, ReadKept
    <3> QED BY <3>4 DEF SamePlaces
  <2>10. \A v \in Vars : E[k][v] <= Len(st2) BY <1>2, <2>4, <2>5 DEF Grown
  <2> QED BY <2>1, <2>2, <2>3, <2>8, <2>9, <2>10 DEF top
<1>11. /\ LevelOK(s2, M[n], Below(M, n), TopOf(M, s2, n))
       /\ ReadOK(s2, st2, M[n], F[n])
       /\ \A v \in Vars : F[n][v] <= Len(st2)
  <2>1. Below(M, n) = Below(L, n)
    <3>1. n # 1 => n - 1 \in 1 .. n - 1 BY <1>2
    <3> QED BY <1>4, <3>1 DEF Below
  <2>2. TopOf(M, s2, n) = Len(s2) BY <1>4 DEF TopOf
  <2> QED BY <1>4, <1>5, <2>1, <2>2 DEF n, Located
<1>12. ASSUME NEW j \in 1 .. n, NEW k \in 1 .. n, NEW v \in Own(M[j].fd), NEW w \in Own(M[k].fd),
              F[j][v] # 0, F[k][w] # 0
       PROVE  Place(s2, M[j], v) = Place(s2, M[k], w) <=> F[j][v] = F[k][w]
  <2>1. CASE j \in 1 .. n - 1 /\ k \in 1 .. n - 1
    <3>1. M[j] = L[j] /\ M[k] = L[k] /\ F[j] = E[j] /\ F[k] = E[k] BY <1>4, <1>5, <2>1
    <3>2. Place(s, L[j], v) = Place(s, L[k], w) <=> E[j][v] = E[k][w]
      BY <1>12, <3>1 DEF StackOK, Separate, n
    <3> QED BY <1>10, <1>12, <2>1, <3>1, <3>2
  <2>2. CASE j \in 1 .. n - 1 /\ k = n
    <3>1. M[j] = L[j] /\ F[j] = E[j] /\ M[k] = l2 /\ F[k] = e2 BY <1>4, <1>5, <2>2
    <3>2. Place(s, L[j], v) = Place(s2, l2, w) <=> E[j][v] = e2[w]
      BY <1>12, <2>2, <3>1 DEF n, ApartBelow
    <3> QED BY <1>10, <1>12, <2>2, <3>1, <3>2
  <2>3. CASE j = n /\ k \in 1 .. n - 1
    <3>1. M[k] = L[k] /\ F[k] = E[k] /\ M[j] = l2 /\ F[j] = e2 BY <1>4, <1>5, <2>3
    <3>2. Place(s, L[k], w) = Place(s2, l2, v) <=> E[k][w] = e2[v]
      BY <1>12, <2>3, <3>1 DEF n, ApartBelow
    <3> QED BY <1>10, <1>12, <2>3, <3>1, <3>2
  <2>4. CASE j = n /\ k = n BY <1>4, <1>5, <1>12, <2>4 DEF Apart
  <2> QED BY <1>6, <2>1, <2>2, <2>3, <2>4
<1>13. Separate(M, F, s2) BY <1>4, <1>12 DEF Separate
<1> QED BY <1>4, <1>5, <1>6, <1>9, <1>10, <1>11, <1>13 DEF StackOK, M, F

-------------------------------------------------------------------------------
(* The current frame *)
Depth == Len(frames) + 1

(* The current frame is the last level.                                      *)
LEMMA TopFacts ==
  ASSUME IInv
  PROVE  /\ Depth \in Nat \ {0} /\ Levels \in Seq(LevelSet) /\ Len(Levels) = Depth
         /\ Levels[Depth] = TopLevel /\ Front(Levels) = frames
         /\ TopLevel \in LevelSet /\ fp \in Nat /\ fd \in Funcs /\ open \in Seq(Vars)
         /\ adr \in [Vars -> Nat] /\ slots \in Seq(SlotSet) /\ store \in Seq(Nat)
         /\ envs \in Seq([Vars -> Nat]) /\ envs # <<>> /\ Len(envs) = Depth
         /\ Env = envs[Depth] /\ Env \in [Vars -> Nat]
         /\ \A v \in Vars : Env[v] <= Len(store)
         /\ Now.adr = adr /\ Now.slots = slots /\ Now = Mem(Now.adr, Now.slots) /\ MemOK(Now)
         /\ LevelOK(slots, TopLevel, Below(Levels, Depth), Len(slots))
         /\ ReadOK(slots, store, TopLevel, Env)
         /\ TopLevel.fp = fp /\ TopLevel.fd = fd /\ TopLevel.open = open /\ TopLevel.adr = adr
         /\ Len(slots) \in Nat /\ Len(store) \in Nat
<1>1. frames \in Seq(LevelSet) /\ TopLevel \in LevelSet /\ StackOK(Levels, envs, slots, store)
  BY DEF IInv
<1>2. /\ Levels \in Seq(LevelSet) /\ Len(Levels) = Depth /\ Depth \in Nat \ {0}
      /\ Levels[Depth] = TopLevel /\ Front(Levels) = frames
  BY <1>1, SequenceAppend, LenProperties DEF Levels, Depth
<1>3. TopLevel.fp = fp /\ TopLevel.fd = fd /\ TopLevel.open = open /\ TopLevel.adr = adr
  BY DEF TopLevel
<1>4. fp \in Nat /\ fd \in Funcs /\ open \in Seq(Vars) /\ adr \in [Vars -> Nat]
  BY <1>1, <1>3 DEF LevelSet
<1>5. /\ slots \in Seq(SlotSet) /\ store \in Seq(Nat)
      /\ envs \in Seq([Vars -> Nat]) /\ Len(envs) = Depth
  BY <1>1, <1>2 DEF StackOK
<1>6. envs # <<>> /\ Env = envs[Depth] /\ Env \in [Vars -> Nat]
  <2>1. Len(<<>>) = 0 BY EmptySeq
  <2>2. Depth \in 1 .. Len(envs) BY <1>2, <1>5
  <2> QED BY <1>2, <1>5, <2>1, <2>2, ElementOfSeq DEF Env, Last
<1>7. Depth \in 1 .. Len(Levels) BY <1>2
<1>8. TopOf(Levels, slots, Depth) = Len(slots) BY <1>2 DEF TopOf
<1>9. /\ LevelOK(slots, TopLevel, Below(Levels, Depth), Len(slots))
      /\ ReadOK(slots, store, TopLevel, Env)
      /\ \A v \in Vars : Env[v] <= Len(store)
  BY <1>1, <1>2, <1>6, <1>7, <1>8 DEF StackOK
<1>10. Now.adr = adr /\ Now.slots = slots /\ Now = Mem(Now.adr, Now.slots) BY DEF Now, Mem
<1>11. MemOK(Now) BY <1>3, <1>4, <1>5, <1>9, <1>10 DEF MemOK, LevelOK
<1>12. Len(slots) \in Nat /\ Len(store) \in Nat BY <1>5, LenProperties
<1> QED BY <1>1, <1>2, <1>3, <1>4, <1>5, <1>6, <1>9, <1>10, <1>11, <1>12

(* What the address and the value behind a variable in scope are, and that   *)
(* the interpreter finds them.                                               *)
LEMMA InScopeFacts ==
  ASSUME IInv, NEW v \in Own(fd), Env[v] # 0
  PROVE  /\ v \in Vars /\ Env[v] \in 1 .. Len(store) /\ store[Env[v]] \in Nat
         /\ Lvalue(v) = Behind(slots, TopLevel, v)
         /\ Lvalue(v) \in Vars
         /\ Lvalue(v) = v \/ Lvalue(v) \notin Own(fd)
         /\ adr[Lvalue(v)] = Place(slots, TopLevel, v)
         /\ adr[Lvalue(v)] \in 1 .. Len(slots)
         /\ slots[adr[Lvalue(v)]].value = Literal(store[Env[v]])
         /\ adr[v] \in 1 .. Len(slots)
<1> DEFINE x == Behind(slots, TopLevel, v)
<1>1. /\ TopLevel.fd = fd /\ TopLevel.adr = adr /\ fd \in Funcs /\ adr \in [Vars -> Nat]
      /\ slots \in Seq(SlotSet) /\ store \in Seq(Nat) /\ Env \in [Vars -> Nat]
      /\ \A w \in Vars : Env[w] <= Len(store)
      /\ MemOK(Now) /\ Now.adr = adr /\ Now.slots = slots
      /\ ReadOK(slots, store, TopLevel, Env)
      /\ Len(slots) \in Nat /\ Len(store) \in Nat
  BY TopFacts
<1>2. v \in Vars BY <1>1, OwnVars
<1>3. Env[v] \in 1 .. Len(store) BY <1>1, <1>2
<1>4. store[Env[v]] \in Nat BY <1>1, <1>3, ElementOfSeq
<1>5. /\ adr[v] # 0 /\ (x = v \/ x \in Vars \ Own(fd))
      /\ Place(slots, TopLevel, v) # 0
      /\ slots[Place(slots, TopLevel, v)].value = Literal(store[Env[v]])
  BY <1>1 DEF ReadOK
<1>6. Place(slots, TopLevel, v) = adr[x] BY <1>1 DEF Place
<1>7. adr[v] \in 1 .. Len(slots) /\ adr[x] \in 1 .. Len(slots)
  BY <1>1, <1>2, <1>5, <1>6 DEF MemOK
<1>8. \A y \in Vars : Strip(y) = IF adr[y] # 0 /\ slots[adr[y]].value # NULL
                                    /\ slots[adr[y]].value.kind = "var"
                                 THEN slots[adr[y]].value.var ELSE y
  BY <1>1 DEF Strip, HasValue, GetValue
<1>9. x = IF slots[adr[v]].value.kind = "var" THEN slots[adr[v]].value.var ELSE v
  BY <1>1 DEF Behind
<1> HIDE DEF x
<1>10. Strip(v) = x
  <2>1. slots[adr[v]].value = NULL => slots[adr[v]].value.kind # "var" BY ValueFacts
  <2> QED BY <1>2, <1>5, <1>8, <1>9, <2>1
<1>11. Strip(x) = x
  <2>1. slots[adr[x]].value = Literal(store[Env[v]]) BY <1>5, <1>6
  <2>2. slots[adr[x]].value.kind # "var" BY <1>4, <2>1, ValueFacts
  <2> QED BY <1>2, <1>5, <1>8, <2>2
<1>12. Lvalue(v) = x BY <1>2, <1>10, <1>11, LvalueOnce
<1> QED BY <1>2, <1>3, <1>4, <1>5, <1>6, <1>7, <1>12 DEF x

(* What ReadsAgree says follows from the invariant.                          *)
LEMMA ReadsAgreeNow == IInv => ReadsAgree
<1> SUFFICES ASSUME IInv, NEW v \in InScope
             PROVE  /\ HasValue(Now, Lvalue(v))
                    /\ GetValue(Now, Lvalue(v)) = Literal(store[Env[v]])
  BY DEF ReadsAgree
<1>1. v \in Own(fd) /\ Env[v] # 0 BY DEF InScope
<1>2. adr[Lvalue(v)] # 0 /\ slots[adr[Lvalue(v)]].value = Literal(store[Env[v]])
  BY <1>1, InScopeFacts
<1>3. Now.adr = adr /\ Now.slots = slots BY TopFacts
<1> QED BY <1>2, <1>3, ValueFacts DEF HasValue, GetValue

(* A variable of the function or of none has its address from the level      *)
(* below when it has none in the current frame.                              *)
LEMMA BelowFacts ==
  ASSUME IInv
  PROVE  /\ Below(Levels, Depth) \in [Vars -> Nat]
         /\ \A v \in Vars : Below(Levels, Depth)[v] <= fp
<1>1. /\ Depth \in Nat \ {0} /\ Len(Levels) = Depth /\ fp \in Nat /\ Levels[Depth] = TopLevel
      /\ TopLevel.fp = fp /\ StackOK(Levels, envs, slots, store)
  BY TopFacts DEF IInv
<1>2. CASE Depth = 1 BY <1>1, <1>2 DEF Below, NoEnv
<1>3. CASE Depth # 1
  <2>1. Depth - 1 \in 1 .. Len(Levels) /\ Depth - 1 # Len(Levels) BY <1>1, <1>3
  <2>2. /\ Levels[Depth - 1].adr \in [Vars -> Nat]
        /\ TopOf(Levels, slots, Depth - 1) <= Levels[Depth].fp
        /\ TopOf(Levels, slots, Depth - 1) \in Nat
        /\ \A v \in Vars : Levels[Depth - 1].adr[v] <= TopOf(Levels, slots, Depth - 1)
    BY <1>1, <2>1, StackFacts
  <2> QED BY <1>1, <1>3, <2>2 DEF Below
<1> QED BY <1>2, <1>3

(* The places of the frames below are at or under the framepointer.          *)
LEMMA LowerPlaces ==
  ASSUME IInv, NEW j \in 1 .. Depth - 1, NEW w \in Own(Levels[j].fd), envs[j][w] # 0
  PROVE  /\ Place(slots, Levels[j], w) \in 1 .. fp
         /\ envs[j][w] \in 1 .. Len(store)
<1>1. /\ Depth \in Nat \ {0} /\ Len(Levels) = Depth /\ fp \in Nat /\ Levels[Depth] = TopLevel
      /\ TopLevel.fp = fp /\ StackOK(Levels, envs, slots, store) /\ Len(store) \in Nat
  BY TopFacts DEF IInv
<1>2. j \in 1 .. Len(Levels) /\ j # Len(Levels) BY <1>1
<1>3. /\ Place(slots, Levels[j], w) \in 1 .. TopOf(Levels, slots, j)
      /\ TopOf(Levels, slots, j) \in Nat /\ TopOf(Levels, slots, j) <= fp
      /\ envs[j] \in [Vars -> Nat] /\ w \in Vars
  BY <1>1, <1>2, StackFacts
<1>4. envs[j][w] <= Len(store) BY <1>1, <1>2, <1>3 DEF StackOK
<1> QED BY <1>1, <1>3, <1>4

LEMMA Separated ==
  ASSUME IInv
  PROVE  Apart(slots, TopLevel, Env) /\ ApartBelow(Levels, envs, slots, slots, TopLevel, Env)
<1>1. /\ Depth \in Nat \ {0} /\ Len(Levels) = Depth /\ Levels[Depth] = TopLevel
      /\ Env = envs[Depth] /\ StackOK(Levels, envs, slots, store)
  BY TopFacts DEF IInv
<1>2. Depth \in 1 .. Len(Levels) /\ \A j \in 1 .. Len(Levels) - 1 : j \in 1 .. Len(Levels)
  BY <1>1
<1>3. Separate(Levels, envs, slots) BY <1>1 DEF StackOK
<1>4. ASSUME NEW v \in Own(TopLevel.fd), NEW w \in Own(TopLevel.fd), Env[v] # 0, Env[w] # 0
      PROVE  Place(slots, TopLevel, v) = Place(slots, TopLevel, w) <=> Env[v] = Env[w]
  BY <1>1, <1>2, <1>3, <1>4 DEF Separate
<1>5. ASSUME NEW j \in 1 .. Len(Levels) - 1, NEW w \in Own(Levels[j].fd),
             NEW v \in Own(TopLevel.fd), envs[j][w] # 0, Env[v] # 0
      PROVE  Place(slots, Levels[j], w) = Place(slots, TopLevel, v) <=> envs[j][w] = Env[v]
  BY <1>1, <1>2, <1>3, <1>5 DEF Separate
<1> QED BY <1>4, <1>5 DEF Apart, ApartBelow

(* A variable gets the slot of its function in the current frame, with a     *)
(* fresh value in a location of its own or with none.                        *)
LEMMA EnterStep ==
  ASSUME IInv, NEW v \in Opened(fd), NEW n, NEW e \in Values, NEW loc \in Nat,
         Entered(Now, n, fp, v, e), e.kind # "var", Remember(n),
         UNCHANGED <<fp, frames, fd, aborted>>,
         envs' = Append(Front(envs), [Env EXCEPT ![v] = loc]),
         \/ loc = 0 /\ store' = store
         \/ loc = Len(store) + 1 /\ e = Literal(loc) /\ store' = Append(store, loc),
         open' \in Seq(Vars), IsInjective(open'),
         \A i \in DOMAIN open' : open'[i] \in Opened(fd) /\ (open'[i] = v \/ open'[i] \in ToSet(open))
  PROVE  IInv'
<1> DEFINE p == SlotFor(Now, fp, v)
           below == Below(Levels, Depth)
           fresh == ~(adr[v] > fp)
           l == TopLevel
           k == TopLevel'
           E2 == [Env EXCEPT ![v] = loc]
<1>1. /\ Depth \in Nat \ {0} /\ Levels \in Seq(LevelSet) /\ Len(Levels) = Depth
      /\ Levels[Depth] = l /\ Front(Levels) = frames
      /\ l \in LevelSet /\ fp \in Nat /\ fd \in Funcs /\ open \in Seq(Vars)
      /\ adr \in [Vars -> Nat] /\ slots \in Seq(SlotSet) /\ store \in Seq(Nat)
      /\ envs \in Seq([Vars -> Nat]) /\ Len(envs) = Depth
      /\ Env = envs[Depth] /\ Env \in [Vars -> Nat]
      /\ \A w \in Vars : Env[w] <= Len(store)
      /\ Now.adr = adr /\ Now.slots = slots /\ Now = Mem(Now.adr, Now.slots) /\ MemOK(Now)
      /\ LevelOK(slots, l, below, Len(slots))
      /\ ReadOK(slots, store, l, Env)
      /\ l.fp = fp /\ l.fd = fd /\ l.open = open /\ l.adr = adr
      /\ Len(slots) \in Nat /\ Len(store) \in Nat
  BY TopFacts
<1>2. v \in Vars /\ v \in Own(fd) /\ v \notin ToSet(Params[fd]) BY <1>1, OwnVars
<1>3. /\ ~aborted /\ adr' = n.adr /\ slots' = n.slots
      /\ envs' = Append(Front(envs), E2)
      /\ fp' = fp /\ frames' = frames /\ fd' = fd /\ ~aborted'
  BY DEF Remember, IInv
<1>5. Entered(Now, n, fp, v, e) OBVIOUS
<1> HIDE DEF below
<1>6. p = (IF fresh THEN Len(slots) + 1 ELSE adr[v]) BY <1>1 DEF SlotFor
<1>7. adr[v] <= Len(slots) /\ fp <= Len(slots) BY <1>1, <1>2 DEF MemOK, LevelOK
<1>8. /\ MemOK(n) /\ adr' = [adr EXCEPT ![v] = p]
      /\ Len(slots') = (IF fresh THEN Len(slots) + 1 ELSE Len(slots))
      /\ \A i \in 1 .. Len(slots) :
           /\ slots'[i].var = slots[i].var /\ slots'[i].saved = slots[i].saved
           /\ i # p => slots'[i].value = slots[i].value
      /\ slots'[p].value = e
      /\ slots' \in Seq(SlotSet) /\ adr' \in [Vars -> Nat]
  BY <1>1, <1>3, <1>5 DEF Entered, MemOK
<1>9. p \in Nat /\ p > fp /\ adr'[v] = p BY <1>1, <1>2, <1>6, <1>7, <1>8
<1>10. \A x \in Vars \ {v} : adr'[x] = adr[x] /\ adr[x] # p
  <2> SUFFICES ASSUME NEW x \in Vars \ {v} PROVE adr'[x] = adr[x] /\ adr[x] # p OBVIOUS
  <2>1. adr'[x] = adr[x] /\ adr[x] \in Nat /\ adr[x] <= Len(slots) BY <1>1, <1>8 DEF MemOK
  <2>2. CASE fresh BY <1>1, <1>6, <2>1, <2>2
  <2>3. CASE ~fresh
    <3>1. slots[adr[v]].var = v BY <1>1, <1>2, <2>3 DEF LevelOK
    <3>2. adr[x] > fp => slots[adr[x]].var = x BY <1>1 DEF LevelOK
    <3> QED BY <1>6, <2>1, <2>3, <3>1, <3>2
  <2> QED BY <2>2, <2>3
<1> HIDE DEF p
<1>11. /\ k \in LevelSet /\ k.fp = fp /\ k.fd = fd /\ k.open = open' /\ k.adr = adr'
  BY <1>1, <1>3, <1>8 DEF TopLevel, LevelSet
<1> HIDE DEF k, l
<1>12. LevelOK(slots', k, below, Len(slots'))
  <2>1. fresh => adr[v] = below[v] BY <1>1, <1>2 DEF LevelOK
  <2>2. ASSUME NEW i \in DOMAIN open' PROVE open'[i] \in Opened(fd) /\ adr'[open'[i]] > fp
    <3>1. open'[i] \in Opened(fd) /\ (open'[i] = v \/ open'[i] \in ToSet(open)) OBVIOUS
    <3>2. CASE open'[i] = v BY <1>9, <3>1, <3>2
    <3>3. CASE open'[i] # v
      <4>1. PICK j \in DOMAIN open : open'[i] = open[j] BY <3>1, <3>3 DEF ToSet
      <4>2. adr[open'[i]] > fp BY <1>1, <4>1 DEF LevelOK
      <4>3. open'[i] \in Vars BY <1>1, <3>1, OwnVars
      <4> QED BY <1>10, <3>1, <3>3, <4>2, <4>3
    <3> QED BY <3>2, <3>3
  <2>3. Entered(Now, n, l.fp, v, e) /\ v \in Own(l.fd) /\ (~(l.adr[v] > l.fp) => l.adr[v] = below[v])
    BY <1>1, <1>2, <1>5, <2>1
  <2>4. k.adr = n.adr /\ k.fp = l.fp /\ k.fd = l.fd /\ l.adr = Now.adr BY <1>1, <1>3, <1>11
  <2>5. IsInjective(k.open)
        /\ \A i \in DOMAIN k.open : k.open[i] \in Opened(l.fd) /\ k.adr[k.open[i]] > l.fp
    BY <1>1, <1>11, <2>2
  <2>6. LevelOK(Now.slots, l, below, Len(Now.slots)) BY <1>1
  <2>7. LevelOK(n.slots, k, below, Len(n.slots))
    BY <1>1, <1>2, <1>11, <2>3, <2>4, <2>5, <2>6, LevelEntered
  <2> QED BY <1>3, <2>7
<1>13. /\ store' \in Seq(Nat) /\ Len(store') \in Nat /\ Len(store) <= Len(store')
       /\ loc <= Len(store') /\ (loc # 0 => loc = Len(store) + 1 /\ store'[loc] = loc)
       /\ \A i \in 1 .. Len(store) : store'[i] = store[i]
  <2>1. CASE loc = 0 /\ store' = store BY <1>1, <2>1
  <2>2. CASE loc = Len(store) + 1 /\ store' = Append(store, loc)
    <3>1. /\ store' \in Seq(Nat) /\ Len(store') = Len(store) + 1
          /\ \A i \in 1 .. Len(store) : store'[i] = store[i]
          /\ store'[Len(store) + 1] = loc
      BY <1>1, <2>2, SequenceAppend
    <3> QED BY <1>1, <2>2, <3>1
  <2> QED BY <2>1, <2>2
<1>14. /\ E2 \in [Vars -> Nat] /\ E2[v] = loc /\ \A w \in Vars \ {v} : E2[w] = Env[w]
       /\ \A w \in Vars : E2[w] <= Len(store')
  BY <1>1, <1>2, <1>13, SMTT(30)
<1> HIDE DEF E2
<1>15. /\ Behind(slots', k, v) = v /\ Place(slots', k, v) = p
       /\ loc # 0 => slots'[p].value = Literal(loc)
  <2>1. Behind(slots', k, v) = v BY <1>8, <1>9, <1>11 DEF Behind
  <2> QED BY <1>8, <1>9, <1>11, <2>1 DEF Place
<1>16. ASSUME NEW w \in Own(fd), w # v, Env[w] # 0
       PROVE  /\ adr'[w] # 0
              /\ Behind(slots', k, w) = Behind(slots, l, w)
              /\ Place(slots', k, w) = Place(slots, l, w)
              /\ Behind(slots, l, w) = w \/ Behind(slots, l, w) \in Vars \ Own(fd)
              /\ Place(slots, l, w) # 0 /\ Place(slots, l, w) # p
              /\ slots'[Place(slots, l, w)].value = Literal(store'[Env[w]])
  <2> DEFINE x == Behind(slots, l, w)
  <2>1. /\ w \in Vars /\ Env[w] \in 1 .. Len(store) /\ x \in Vars /\ (x = w \/ x \notin Own(fd))
        /\ adr[x] = Place(slots, l, w) /\ adr[x] \in 1 .. Len(slots)
        /\ slots[adr[x]].value = Literal(store[Env[w]]) /\ adr[w] \in 1 .. Len(slots)
    BY <1>16, InScopeFacts DEF l
  <2>2. x # v BY <1>2, <1>16, <2>1
  <2>3. adr'[w] = adr[w] /\ adr[w] # p /\ slots'[adr[w]].value = slots[adr[w]].value
    BY <1>8, <1>10, <1>16, <2>1
  <2>4. Behind(slots', k, w) = x BY <1>1, <1>11, <2>3 DEF Behind
  <2>5. adr'[x] = adr[x] /\ adr[x] # p BY <1>10, <2>1, <2>2
  <2> HIDE DEF x
  <2>6. Place(slots', k, w) = adr[x] BY <1>11, <2>4, <2>5 DEF Place
  <2>7. slots'[adr[x]].value = Literal(store'[Env[w]]) BY <1>8, <1>13, <2>1, <2>5
  <2> QED BY <2>1, <2>3, <2>4, <2>5, <2>6, <2>7 DEF x
<1>17. ReadOK(slots', store', k, E2)
  <2> SUFFICES ASSUME NEW w \in Own(fd), E2[w] # 0
               PROVE  /\ adr'[w] # 0
                      /\ Behind(slots', k, w) = w \/ Behind(slots', k, w) \in Vars \ Own(fd)
                      /\ Place(slots', k, w) # 0
                      /\ slots'[Place(slots', k, w)].value = Literal(store'[E2[w]])
    BY <1>11 DEF ReadOK
  <2>1. CASE w = v
    <3>1. E2[w] = loc /\ loc # 0 BY <1>14, <2>1
    <3>2. store'[E2[w]] = loc BY <1>13, <3>1
    <3>3. adr'[w] = p /\ p # 0 BY <1>1, <1>9, <2>1
    <3>4. Behind(slots', k, w) = w /\ Place(slots', k, w) = p BY <1>15, <2>1
    <3>5. slots'[Place(slots', k, w)].value = Literal(store'[E2[w]])
      BY <1>15, <3>1, <3>2, <3>4
    <3> QED BY <3>3, <3>4, <3>5
  <2>2. CASE w # v
    <3>1. w \in Vars BY <1>1, OwnVars
    <3>2. E2[w] = Env[w] BY <1>14, <2>2, <3>1
    <3> QED BY <1>16, <2>2, <3>2
  <2> QED BY <2>1, <2>2
<1>18. ASSUME NEW w \in Own(fd), NEW x \in Own(fd), E2[w] # 0, E2[x] # 0
       PROVE  Place(slots', k, w) = Place(slots', k, x) <=> E2[w] = E2[x]
  <2>1. w \in Vars /\ x \in Vars BY <1>1, OwnVars
  <2>2. \A y \in Vars \ {v} : E2[y] = Env[y] /\ (loc # 0 => E2[y] # loc)
    BY <1>1, <1>13, <1>14
  <2>3. CASE w = v /\ x = v BY <2>3
  <2>4. CASE w = v /\ x # v BY <1>14, <1>15, <1>16, <1>18, <2>1, <2>2, <2>4
  <2>5. CASE w # v /\ x = v BY <1>14, <1>15, <1>16, <1>18, <2>1, <2>2, <2>5
  <2>6. CASE w # v /\ x # v
    <3>1. Env[w] # 0 /\ Env[x] # 0 /\ E2[w] = Env[w] /\ E2[x] = Env[x] BY <1>18, <2>1, <2>2, <2>6
    <3>2. Place(slots, l, w) = Place(slots, l, x) <=> Env[w] = Env[x]
      BY <1>1, <3>1, Separated DEF Apart, l
    <3> QED BY <1>16, <2>6, <3>1, <3>2
  <2> QED BY <2>3, <2>4, <2>5, <2>6
<1>19. ASSUME NEW j \in 1 .. Depth - 1, NEW w \in Own(Levels[j].fd), NEW x \in Own(fd),
              envs[j][w] # 0, E2[x] # 0
       PROVE  Place(slots, Levels[j], w) = Place(slots', k, x) <=> envs[j][w] = E2[x]
  <2>1. x \in Vars BY <1>1, OwnVars
  <2>2. Place(slots, Levels[j], w) \in 1 .. fp /\ envs[j][w] \in 1 .. Len(store)
    BY <1>19, LowerPlaces
  <2>3. CASE x = v
    <3>1. E2[x] = loc /\ loc # 0 BY <1>14, <1>19, <2>3
    <3>2. envs[j][w] # E2[x] BY <1>1, <1>13, <2>2, <3>1
    <3>3. Place(slots', k, x) = p BY <1>15, <2>3
    <3>4. Place(slots, Levels[j], w) # p BY <1>1, <1>9, <2>2
    <3> QED BY <3>2, <3>3, <3>4
  <2>4. CASE x # v
    <3>1. Env[x] # 0 /\ E2[x] = Env[x] BY <1>14, <1>19, <2>1, <2>4
    <3>2. Place(slots, Levels[j], w) = Place(slots, l, x) <=> envs[j][w] = Env[x]
      BY <1>1, <1>19, <3>1, Separated DEF ApartBelow, l
    <3> QED BY <1>16, <2>4, <3>1, <3>2
  <2> QED BY <2>3, <2>4
<1>20. StackOK(Append(Front(Levels), k), Append(Front(envs), E2), slots', store')
  <2>1. StackOK(Levels, envs, slots, store) BY DEF IInv
  <2>2. SameSlots(slots, slots', k.fp)
    <3>1. \A i \in 1 .. fp : i \in 1 .. Len(slots) /\ i # p BY <1>1, <1>7, <1>9
    <3> QED BY <1>8, <1>11, <3>1 DEF SameSlots
  <2>3. Grown(store, store') /\ Located(E2, store') BY <1>1, <1>13, <1>14 DEF Grown, Located
  <2>4. Apart(slots', k, E2) BY <1>11, <1>18 DEF Apart
  <2>5. ApartBelow(Levels, envs, slots, slots', k, E2) BY <1>1, <1>11, <1>19 DEF ApartBelow
  <2>6. LevelOK(slots', k, Below(Levels, Len(Levels)), Len(slots')) BY <1>1, <1>12 DEF below
  <2>7. k.fp = Levels[Len(Levels)].fp /\ k.fd = Levels[Len(Levels)].fd BY <1>1, <1>11
  <2> QED BY <1>8, <1>11, <1>13, <1>14, <1>17, <2>1, <2>2, <2>3, <2>4, <2>5, <2>6, <2>7, TopChanged
<1>21. Levels' = Append(Front(Levels), k) /\ envs' = Append(Front(envs), E2)
  BY <1>1, <1>3 DEF Levels, k, E2
<1> QED BY <1>3, <1>11, <1>20, <1>21 DEF IInv, k

LEMMA OpenFacts ==
  ASSUME IInv
  PROVE  /\ IsInjective(open) /\ DOMAIN open = 1 .. Len(open) /\ Len(open) \in Nat
         /\ \A i \in DOMAIN open :
              open[i] \in Opened(fd) /\ adr[open[i]] > fp /\ open[i] \in ToSet(open)
<1>1. /\ LevelOK(slots, TopLevel, Below(Levels, Depth), Len(slots)) /\ open \in Seq(Vars)
      /\ TopLevel.fp = fp /\ TopLevel.fd = fd /\ TopLevel.open = open /\ TopLevel.adr = adr
  BY TopFacts
<1> QED BY <1>1, LenProperties DEF LevelOK, ToSet

(* An expression begins that has a variable of its own. *)
LEMMA OpenedMore ==
  ASSUME IInv, NEW v \in Opened(fd) \ ToSet(open), open' = Append(open, v)
  PROVE  /\ open' \in Seq(Vars) /\ IsInjective(open')
         /\ \A i \in DOMAIN open' :
              open'[i] \in Opened(fd) /\ (open'[i] = v \/ open'[i] \in ToSet(open))
<1>1. v \in Opened(fd) /\ v \notin ToSet(open) /\ open' = Append(open, v) /\ v \in Vars
  <2>1. fd \in Funcs BY TopFacts
  <2> QED BY <2>1, OwnVars
<1>2. open \in Seq(Vars) BY TopFacts
<1>3. /\ IsInjective(open) /\ DOMAIN open = 1 .. Len(open) /\ Len(open) \in Nat
      /\ \A i \in 1 .. Len(open) : open[i] \in Opened(fd) /\ open[i] \in ToSet(open)
  BY OpenFacts
<1>4. /\ open' \in Seq(Vars) /\ Len(open') = Len(open) + 1
      /\ \A i \in 1 .. Len(open) : open'[i] = open[i]
      /\ open'[Len(open) + 1] = v
  BY <1>1, <1>2, SequenceAppend
<1>5. DOMAIN open' = 1 .. Len(open) + 1 BY <1>4, LenProperties
<1>6. \A i \in DOMAIN open' : i \in 1 .. Len(open) \/ i = Len(open) + 1 BY <1>3, <1>5
<1>7. \A i \in 1 .. Len(open) : open'[i] # v BY <1>1, <1>3, <1>4
<1>8. IsInjective(open')
  <2> SUFFICES ASSUME NEW i \in DOMAIN open', NEW j \in DOMAIN open', open'[i] = open'[j]
               PROVE  i = j
    BY DEF IsInjective
  <2>1. CASE i \in 1 .. Len(open) /\ j \in 1 .. Len(open) BY <1>3, <1>4, <2>1 DEF IsInjective
  <2> QED BY <1>4, <1>6, <1>7, <2>1
<1>9. \A i \in DOMAIN open' :
         open'[i] \in Opened(fd) /\ (open'[i] = v \/ open'[i] \in ToSet(open))
  BY <1>1, <1>3, <1>4, <1>6
<1> QED BY <1>4, <1>8, <1>9

(* An expression ends that had one.                                          *)
LEMMA OpenedLess ==
  ASSUME IInv, open # <<>>, open' = Front(open)
  PROVE  /\ Last(open) \in Opened(fd) /\ adr[Last(open)] > fp
         /\ open' \in Seq(Vars) /\ IsInjective(open')
         /\ \A i \in DOMAIN open' :
              /\ open'[i] \in Opened(fd) /\ open'[i] \in ToSet(open)
              /\ open'[i] # Last(open) /\ adr[open'[i]] > fp
<1>1. open \in Seq(Vars) BY TopFacts
<1>2. /\ Len(open) \in Nat \ {0} /\ Last(open) = open[Len(open)]
      /\ open' \in Seq(Vars) /\ Len(open') = Len(open) - 1
      /\ \A i \in 1 .. Len(open) - 1 : open'[i] = open[i]
  BY <1>1, SequenceFront, ZenonT(40)
<1>3. /\ IsInjective(open) /\ DOMAIN open = 1 .. Len(open)
      /\ \A i \in 1 .. Len(open) :
           open[i] \in Opened(fd) /\ adr[open[i]] > fp /\ open[i] \in ToSet(open)
  BY OpenFacts
<1>4. DOMAIN open' = 1 .. Len(open) - 1 BY <1>2, LenProperties
<1>5. Len(open) \in 1 .. Len(open) BY <1>2
<1>6. \A i \in DOMAIN open' : i \in 1 .. Len(open) /\ i # Len(open) /\ open'[i] = open[i]
  BY <1>2, <1>4
<1>7. IsInjective(open') BY <1>3, <1>6 DEF IsInjective
<1>8. \A i \in DOMAIN open' : open'[i] # Last(open) BY <1>2, <1>3, <1>5, <1>6 DEF IsInjective
<1> QED BY <1>2, <1>3, <1>5, <1>6, <1>7, <1>8

(* A declaration begins: the variable is on the stack without a value.       *)
LEMMA DeclareStep ==
  ASSUME IInv, NEW v \in Vars, Declare(v)
  PROVE  IInv'
<1>1. /\ v \in Opened(fd) \ ToSet(open) /\ open' = Append(open, v)
      /\ Remember(Push(Now, fp, v)) /\ UNCHANGED <<fp, frames, fd, aborted, store>>
      /\ envs' = Append(Front(envs), [Env EXCEPT ![v] = 0])
  BY DEF Declare, Opened
<1>2. Now = Mem(Now.adr, Now.slots) /\ MemOK(Now) /\ fp \in Nat BY TopFacts
<1>3. Entered(Now, Push(Now, fp, v), fp, v, NULL) BY <1>2, PushIs
<1>4. /\ open' \in Seq(Vars) /\ IsInjective(open')
      /\ \A i \in DOMAIN open' :
           open'[i] \in Opened(fd) /\ (open'[i] = v \/ open'[i] \in ToSet(open))
  BY <1>1, OpenedMore
<1>5. NULL \in Values /\ NULL.kind # "var" /\ 0 \in Nat BY ValueFacts
<1> QED BY <1>1, <1>3, <1>4, <1>5, EnterStep

(* and ends: it has one.                                                     *)
LEMMA InitializeStep ==
  ASSUME IInv, Initialize
  PROVE  IInv'
<1> DEFINE v == Last(open)
           loc == Len(store) + 1
           e == Literal(loc)
           n == SetValue(Now, v, e)
<1>1. /\ open # <<>> /\ open' = Front(open)
      /\ Remember(n) /\ UNCHANGED <<fp, frames, fd, aborted>>
      /\ store' = Append(store, loc)
      /\ envs' = Append(Front(envs), [Env EXCEPT ![v] = loc])
  BY DEF Initialize, Locate
<1>2. /\ Now = Mem(Now.adr, Now.slots) /\ MemOK(Now) /\ fp \in Nat /\ fd \in Funcs
      /\ Now.adr = adr /\ Len(slots) \in Nat /\ Len(store) \in Nat /\ Now.slots = slots
  BY TopFacts
<1>3. /\ v \in Opened(fd) /\ adr[v] > fp
      /\ open' \in Seq(Vars) /\ IsInjective(open')
      /\ \A i \in DOMAIN open' : open'[i] \in Opened(fd) /\ open'[i] \in ToSet(open)
  BY <1>1, OpenedLess
<1>4. v \in Vars BY <1>2, <1>3, OwnVars
<1>5. loc \in Nat BY <1>2
<1>6. e \in Values /\ e.kind # "var" BY <1>5, ValueFacts
<1> HIDE DEF v, e, loc
<1>7. adr[v] \in Nat /\ adr[v] # 0 /\ adr[v] \in 1 .. Len(slots)
  BY <1>2, <1>3, <1>4 DEF MemOK
<1>8. /\ n.adr = adr
      /\ n.slots \in Seq(SlotSet) /\ Len(n.slots) = Len(slots)
      /\ \A i \in 1 .. Len(slots) :
           /\ n.slots[i].var = slots[i].var /\ n.slots[i].saved = slots[i].saved
           /\ i # adr[v] => n.slots[i].value = slots[i].value
      /\ n.slots[adr[v]].value = e
  BY <1>2, <1>4, <1>6, <1>7, SetValueIs
<1> HIDE DEF n
<1>9. Entered(Now, n, fp, v, e)
  <2>1. SlotFor(Now, fp, v) = adr[v] BY <1>2, <1>3 DEF SlotFor
  <2>2. MemOK(n) BY <1>2, <1>8 DEF MemOK
  <2>3. n.adr = [Now.adr EXCEPT ![v] = adr[v]] BY <1>2, <1>8 DEF MemOK
  <2> QED BY <1>2, <1>3, <1>8, <2>1, <2>2, <2>3 DEF Entered
<1>10. loc = Len(store) + 1 /\ e = Literal(loc) BY DEF loc, e
<1> QED BY <1>1, <1>3, <1>5, <1>6, <1>9, <1>10, EnterStep

(* An index expression begins.                                               *)
LEMMA PushDollarStep ==
  ASSUME IInv, NEW v \in Vars, PushDollar(v)
  PROVE  IInv'
<1> DEFINE loc == Len(store) + 1
           e == Literal(loc)
           n == SetValue(Push(Now, fp, v), v, e)
<1>1. /\ v \in Opened(fd) \ ToSet(open) /\ open' = Append(open, v)
      /\ Remember(n) /\ UNCHANGED <<fp, frames, fd, aborted>>
      /\ store' = Append(store, loc)
      /\ envs' = Append(Front(envs), [Env EXCEPT ![v] = loc])
  BY DEF PushDollar, Locate, Opened
<1>2. /\ Now = Mem(Now.adr, Now.slots) /\ MemOK(Now) /\ fp \in Nat /\ Len(store) \in Nat
  BY TopFacts
<1>3. loc \in Nat BY <1>2
<1>4. e \in Values /\ e.kind # "var" BY <1>3, ValueFacts
<1>5. Entered(Now, n, fp, v, e)
  <2> HIDE DEF e
  <2> QED BY <1>2, <1>4, EnteredValue
<1>6. /\ open' \in Seq(Vars) /\ IsInjective(open')
      /\ \A i \in DOMAIN open' :
           open'[i] \in Opened(fd) /\ (open'[i] = v \/ open'[i] \in ToSet(open))
  BY <1>1, OpenedMore
<1>7. loc = Len(store) + 1 /\ e = Literal(loc) OBVIOUS
<1> HIDE DEF n, e, loc
<1> QED BY <1>1, <1>3, <1>4, <1>5, <1>6, <1>7, EnterStep

(* An index expression ends; its slot may stay.                              *)
LEMMA PopDollarStep ==
  ASSUME IInv, PopDollar
  PROVE  IInv'
<1> DEFINE v == Last(open)
           below == Below(Levels, Depth)
           l == TopLevel
           k == TopLevel'
           E2 == [Env EXCEPT ![v] = 0]
<1>1. /\ Depth \in Nat \ {0} /\ Levels \in Seq(LevelSet) /\ Len(Levels) = Depth
      /\ Levels[Depth] = l /\ Front(Levels) = frames
      /\ l \in LevelSet /\ fp \in Nat /\ fd \in Funcs /\ open \in Seq(Vars)
      /\ adr \in [Vars -> Nat] /\ slots \in Seq(SlotSet) /\ store \in Seq(Nat)
      /\ envs \in Seq([Vars -> Nat]) /\ Len(envs) = Depth
      /\ Env = envs[Depth] /\ Env \in [Vars -> Nat]
      /\ \A w \in Vars : Env[w] <= Len(store)
      /\ Now.adr = adr /\ Now.slots = slots /\ Now = Mem(Now.adr, Now.slots) /\ MemOK(Now)
      /\ LevelOK(slots, l, below, Len(slots))
      /\ ReadOK(slots, store, l, Env)
      /\ l.fp = fp /\ l.fd = fd /\ l.open = open /\ l.adr = adr
      /\ Len(slots) \in Nat /\ Len(store) \in Nat
  BY TopFacts
<1>2. below \in [Vars -> Nat] /\ \A w \in Vars : below[w] <= fp BY BelowFacts
<1> HIDE DEF below, l, k
<1>3. /\ ~aborted /\ open # <<>> /\ Remember(Pop(Now, v))
      /\ open' = Front(open) /\ envs' = Append(Front(envs), E2)
      /\ fp' = fp /\ frames' = frames /\ fd' = fd /\ store' = store /\ ~aborted'
  BY DEF PopDollar
<1>7. /\ v \in Opened(fd) /\ adr[v] > fp
      /\ open' \in Seq(Vars) /\ IsInjective(open')
      /\ \A i \in DOMAIN open' :
           open'[i] \in Opened(fd) /\ open'[i] # v /\ adr[open'[i]] > fp
  BY <1>3, OpenedLess
<1> HIDE DEF v
<1>8. v \in Vars /\ v \in Own(fd) /\ v \notin ToSet(Params[fd]) BY <1>1, <1>7, OwnVars
<1>9. adr[v] \in fp + 1 .. Len(slots) BY <1>1, <1>7, <1>8 DEF MemOK
<1>10. slots[adr[v]].var = v /\ slots[adr[v]].saved = below[v]
  BY <1>1, <1>7, <1>8, <1>9 DEF LevelOK
<1>11. adr' = [adr EXCEPT ![v] = below[v]] /\ slots' = slots
  <2>1. below[v] # Len(slots) BY <1>1, <1>2, <1>8, <1>9
  <2>2. Pop(Now, v) = Mem([adr EXCEPT ![v] = below[v]], slots) BY <1>1, <1>10, <2>1 DEF Pop
  <2> QED BY <1>3, <2>2 DEF Remember, Mem
<1>12. /\ adr' \in [Vars -> Nat] /\ adr'[v] = below[v] /\ ~(adr'[v] > fp)
       /\ \A w \in Vars \ {v} : adr'[w] = adr[w]
  BY <1>1, <1>2, <1>8, <1>11
<1>13. k \in LevelSet /\ k.fp = fp /\ k.fd = fd /\ k.open = open' /\ k.adr = adr'
  BY <1>1, <1>3, <1>7, <1>12 DEF k, TopLevel, LevelSet
<1>14. IsInjective(open')
       /\ \A i \in DOMAIN open' : open'[i] \in Opened(fd) /\ adr'[open'[i]] > fp
  <2>1. \A i \in DOMAIN open' : open'[i] \in Vars BY <1>1, <1>7, OwnVars
  <2> QED BY <1>7, <1>12, <2>1
<1>15. LevelOK(slots', k, below, Len(slots'))
  <2>1. ASSUME NEW w \in Vars
        PROVE  /\ adr'[w] <= Len(slots)
               /\ adr'[w] > fp => slots[adr'[w]].var = w
               /\ adr'[w] <= fp /\ w \notin ToSet(Params[fd]) => adr'[w] = below[w]
               /\ (\A i \in fp + 1 .. Len(slots) : slots[i].var # w) => adr'[w] = below[w]
    <3>1. CASE w = v
      <4>1. fp <= Len(slots) BY <1>1, <1>9
      <4>2. below[v] <= Len(slots) BY <1>1, <1>2, <1>8, <4>1
      <4> QED BY <1>12, <3>1, <4>2
    <3>2. CASE w # v BY <1>1, <1>12, <3>2 DEF LevelOK
    <3> QED BY <3>1, <3>2
  <2>2. \A i \in fp + 1 .. Len(slots) :
          slots[i].var \in Own(fd) /\ slots[i].saved = below[slots[i].var]
    BY <1>1 DEF LevelOK
  <2>3. fp <= Len(slots) BY <1>1 DEF LevelOK
  <2> QED BY <1>11, <1>13, <1>14, <2>1, <2>2, <2>3 DEF LevelOK
<1>16. E2 \in [Vars -> Nat] /\ E2[v] = 0 /\ (\A w \in Vars \ {v} : E2[w] = Env[w])
       /\ Located(E2, store)
  BY <1>1, <1>8, SMTT(30) DEF Located
<1> HIDE DEF E2
<1>17. ASSUME NEW w \in Own(fd), E2[w] # 0
       PROVE  /\ w # v /\ Env[w] # 0 /\ E2[w] = Env[w]
              /\ adr'[w] # 0
              /\ Behind(slots', k, w) = Behind(slots, l, w)
              /\ Place(slots', k, w) = Place(slots, l, w)
              /\ Behind(slots, l, w) = w \/ Behind(slots, l, w) \in Vars \ Own(fd)
              /\ Place(slots, l, w) # 0
              /\ slots'[Place(slots, l, w)].value = Literal(store[Env[w]])
  <2> DEFINE x == Behind(slots, l, w)
  <2>1. w \in Vars BY <1>1, OwnVars
  <2>2. w # v /\ Env[w] # 0 /\ E2[w] = Env[w] BY <1>16, <1>17, <2>1
  <2>3. /\ x \in Vars /\ (x = w \/ x \notin Own(fd))
        /\ adr[x] = Place(slots, l, w) /\ adr[x] \in 1 .. Len(slots)
        /\ slots[adr[x]].value = Literal(store[Env[w]]) /\ adr[w] \in 1 .. Len(slots)
    BY <2>2, InScopeFacts DEF l
  <2>4. x # v BY <1>8, <2>2, <2>3
  <2>5. adr'[w] = adr[w] /\ adr'[x] = adr[x] BY <1>12, <2>1, <2>2, <2>3, <2>4
  <2>6. Behind(slots', k, w) = x BY <1>1, <1>11, <1>13, <2>5 DEF Behind
  <2> HIDE DEF x
  <2>7. Place(slots', k, w) = adr[x] BY <1>13, <2>5, <2>6 DEF Place
  <2> QED BY <1>11, <2>2, <2>3, <2>5, <2>6, <2>7 DEF x
<1>18. ReadOK(slots', store', k, E2) BY <1>3, <1>13, <1>17 DEF ReadOK
<1>19. Apart(slots', k, E2)
  <2> SUFFICES ASSUME NEW w \in Own(fd), NEW x \in Own(fd), E2[w] # 0, E2[x] # 0
               PROVE  Place(slots', k, w) = Place(slots', k, x) <=> E2[w] = E2[x]
    BY <1>13 DEF Apart
  <2>1. Env[w] # 0 /\ Env[x] # 0 BY <1>17
  <2>2. Place(slots, l, w) = Place(slots, l, x) <=> Env[w] = Env[x]
    BY <1>1, <2>1, Separated DEF Apart, l
  <2> QED BY <1>17, <2>2
<1>20. ApartBelow(Levels, envs, slots, slots', k, E2)
  <2> SUFFICES ASSUME NEW j \in 1 .. Len(Levels) - 1, NEW w \in Own(Levels[j].fd),
                      NEW x \in Own(fd), envs[j][w] # 0, E2[x] # 0
               PROVE  Place(slots, Levels[j], w) = Place(slots', k, x) <=> envs[j][w] = E2[x]
    BY <1>13 DEF ApartBelow
  <2>1. Env[x] # 0 BY <1>17
  <2>2. Place(slots, Levels[j], w) = Place(slots, l, x) <=> envs[j][w] = Env[x]
    BY <1>1, <2>1, Separated DEF ApartBelow, l
  <2> QED BY <1>17, <2>2
<1>21. StackOK(Append(Front(Levels), k), Append(Front(envs), E2), slots', store')
  <2>1. StackOK(Levels, envs, slots, store) BY DEF IInv
  <2>2. SameSlots(slots, slots', k.fp) BY <1>11 DEF SameSlots
  <2>3. Grown(store, store') /\ Located(E2, store') BY <1>1, <1>3, <1>16 DEF Grown
  <2>4. LevelOK(slots', k, Below(Levels, Len(Levels)), Len(slots')) BY <1>1, <1>15 DEF below
  <2>5. k.fp = Levels[Len(Levels)].fp /\ k.fd = Levels[Len(Levels)].fd BY <1>1, <1>13
  <2>6. slots' \in Seq(SlotSet) /\ store' \in Seq(Nat) BY <1>1, <1>3, <1>11
  <2> QED BY <1>13, <1>16, <1>18, <1>19, <1>20, <2>1, <2>2, <2>3, <2>4, <2>5, <2>6, TopChanged
<1>22. Levels' = Append(Front(Levels), k) /\ envs' = Append(Front(envs), E2)
  BY <1>1, <1>3 DEF Levels, k, E2
<1> QED BY <1>1, <1>3, <1>13, <1>21, <1>22 DEF IInv, k

(* A variable is assigned to: all that share its location change with it.    *)
LEMMA AssignStep ==
  ASSUME IInv, NEW v \in Vars, Assign(v)
  PROVE  IInv'
<1> DEFINE n == Len(store) + 1
           e == Literal(n)
           x == Lvalue(v)
           p == adr[x]
           m == SetValue(Now, x, e)
           st == [store EXCEPT ![Env[v]] = n]
<1>1. /\ Depth \in Nat \ {0} /\ Levels \in Seq(LevelSet) /\ Len(Levels) = Depth
      /\ Levels[Depth] = TopLevel
      /\ adr \in [Vars -> Nat] /\ slots \in Seq(SlotSet) /\ store \in Seq(Nat)
      /\ envs \in Seq([Vars -> Nat]) /\ Len(envs) = Depth /\ Env = envs[Depth]
      /\ Now.adr = adr /\ Now.slots = slots /\ Now = Mem(Now.adr, Now.slots) /\ MemOK(Now)
      /\ TopLevel.fd = fd
      /\ Len(slots) \in Nat /\ Len(store) \in Nat
  BY TopFacts
<1>2. /\ ~aborted /\ v \in Own(fd) /\ Env[v] # 0 /\ adr' = m.adr /\ slots' = m.slots
      /\ store' = Append(st, n) /\ envs' = envs /\ frames' = frames /\ fp' = fp
      /\ fd' = fd /\ open' = open /\ ~aborted'
  BY DEF Assign, Assignable, InScope, Remember
<1>3. /\ x \in Vars /\ p \in 1 .. Len(slots) /\ p = Place(slots, TopLevel, v)
      /\ Env[v] \in 1 .. Len(store) /\ store[Env[v]] \in Nat
      /\ slots[p].value = Literal(store[Env[v]])
  BY <1>2, InScopeFacts
<1>4. n \in Nat /\ e \in Values /\ e.kind = "literal" /\ slots[p].value.kind = "literal"
  <2>1. n \in Nat BY <1>1
  <2> HIDE DEF n
  <2>2. e \in Values /\ e.kind = "literal" BY <2>1, ValueFacts
  <2>3. Literal(store[Env[v]]).kind = "literal" BY <1>3, ValueFacts
  <2> QED BY <1>3, <2>1, <2>2, <2>3
<1> HIDE DEF x, e, n
<1>5. /\ adr' = adr /\ slots' \in Seq(SlotSet) /\ Len(slots') = Len(slots)
      /\ \A i \in 1 .. Len(slots) :
           /\ slots'[i].var = slots[i].var /\ slots'[i].saved = slots[i].saved
           /\ i # p => slots'[i].value = slots[i].value
      /\ slots'[p].value = e
  <2>1. Now.adr[x] # 0 /\ Now.adr[x] = p BY <1>1, <1>3
  <2> HIDE DEF m
  <2>2. m = SetValue(Now, x, e) BY DEF m
  <2>3. /\ m.adr = Now.adr /\ m.slots \in Seq(SlotSet) /\ Len(m.slots) = Len(Now.slots)
        /\ \A i \in 1 .. Len(Now.slots) :
             /\ m.slots[i].var = Now.slots[i].var /\ m.slots[i].saved = Now.slots[i].saved
             /\ i # Now.adr[x] => m.slots[i].value = Now.slots[i].value
        /\ m.slots[Now.adr[x]].value = e
    <3>1. MemOK(Now) /\ Now = Mem(Now.adr, Now.slots) /\ x \in Vars /\ e \in Values
      BY <1>1, <1>3, <1>4
    <3> QED BY <2>1, <2>2, <3>1, SetValueIs
  <2> QED BY <1>1, <1>2, <2>1, <2>3
<1> HIDE DEF p, m
<1>6. /\ store' \in Seq(Nat) /\ Len(store') = Len(store) + 1
      /\ store'[Env[v]] = n
      /\ \A i \in 1 .. Len(store) : i # Env[v] => store'[i] = store[i]
  <2>1. /\ st \in Seq(Nat) /\ Len(st) = Len(store)
        /\ \A i \in 1 .. Len(store) : st[i] = IF i = Env[v] THEN n ELSE store[i]
    <3>1. store \in Seq(Nat) /\ Env[v] \in 1 .. Len(store) /\ n \in Nat BY <1>1, <1>3, <1>4
    <3> QED BY <3>1, ExceptSeq
  <2> HIDE DEF st
  <2>2. /\ store' \in Seq(Nat) /\ Len(store') = Len(st) + 1
        /\ \A i \in 1 .. Len(st) : store'[i] = st[i]
    BY <1>2, <1>4, <2>1, SequenceAppend
  <2> QED BY <1>3, <2>1, <2>2
<1>7. TopLevel' = TopLevel /\ Levels' = Levels BY <1>2, <1>5 DEF TopLevel, Levels
<1>8. StackOK(Levels, envs, slots, store) BY DEF IInv
<1>9. ASSUME NEW k \in 1 .. Len(Levels), NEW w \in Own(Levels[k].fd), envs[k][w] # 0
      PROVE  /\ Behind(slots', Levels[k], w) = Behind(slots, Levels[k], w)
             /\ Place(slots', Levels[k], w) = Place(slots, Levels[k], w)
             /\ Levels[k].adr[w] # 0
             /\ Behind(slots, Levels[k], w) = w
                  \/ Behind(slots, Levels[k], w) \in Vars \ Own(Levels[k].fd)
             /\ Place(slots, Levels[k], w) # 0
             /\ slots'[Place(slots, Levels[k], w)].value = Literal(store'[envs[k][w]])
  <2> DEFINE l == Levels[k]
             q == Place(slots, l, w)
  <2>1. /\ l.adr \in [Vars -> Nat] /\ w \in Vars /\ envs[k] \in [Vars -> Nat]
        /\ TopOf(Levels, slots, k) \in Nat /\ TopOf(Levels, slots, k) <= Len(slots)
        /\ l.adr[w] <= TopOf(Levels, slots, k)
        /\ q \in 1 .. TopOf(Levels, slots, k)
    BY <1>8, <1>9, StackFacts
  <2>2. ReadOK(slots, store, l, envs[k]) /\ envs[k][w] <= Len(store)
    BY <1>8, <2>1 DEF StackOK
  <2>3. /\ l.adr[w] # 0
        /\ Behind(slots, l, w) = w \/ Behind(slots, l, w) \in Vars \ Own(l.fd)
        /\ slots[q].value = Literal(store[envs[k][w]])
    BY <1>9, <2>2 DEF ReadOK
  <2>4. l.adr[w] \in 1 .. Len(slots) /\ q \in 1 .. Len(slots) /\ q # 0
        /\ envs[k][w] \in 1 .. Len(store)
    <3>1. l.adr[w] \in Nat /\ l.adr[w] <= Len(slots) BY <1>1, <2>1, SMTT(30)
    <3>2. q \in Nat \ {0} /\ q <= Len(slots) BY <1>1, <2>1, SMTT(30)
    <3>3. envs[k][w] \in Nat /\ envs[k][w] # 0 BY <1>9, <2>1
    <3>4. l.adr[w] \in 1 .. Len(slots)
      <4>1. \A a, b \in Nat : a # 0 /\ a <= b => a \in 1 .. b OBVIOUS
      <4>2. l.adr[w] # 0 BY <2>3
      <4>3. Len(slots) \in Nat BY <1>1
      <4> QED BY <3>1, <4>1, <4>2, <4>3
    <3>5. q \in 1 .. Len(slots) /\ q # 0 BY <1>1, <3>2
    <3>6. envs[k][w] \in 1 .. Len(store) BY <1>1, <2>2, <3>3
    <3> QED BY <3>4, <3>5, <3>6
  <2>5. Behind(slots', l, w) = Behind(slots, l, w)
    <3>1. CASE l.adr[w] = p BY <1>4, <1>5, <3>1 DEF Behind
    <3>2. CASE l.adr[w] # p
      <4>1. slots'[l.adr[w]].value = slots[l.adr[w]].value BY <1>5, <2>4, <3>2
      <4> QED BY <4>1 DEF Behind
    <3> QED BY <3>1, <3>2
  <2>6. Place(slots', l, w) = q BY <2>5 DEF Place
  <2>7. q = p <=> envs[k][w] = Env[v]
    <3>1. Depth \in 1 .. Len(Levels) /\ v \in Own(Levels[Depth].fd) /\ envs[Depth][v] # 0
      BY <1>1, <1>2
    <3>2. Separate(Levels, envs, slots) BY <1>8 DEF StackOK
    <3>3. Place(slots, Levels[k], w) = Place(slots, Levels[Depth], v) <=> envs[k][w] = envs[Depth][v]
      BY <1>9, <3>1, <3>2 DEF Separate
    <3> QED BY <1>1, <1>3, <3>3
  <2> HIDE DEF q
  <2>8. slots'[q].value = Literal(store'[envs[k][w]])
    <3>1. CASE q = p BY <1>5, <1>6, <2>7, <3>1 DEF e
    <3>2. CASE q # p BY <1>5, <1>6, <2>3, <2>4, <2>7, <3>2
    <3> QED BY <3>1, <3>2
  <2> QED BY <2>3, <2>4, <2>5, <2>6, <2>8 DEF q
<1>10. ASSUME NEW k \in 1 .. Len(Levels)
       PROVE  /\ LevelOK(slots', Levels[k], Below(Levels, k), TopOf(Levels, slots', k))
              /\ ReadOK(slots', store', Levels[k], envs[k])
              /\ \A w \in Vars : envs[k][w] <= Len(store')
  <2>1. /\ TopOf(Levels, slots, k) \in Nat /\ TopOf(Levels, slots, k) <= Len(slots)
        /\ Levels[k] \in LevelSet /\ envs[k] \in [Vars -> Nat]
    BY <1>8, StackFacts
  <2>2. TopOf(Levels, slots', k) = TopOf(Levels, slots, k) BY <1>5 DEF TopOf
  <2>3. LevelOK(slots, Levels[k], Below(Levels, k), TopOf(Levels, slots, k)) BY <1>8 DEF StackOK
  <2>4. \A i \in 1 .. TopOf(Levels, slots, k) :
          slots'[i].var = slots[i].var /\ slots'[i].saved = slots[i].saved
    BY <1>1, <1>5, <2>1
  <2>5. LevelOK(slots', Levels[k], Below(Levels, k), TopOf(Levels, slots, k))
    BY <2>1, <2>3, <2>4, LevelKept
  <2>6. ReadOK(slots', store', Levels[k], envs[k]) BY <1>9 DEF ReadOK
  <2>7. \A w \in Vars : envs[k][w] <= Len(store) BY <1>8 DEF StackOK
  <2>8. \A w \in Vars : envs[k][w] <= Len(store') BY <1>1, <1>6, <2>1, <2>7
  <2> QED BY <2>2, <2>5, <2>6, <2>8
<1>11. Separate(Levels, envs, slots')
  <2>1. Separate(Levels, envs, slots) BY <1>8 DEF StackOK
  <2> QED BY <1>9, <2>1 DEF Separate
<1>12. StackOK(Levels, envs, slots', store')
  BY <1>5, <1>6, <1>8, <1>10, <1>11 DEF StackOK
<1>13. frames' \in Seq(LevelSet) /\ TopLevel' \in LevelSet BY <1>2, <1>7 DEF IInv
<1> QED BY <1>2, <1>7, <1>12, <1>13 DEF IInv

(* popAll gives every variable the address of the level below.               *)
LEMMA PopAllRestores ==
  ASSUME IInv
  PROVE  /\ PopAll(Now, fp).adr = Below(Levels, Depth)
         /\ PopAll(Now, fp).slots = SubSeq(slots, 1, fp)
<1> DEFINE below == Below(Levels, Depth)
           Of(v) == {i \in fp + 1 .. Len(slots) : slots[i].var = v}
           Highest(v) == CHOOSE i \in Of(v) : \A k \in Of(v) : k <= i
           a == [v \in Vars |-> IF Of(v) = {} THEN adr[v] ELSE slots[Highest(v)].saved]
<1>1. /\ Now.adr = adr /\ Now.slots = slots /\ fp \in Nat /\ Len(slots) \in Nat
      /\ LevelOK(slots, TopLevel, below, Len(slots))
      /\ TopLevel.fp = fp /\ TopLevel.fd = fd /\ TopLevel.adr = adr
  BY TopFacts
<1>2. PopAll(Now, fp) = Mem(a, SubSeq(slots, 1, fp)) BY <1>1 DEF PopAll
<1> HIDE DEF a
<1>3. PopAll(Now, fp).adr = a /\ PopAll(Now, fp).slots = SubSeq(slots, 1, fp)
  <2>1. \A x, y : Mem(x, y).adr = x /\ Mem(x, y).slots = y BY DEF Mem
  <2> QED BY <1>2, <2>1, Zenon
<1> USE DEF a
<1>4. below \in [Vars -> Nat] BY BelowFacts
<1> HIDE DEF below
<1>5. ASSUME NEW v \in Vars PROVE a[v] = below[v]
  <2>1. CASE Of(v) = {}
    <3>1. \A i \in fp + 1 .. Len(slots) : slots[i].var # v BY <2>1
    <3>2. adr[v] = below[v] BY <1>1, <3>1 DEF LevelOK
    <3> QED BY <2>1, <3>2
  <2>2. CASE Of(v) # {}
    <3> DEFINE T == {Len(slots) - i : i \in Of(v)}
    <3>1. T \in SUBSET Nat /\ T # {} BY <1>1, <2>2
    <3>2. PICK t \in T : \A u \in T : t <= u BY <3>1, LeastElement
    <3>3. PICK i \in Of(v) : t = Len(slots) - i BY <3>2
    <3>4. \A k \in Of(v) : k <= i
      <4> SUFFICES ASSUME NEW k \in Of(v) PROVE k <= i OBVIOUS
      <4>1. Len(slots) - k \in T OBVIOUS
      <4>2. Len(slots) - i <= Len(slots) - k BY <3>2, <3>3, <4>1
      <4>3. i \in Nat /\ k \in Nat BY <1>1
      <4> QED BY <1>1, <4>2, <4>3
    <3> HIDE DEF Of
    <3>5. Highest(v) \in Of(v) BY <3>4
    <3>6. a[v] = slots[Highest(v)].saved BY <2>2
    <3> HIDE DEF Highest, a
    <3>7. Highest(v) \in fp + 1 .. Len(slots) /\ slots[Highest(v)].var = v BY <3>5 DEF Of
    <3>8. slots[Highest(v)].saved = below[slots[Highest(v)].var] BY <1>1, <3>7 DEF LevelOK
    <3> QED BY <3>6, <3>7, <3>8
  <2> QED BY <2>1, <2>2
<1>6. a = below BY <1>4, <1>5
<1> QED BY <1>3, <1>6 DEF below

(* The frame at the top goes. *)
LEMMA DropLevel ==
  ASSUME IInv, frames # <<>>
  PROVE  StackOK(frames, Front(envs), SubSeq(slots, 1, fp), store)
<1> DEFINE t == SubSeq(slots, 1, fp)
           F == Front(envs)
           n == Len(frames)
<1>1. /\ Len(Levels) = Depth /\ Levels[Depth] = TopLevel /\ TopLevel.fp = fp /\ fp \in Nat
      /\ slots \in Seq(SlotSet) /\ store \in Seq(Nat) /\ envs \in Seq([Vars -> Nat])
      /\ envs # <<>> /\ Len(envs) = Depth /\ Len(slots) \in Nat /\ Len(store) \in Nat
      /\ fp <= Len(slots)
  BY TopFacts DEF LevelOK
<1>2. frames \in Seq(LevelSet) /\ TopLevel \in LevelSet /\ StackOK(Levels, envs, slots, store)
  BY DEF IInv
<1>3. n \in Nat \ {0} /\ Depth = n + 1
  BY <1>2, EmptySeq DEF Depth
<1>4. \A k \in 1 .. n : Levels[k] = frames[k] BY <1>2, SequenceAppend DEF Levels
<1>5. F \in Seq([Vars -> Nat]) /\ Len(F) = n /\ \A k \in 1 .. n : F[k] = envs[k]
  <2>1. /\ F \in Seq([Vars -> Nat]) /\ Len(F) = Len(envs) - 1
        /\ \A k \in 1 .. Len(envs) - 1 : F[k] = envs[k]
    BY <1>1, SequenceFront
  <2> QED BY <1>1, <1>3, <2>1
<1>6. t \in Seq(SlotSet) /\ Len(t) = fp /\ \A i \in 1 .. fp : t[i] = slots[i]
  BY <1>1, Prefix
<1> HIDE DEF t, F, n
<1>7. \A k \in 1 .. n : k \in 1 .. Len(Levels) /\ k # Len(Levels) BY <1>1, <1>3
<1>8. ASSUME NEW k \in 1 .. n
      PROVE  /\ LevelOK(t, frames[k], Below(frames, k), TopOf(frames, t, k))
             /\ ReadOK(t, store, frames[k], F[k]) /\ SamePlaces(slots, t, frames[k], F[k])
             /\ \A v \in Vars : F[k][v] <= Len(store)
  <2> DEFINE l == Levels[k]
             top == TopOf(Levels, slots, k)
  <2>1. l = frames[k] /\ F[k] = envs[k] /\ k \in 1 .. Len(Levels) /\ k # Len(Levels)
    BY <1>4, <1>5, <1>7
  <2>2. /\ l \in LevelSet /\ top \in Nat /\ top <= fp /\ Reach(l, top)
    BY <1>1, <1>2, <2>1, StackFacts DEF Reach
  <2>3. /\ LevelOK(slots, l, Below(Levels, k), top) /\ ReadOK(slots, store, l, envs[k])
        /\ \A v \in Vars : envs[k][v] <= Len(store)
    BY <1>2, <2>1 DEF StackOK
  <2>4. Below(Levels, k) = Below(frames, k)
    <3>1. k # 1 => k - 1 \in 1 .. n BY <1>3
    <3> QED BY <1>4, <3>1 DEF Below
  <2>5. top = TopOf(frames, t, k)
    <3>1. top = Levels[k + 1].fp BY <2>1 DEF TopOf
    <3>2. CASE k = n BY <1>1, <1>3, <1>6, <3>1, <3>2 DEF TopOf, n
    <3>3. CASE k # n
      <4>1. k + 1 \in 1 .. n BY <1>3, <3>3
      <4> QED BY <1>4, <3>1, <3>3, <4>1 DEF TopOf, n
    <3> QED BY <3>2, <3>3
  <2>6. \A i \in 1 .. top : t[i] = slots[i]
    <3>1. \A i \in 1 .. top : i \in 1 .. fp BY <1>1, <2>2
    <3> QED BY <1>6, <3>1
  <2> HIDE DEF l, top
  <2>7. LevelOK(t, l, Below(Levels, k), top)
    <3>1. \A i \in 1 .. top : t[i].var = slots[i].var /\ t[i].saved = slots[i].saved BY <2>6
    <3> QED BY <2>2, <2>3, <3>1, LevelKept
  <2>8. ReadOK(t, store, l, envs[k]) /\ SamePlaces(slots, t, l, envs[k])
    <3>1. SameValues(slots, t, top) BY <2>6 DEF SameValues
    <3>2. SameStore(store, store, l, envs[k]) BY DEF SameStore
    <3> QED BY <2>2, <2>3, <3>1, <3>2, ReadKept
  <2> QED BY <2>1, <2>3, <2>4, <2>5, <2>7, <2>8
<1>9. \A j, k \in 1 .. n : j <= k => frames[j].fp <= frames[k].fp
  BY <1>2, <1>4, <1>7 DEF StackOK
<1>10. Separate(frames, F, t)
  <2>1. Separate(Levels, envs, slots) BY <1>2 DEF StackOK
  <2> SUFFICES ASSUME NEW j \in 1 .. n, NEW k \in 1 .. n, NEW v \in Own(frames[j].fd),
                      NEW w \in Own(frames[k].fd), F[j][v] # 0, F[k][w] # 0
               PROVE  Place(t, frames[j], v) = Place(t, frames[k], w) <=> F[j][v] = F[k][w]
    BY DEF Separate, n
  <2>2. Place(slots, Levels[j], v) = Place(slots, Levels[k], w) <=> envs[j][v] = envs[k][w]
    BY <1>4, <1>5, <1>7, <2>1 DEF Separate
  <2>3. /\ Place(t, frames[j], v) = Place(slots, frames[j], v)
        /\ Place(t, frames[k], w) = Place(slots, frames[k], w)
    BY <1>8 DEF SamePlaces
  <2> QED BY <1>4, <1>5, <2>2, <2>3
<1> QED BY <1>1, <1>2, <1>5, <1>6, <1>8, <1>9, <1>10 DEF StackOK, n, t, F

(* A call ends, and every address is the one from before it.                 *)
LEMMA ReturnStep ==
  ASSUME IInv, Return
  PROVE  IInv' /\ adr' = Last(frames).adr
<1>1. /\ ~aborted' /\ frames # <<>> /\ Remember(PopAll(Now, fp))
      /\ fp' = Last(frames).fp /\ fd' = Last(frames).fd /\ open' = Last(frames).open
      /\ frames' = Front(frames) /\ envs' = Front(envs) /\ store' = store
  BY DEF Return
<1>2. frames \in Seq(LevelSet) BY DEF IInv
<1>3. /\ Front(frames) \in Seq(LevelSet) /\ Last(frames) \in LevelSet
      /\ Last(frames) = frames[Len(frames)]
      /\ Append(Front(frames), Last(frames)) = frames
      /\ Len(frames) \in Nat \ {0}
  BY <1>1, <1>2, SequenceFront
<1>4. Below(Levels, Depth) = Last(frames).adr
  <2>1. Depth # 1 /\ Depth - 1 = Len(frames) BY <1>3 DEF Depth
  <2>2. Len(frames) \in 1 .. Len(frames) BY <1>3
  <2>3. TopLevel \in LevelSet BY DEF IInv
  <2>4. Levels[Len(frames)] = frames[Len(frames)] BY <1>2, <2>2, <2>3, SequenceAppend DEF Levels
  <2> QED BY <1>3, <2>1, <2>4 DEF Below
<1>5. adr' = Last(frames).adr /\ slots' = SubSeq(slots, 1, fp)
  BY <1>1, <1>4, PopAllRestores DEF Remember
<1>6. TopLevel' = Last(frames)
  <2>1. \A l \in LevelSet : l = [fp |-> l.fp, fd |-> l.fd, open |-> l.open, adr |-> l.adr]
    BY DEF LevelSet
  <2> QED BY <1>1, <1>3, <1>5, <2>1 DEF TopLevel
<1>7. Levels' = frames BY <1>1, <1>3, <1>6 DEF Levels
<1>8. StackOK(Levels', envs', slots', store') BY <1>1, <1>5, <1>7, DropLevel
<1> QED BY <1>1, <1>3, <1>5, <1>6, <1>8 DEF IInv

(* A frame is added, whose variables stand for variables of the frame below. *)
Taken(L, E, s, t, l, e) ==
    \A v \in Own(l.fd) : e[v] # 0 =>
        \E w \in Own(L[Len(L)].fd) :
            /\ E[Len(L)][w] # 0 /\ e[v] = E[Len(L)][w]
            /\ Place(t, l, v) = Place(s, L[Len(L)], w)

LEMMA LevelAdded ==
  ASSUME NEW L, NEW E, NEW s, NEW st, StackOK(L, E, s, st),
         NEW l2 \in LevelSet, l2.fp = Len(s),
         NEW e2 \in [Vars -> Nat], NEW s2 \in Seq(SlotSet),
         Located(e2, st), SameSlots(s, s2, Len(s)),
         LevelOK(s2, l2, L[Len(L)].adr, Len(s2)), ReadOK(s2, st, l2, e2),
         Taken(L, E, s, s2, l2, e2)
  PROVE  StackOK(Append(L, l2), Append(E, e2), s2, st)
<1> DEFINE n == Len(L)
           M == Append(L, l2)
           F == Append(E, e2)
<1>1. /\ L \in Seq(LevelSet) /\ E \in Seq([Vars -> Nat]) /\ Len(E) = n
      /\ s \in Seq(SlotSet) /\ st \in Seq(Nat)
  BY DEF StackOK
<1>2. n \in Nat \ {0} /\ Len(s) \in Nat /\ n \in 1 .. n
  <2>1. n \in Nat \ {0} /\ Len(s) \in Nat BY StackFacts
  <2> QED BY <2>1
<1>3. /\ M \in Seq(LevelSet) /\ M # <<>> /\ Len(M) = n + 1
      /\ \A k \in 1 .. n : M[k] = L[k]
      /\ M[n + 1] = l2
  BY <1>1, SequenceAppend, SMTT(30)
<1>4. /\ F \in Seq([Vars -> Nat]) /\ Len(F) = n + 1
      /\ \A k \in 1 .. n : F[k] = E[k]
      /\ F[n + 1] = e2
  <2>1. /\ F \in Seq([Vars -> Nat]) /\ Len(F) = Len(E) + 1
        /\ \A k \in 1 .. Len(E) : F[k] = E[k]
        /\ F[Len(E) + 1] = e2
    BY <1>1, SequenceAppend
  <2> QED BY <1>1, <2>1
<1> HIDE DEF M, F, n
<1>5. /\ n + 1 \in 1 .. n + 1 /\ n + 1 # 1 /\ n + 1 - 1 = n
      /\ \A k \in 1 .. n + 1 : k \in 1 .. n \/ k = n + 1
  BY <1>2
<1>6. \A k \in 1 .. n : /\ k # n + 1 /\ (k # n => k + 1 \in 1 .. n)
                        /\ (k # 1 => k - 1 \in 1 .. n)
  BY <1>2
<1>7. ASSUME NEW k \in 1 .. n
      PROVE  /\ LevelOK(s2, M[k], Below(M, k), TopOf(M, s2, k))
             /\ ReadOK(s2, st, M[k], F[k]) /\ SamePlaces(s, s2, M[k], F[k])
             /\ \A v \in Vars : F[k][v] <= Len(st)
             /\ M[k].fp <= Len(s)
  <2> DEFINE l == L[k]
             top == TopOf(L, s, k)
  <2>1. l = M[k] /\ F[k] = E[k] BY <1>3, <1>4
  <2>2. /\ l \in LevelSet /\ top \in Nat /\ top <= Len(s) /\ Reach(l, top) /\ l.fp \in Nat
    BY StackFacts DEF Reach, n
  <2>3. /\ LevelOK(s, l, Below(L, k), top) /\ ReadOK(s, st, l, E[k])
        /\ \A v \in Vars : E[k][v] <= Len(st)
    BY DEF StackOK, n
  <2>4. Below(M, k) = Below(L, k) BY <1>3, <1>6 DEF Below
  <2>5. TopOf(M, s2, k) = top
    <3>1. TopOf(M, s2, k) = M[k + 1].fp BY <1>3, <1>6 DEF TopOf
    <3>2. CASE k = n BY <1>3, <3>1, <3>2 DEF TopOf, n
    <3>3. CASE k # n BY <1>3, <1>6, <3>1, <3>3 DEF TopOf, n
    <3> QED BY <3>2, <3>3
  <2>6. \A i \in 1 .. top : i \in 1 .. Len(s) BY <1>2, <2>2
  <2> HIDE DEF l, top
  <2>7. LevelOK(s2, l, Below(L, k), top)
    <3>1. \A i \in 1 .. top : s2[i].var = s[i].var /\ s2[i].saved = s[i].saved
      BY <2>6 DEF SameSlots
    <3> QED BY <2>2, <2>3, <3>1, LevelKept
  <2>8. ReadOK(s2, st, l, E[k]) /\ SamePlaces(s, s2, l, E[k])
    <3>1. SameValues(s, s2, top) BY <2>6 DEF SameSlots, SameValues
    <3>2. SameStore(st, st, l, E[k]) BY DEF SameStore
    <3> QED BY <2>2, <2>3, <3>1, <3>2, ReadKept
  <2>9. l.fp <= Len(s)
    <3>1. l.fp <= top BY <2>3 DEF LevelOK
    <3> QED BY <1>2, <2>2, <3>1
  <2> QED BY <2>1, <2>3, <2>4, <2>5, <2>7, <2>8, <2>9
<1>8. /\ LevelOK(s2, l2, Below(M, n + 1), TopOf(M, s2, n + 1))
      /\ ReadOK(s2, st, M[n + 1], F[n + 1])
      /\ \A v \in Vars : F[n + 1][v] <= Len(st)
  <2>1. Below(M, n + 1) = L[Len(L)].adr BY <1>2, <1>3, <1>5 DEF Below, n
  <2>2. TopOf(M, s2, n + 1) = Len(s2) BY <1>3 DEF TopOf
  <2> QED BY <1>3, <1>4, <2>1, <2>2 DEF Located
<1>9. \A j, k \in 1 .. n + 1 : j <= k => M[j].fp <= M[k].fp
  <2> SUFFICES ASSUME NEW j \in 1 .. n + 1, NEW k \in 1 .. n + 1, j <= k
               PROVE  M[j].fp <= M[k].fp
    OBVIOUS
  <2>1. CASE j \in 1 .. n /\ k \in 1 .. n
    <3>1. L[j].fp <= L[k].fp BY <2>1 DEF StackOK, n
    <3> QED BY <1>3, <2>1, <3>1
  <2>2. CASE j \in 1 .. n /\ k = n + 1 BY <1>3, <1>7, <2>2
  <2>3. CASE j = n + 1 /\ k = n + 1 BY <1>2, <1>3, <2>3
  <2>4. ~(j = n + 1 /\ k \in 1 .. n) BY <1>2
  <2> QED BY <1>5, <2>1, <2>2, <2>3, <2>4
<1>10. Separate(M, F, s2)
  <2>1. Separate(L, E, s) BY DEF StackOK
  <2>2. \A j \in 1 .. n : \A v \in Own(M[j].fd) : F[j][v] # 0 =>
          /\ E[j][v] # 0 /\ v \in Own(L[j].fd) /\ F[j][v] = E[j][v]
          /\ Place(s2, M[j], v) = Place(s, L[j], v)
    BY <1>3, <1>4, <1>7 DEF SamePlaces
  <2>3. \A v \in Own(M[n + 1].fd) : F[n + 1][v] # 0 =>
          \E w \in Own(L[n].fd) : /\ E[n][w] # 0 /\ F[n + 1][v] = E[n][w]
                                  /\ Place(s2, M[n + 1], v) = Place(s, L[n], w)
    BY <1>3, <1>4 DEF Taken, n
  <2>4. ASSUME NEW j \in 1 .. n + 1, NEW v \in Own(M[j].fd), F[j][v] # 0
        PROVE  \E i \in 1 .. n : \E w \in Own(L[i].fd) :
                  /\ E[i][w] # 0 /\ F[j][v] = E[i][w]
                  /\ Place(s2, M[j], v) = Place(s, L[i], w)
    <3>1. CASE j \in 1 .. n BY <2>2, <2>4, <3>1
    <3>2. CASE j = n + 1 BY <1>2, <2>3, <2>4, <3>2
    <3> QED BY <1>5, <3>1, <3>2
  <2> SUFFICES ASSUME NEW j \in 1 .. n + 1, NEW k \in 1 .. n + 1, NEW v \in Own(M[j].fd),
                      NEW w \in Own(M[k].fd), F[j][v] # 0, F[k][w] # 0
               PROVE  Place(s2, M[j], v) = Place(s2, M[k], w) <=> F[j][v] = F[k][w]
    BY <1>3 DEF Separate
  <2>5. PICK i \in 1 .. n : \E x \in Own(L[i].fd) :
          E[i][x] # 0 /\ F[j][v] = E[i][x] /\ Place(s2, M[j], v) = Place(s, L[i], x)
    BY <2>4
  <2>6. PICK x \in Own(L[i].fd) :
          E[i][x] # 0 /\ F[j][v] = E[i][x] /\ Place(s2, M[j], v) = Place(s, L[i], x)
    BY <2>5
  <2>7. PICK h \in 1 .. n : \E y \in Own(L[h].fd) :
          E[h][y] # 0 /\ F[k][w] = E[h][y] /\ Place(s2, M[k], w) = Place(s, L[h], y)
    BY <2>4
  <2>8. PICK y \in Own(L[h].fd) :
          E[h][y] # 0 /\ F[k][w] = E[h][y] /\ Place(s2, M[k], w) = Place(s, L[h], y)
    BY <2>7
  <2>9. Place(s, L[i], x) = Place(s, L[h], y) <=> E[i][x] = E[h][y]
    BY <2>1, <2>6, <2>8 DEF Separate, n
  <2> QED BY <2>6, <2>8, <2>9
<1>11. ASSUME NEW k \in 1 .. n + 1
       PROVE  /\ LevelOK(s2, M[k], Below(M, k), TopOf(M, s2, k))
              /\ ReadOK(s2, st, M[k], F[k])
              /\ \A v \in Vars : F[k][v] <= Len(st)
  <2>1. CASE k \in 1 .. n BY <1>7, <2>1
  <2>2. CASE k = n + 1 BY <1>3, <1>8, <2>2
  <2> QED BY <1>5, <2>1, <2>2
<1> QED BY <1>1, <1>3, <1>4, <1>9, <1>10, <1>11 DEF StackOK, M, F

(* A call begins.                                                            *)
LEMMA CallStep ==
  ASSUME IInv, ~RepeatedArgs, NEW callee \in Funcs,
         NEW args \in [DOMAIN Params[callee] -> Assignable], Call(callee, args)
  PROVE  IInv'
<1> DEFINE P == Params[callee]
           N == Len(P)
           base == Len(slots)
           eargs == [i \in DOMAIN args |-> Lvalue(args[i])]
           mems == BindAll(Now, base, callee, eargs)
           m == mems[N]
           l == TopLevel
           k == TopLevel'
           Loc(v) == CHOOSE i \in DOMAIN args : P[i] = v
           E2 == [v \in Vars |-> IF \E i \in DOMAIN args : P[i] = v THEN Env[args[Loc(v)]] ELSE 0]
<1>1. /\ Depth \in Nat \ {0} /\ Levels \in Seq(LevelSet) /\ Len(Levels) = Depth
      /\ Levels[Depth] = l /\ l \in LevelSet /\ fp \in Nat /\ fd \in Funcs
      /\ adr \in [Vars -> Nat] /\ slots \in Seq(SlotSet) /\ store \in Seq(Nat)
      /\ envs \in Seq([Vars -> Nat]) /\ Len(envs) = Depth
      /\ Env = envs[Depth] /\ Env \in [Vars -> Nat]
      /\ \A w \in Vars : Env[w] <= Len(store)
      /\ Now.adr = adr /\ Now.slots = slots /\ Now = Mem(Now.adr, Now.slots) /\ MemOK(Now)
      /\ l.fd = fd /\ l.adr = adr
      /\ Len(slots) \in Nat /\ Len(store) \in Nat
  BY TopFacts
<1>2. /\ N \in Nat /\ DOMAIN P = 1 .. N /\ DOMAIN args = 1 .. N
      /\ \A i \in 1 .. N : P[i] \in Vars /\ P[i] \in Own(callee) /\ P[i] \in ToSet(P)
      /\ \A i, j \in 1 .. N : P[i] = P[j] => i = j
  BY ParamFacts
<1>3. \A i \in 1 .. N : args[i] \in Own(fd) /\ Env[args[i]] # 0
  BY <1>2 DEF Assignable, InScope
<1>4. Len(args) = N
  <2>1. \A i \in 1 .. N : args[i] \in Vars BY <1>1, <1>3, OwnVars
  <2>2. args = [i \in 1 .. N |-> args[i]] BY <1>2
  <2>3. args \in [1 .. N -> Vars] BY <2>1, <2>2
  <2>4. args \in Seq(Vars) BY <1>2, <2>3, SeqDef
  <2>5. Len(args) \in Nat /\ DOMAIN args = 1 .. Len(args) BY <2>4, LenProperties
  <2> QED BY <1>2, <2>5
<1>5. /\ ~aborted /\ ArgsApart(callee, eargs)
      /\ aborted' = ~(\A i \in DOMAIN args : HasValue(mems[i], P[i]))
      /\ Remember(m) /\ frames' = Levels
      /\ fp' = base /\ fd' = callee /\ open' = <<>> /\ store' = store
      /\ envs' = Append(envs, E2)
  BY <1>4 DEF Call, Levels, TopLevel
<1> HIDE DEF Loc, mems
<1>6. ASSUME NEW i \in 1 .. N
      PROVE  /\ eargs[i] = Lvalue(args[i]) /\ eargs[i] \in Vars
             /\ eargs[i] = args[i] \/ eargs[i] \notin Own(fd)
             /\ adr[eargs[i]] = Place(slots, l, args[i])
             /\ adr[eargs[i]] \in 1 .. base
             /\ slots[adr[eargs[i]]].value = Literal(store[Env[args[i]]])
             /\ store[Env[args[i]]] \in Nat /\ args[i] \in Vars
             /\ Env[args[i]] \in 1 .. Len(store)
  BY <1>2, <1>3, InScopeFacts
<1>7. eargs \in [DOMAIN P -> Vars] BY <1>2, <1>6
<1> HIDE DEF eargs
<1>8. \A i \in 0 .. N : Bound(Now, mems[i], callee, eargs, i)
  <2>1. \A i \in DOMAIN P : Now.adr[eargs[i]] # 0 BY <1>1, <1>2, <1>6
  <2>2. \A i \in 0 .. N :
          Bound(Now, BindAll(Now, Len(Now.slots), callee, eargs)[i], callee, eargs, i)
    BY <1>1, <1>5, <1>7, <2>1, BoundAfter
  <2> QED BY <1>1, <2>2 DEF mems
<1>9. ASSUME NEW i \in 1 .. N, NEW h \in i .. N
      PROVE  /\ eargs[i] \in Own(callee) =>
                  /\ mems[h].adr[P[i]] = adr[eargs[i]]
                  /\ mems[h].slots[adr[eargs[i]]].value = Literal(store[Env[args[i]]])
             /\ eargs[i] \notin Own(callee) =>
                  /\ mems[h].adr[P[i]] \in Nat /\ mems[h].adr[P[i]] > base
                  /\ mems[h].slots[mems[h].adr[P[i]]].value = VarExp(eargs[i])
  <2>1. h \in 0 .. N /\ i \in 1 .. h BY <1>2
  <2>2. Bound(Now, mems[h], callee, eargs, h) BY <1>8, <2>1
  <2>3. IF eargs[i] \in Own(callee)
        THEN mems[h].adr[P[i]] = adr[eargs[i]]
        ELSE /\ mems[h].adr[P[i]] > base
             /\ mems[h].slots[mems[h].adr[P[i]]].value = VarExp(eargs[i])
    BY <1>1, <2>1, <2>2 DEF Bound
  <2>4. mems[h].slots[adr[eargs[i]]].value = slots[adr[eargs[i]]].value
    BY <1>1, <1>6, <2>2 DEF Bound
  <2>5. mems[h].adr[P[i]] \in Nat BY <1>2, <2>2 DEF Bound, MemOK
  <2> QED BY <1>6, <2>3, <2>4, <2>5
<1>10. ~aborted'
  <2> SUFFICES ASSUME NEW i \in 1 .. N PROVE HasValue(mems[i], P[i]) BY <1>2, <1>5
  <2>1. i \in i .. N BY <1>2
  <2>2. CASE eargs[i] \in Own(callee)
    <3>1. /\ mems[i].adr[P[i]] = adr[eargs[i]]
          /\ mems[i].slots[adr[eargs[i]]].value = Literal(store[Env[args[i]]])
      BY <1>9, <2>1, <2>2
    <3>2. adr[eargs[i]] # 0 BY <1>6
    <3> QED BY <3>1, <3>2, ValueFacts DEF HasValue, GetValue
  <2>3. CASE eargs[i] \notin Own(callee)
    <3>1. /\ mems[i].adr[P[i]] \in Nat /\ mems[i].adr[P[i]] > base
          /\ mems[i].slots[mems[i].adr[P[i]]].value = VarExp(eargs[i])
      BY <1>9, <2>1, <2>3
    <3>2. mems[i].adr[P[i]] # 0 BY <1>1, <3>1
    <3> QED BY <3>1, <3>2, ValueFacts DEF HasValue, GetValue
  <2> QED BY <2>2, <2>3
<1>11. /\ adr' = m.adr /\ slots' = m.slots /\ adr' \in [Vars -> Nat]
       /\ slots' \in Seq(SlotSet) /\ Bound(Now, m, callee, eargs, N)
  <2>1. Bound(Now, m, callee, eargs, N) BY <1>2, <1>8
  <2> QED BY <1>5, <2>1 DEF Remember, Bound, MemOK
<1>12. k = Entry(Now, m, callee) BY <1>1, <1>5, <1>11 DEF TopLevel, Entry
<1>13. /\ k \in LevelSet /\ k.fp = base /\ k.fd = callee /\ k.adr = adr'
  <2>1. <<>> \in Seq(Vars) BY EmptySeq
  <2> QED BY <1>1, <1>11, <1>12, <2>1 DEF Entry, LevelSet
<1>14. /\ LevelOK(slots', k, adr, Len(slots'))
       /\ \A i \in 1 .. base :
            /\ slots'[i].var = slots[i].var /\ slots'[i].saved = slots[i].saved
            /\ slots'[i].value = slots[i].value
  BY <1>1, <1>11, <1>12 DEF Bound
<1> HIDE DEF m, k, l
<1>15. \A i \in 1 .. N : E2[P[i]] = Env[args[i]]
  <2> SUFFICES ASSUME NEW i \in 1 .. N PROVE E2[P[i]] = Env[args[i]] OBVIOUS
  <2>1. Loc(P[i]) = i BY <1>2 DEF Loc
  <2> QED BY <1>2, <2>1
<1>16. /\ \A v \in Vars : E2[v] # 0 => \E i \in 1 .. N : v = P[i]
       /\ \A v \in Vars : (\E i \in 1 .. N : v = P[i]) \/ E2[v] = 0
       /\ DOMAIN E2 = Vars
  BY <1>2
<1> HIDE DEF E2
<1>17. \A v \in Vars : E2[v] \in Nat /\ E2[v] <= Len(store)
  <2> SUFFICES ASSUME NEW v \in Vars PROVE E2[v] \in Nat /\ E2[v] <= Len(store) OBVIOUS
  <2>1. CASE E2[v] = 0 BY <1>1, <2>1
  <2>2. CASE E2[v] # 0
    <3>1. PICK i \in 1 .. N : v = P[i] BY <1>16, <2>2
    <3>2. E2[v] = Env[args[i]] BY <1>15, <3>1
    <3> QED BY <1>1, <1>6, <3>2
  <2> QED BY <2>1, <2>2
<1>18. E2 \in [Vars -> Nat]
  <2>1. E2 = [v \in Vars |-> E2[v]] BY DEF E2
  <2> QED BY <1>17, <2>1
<1>19. ASSUME NEW v \in Own(callee), E2[v] # 0
       PROVE  \E w \in Own(fd) :
                 /\ Env[w] # 0 /\ E2[v] = Env[w]
                 /\ Place(slots', k, v) = Place(slots, l, w)
                 /\ adr'[v] # 0
                 /\ Behind(slots', k, v) = v \/ Behind(slots', k, v) \in Vars \ Own(callee)
                 /\ Place(slots', k, v) # 0
                 /\ slots'[Place(slots', k, v)].value = Literal(store[E2[v]])
  <2>1. v \in Vars BY <1>19, OwnVars
  <2>2. PICK i \in 1 .. N : v = P[i] BY <1>16, <1>19, <2>1
  <2> DEFINE vx == eargs[i]
             w == args[i]
  <2>3. w \in Own(fd) /\ Env[w] # 0 /\ E2[v] = Env[w] BY <1>3, <1>15, <2>2
  <2>4. /\ vx \in Vars /\ adr[vx] = Place(slots, l, w) /\ adr[vx] \in 1 .. base
        /\ slots[adr[vx]].value = Literal(store[Env[w]]) /\ store[Env[w]] \in Nat
    BY <1>6
  <2>5. N \in i .. N BY <1>2
  <2>6. slots'[adr[vx]].value = Literal(store[Env[w]]) BY <1>14, <2>4
  <2>7. CASE vx \in Own(callee)
    <3>1. adr'[v] = adr[vx] BY <1>9, <1>11, <2>2, <2>5, <2>7 DEF m
    <3>2. slots'[adr'[v]].value.kind # "var" BY <2>4, <2>6, <3>1, ValueFacts
    <3>3. Behind(slots', k, v) = v BY <1>13, <3>2 DEF Behind
    <3>4. Place(slots', k, v) = adr[vx] BY <1>13, <3>1, <3>3 DEF Place
    <3>5. adr[vx] # 0 BY <2>4
    <3> HIDE DEF vx, w
    <3> QED BY <2>3, <2>4, <2>6, <3>1, <3>3, <3>4, <3>5
  <2>8. CASE vx \notin Own(callee)
    <3>1. adr'[v] \in Nat /\ adr'[v] > base /\ slots'[adr'[v]].value = VarExp(vx)
      BY <1>9, <1>11, <2>2, <2>5, <2>8 DEF m
    <3>2. slots'[adr'[v]].value.kind = "var" /\ slots'[adr'[v]].value.var = vx
      BY <2>4, <3>1, ValueFacts
    <3>3. Behind(slots', k, v) = vx BY <1>13, <3>2 DEF Behind
    <3>4. adr'[vx] = adr[vx]
      <4>1. \A j \in 1 .. N : vx # P[j] /\ (vx = eargs[j] => vx \notin Own(callee))
        BY <1>2, <2>8
      <4> QED BY <1>1, <1>11, <2>4, <4>1 DEF Bound
    <3>5. Place(slots', k, v) = adr[vx] BY <1>13, <3>3, <3>4 DEF Place
    <3>6. adr[vx] # 0 /\ adr'[v] # 0 BY <1>1, <2>4, <3>1, SMTT(30)
    <3> HIDE DEF vx, w
    <3> QED BY <2>3, <2>4, <2>6, <2>8, <3>3, <3>5, <3>6
  <2> QED BY <2>7, <2>8
<1>20. ReadOK(slots', store, k, E2) BY <1>13, <1>19 DEF ReadOK
<1>21. Taken(Levels, envs, slots, slots', k, E2) BY <1>1, <1>13, <1>19 DEF Taken
<1>22. StackOK(Append(Levels, k), Append(envs, E2), slots', store)
  <2>1. StackOK(Levels, envs, slots, store) BY DEF IInv
  <2>2. SameSlots(slots, slots', Len(slots)) BY <1>14 DEF SameSlots
  <2>3. Located(E2, store) BY <1>17 DEF Located
  <2>4. LevelOK(slots', k, Levels[Len(Levels)].adr, Len(slots')) BY <1>1, <1>14
  <2> QED BY <1>11, <1>13, <1>18, <1>20, <1>21, <2>1, <2>2, <2>3, <2>4, LevelAdded
<1>23. Levels' = Append(Levels, k) BY <1>5 DEF Levels, k
<1> QED BY <1>1, <1>5, <1>10, <1>13, <1>22, <1>23 DEF IInv, k

(* The invariant holds at first,                                             *)
LEMMA InitStack == Init => IInv
<1> SUFFICES ASSUME Init PROVE IInv OBVIOUS
<1>1. /\ adr = [v \in Vars |-> 0] /\ slots = <<>> /\ fp = 0 /\ frames = <<>> /\ fd = Start
      /\ open = <<>> /\ ~aborted /\ envs = <<NoEnv>> /\ store = <<>>
  BY DEF Init
<1>2. /\ \A S : <<>> \in Seq(S)
      /\ Len(<<>>) = 0 /\ DOMAIN <<>> = {}
  BY EmptySeq
<1>3. Start \in Funcs BY StackAssumption
<1> DEFINE l == TopLevel
<1>4. l.fp = 0 /\ l.fd = Start /\ l.open = <<>> /\ l.adr = [v \in Vars |-> 0] /\ l \in LevelSet
  BY <1>1, <1>2, <1>3 DEF TopLevel, LevelSet
<1> HIDE DEF l
<1>5. /\ Levels \in Seq(LevelSet) /\ Levels # <<>> /\ Len(Levels) = 1 /\ Levels[1] = l
  <2>1. frames \in Seq(LevelSet) /\ Len(frames) = 0 BY <1>1, <1>2
  <2>2. /\ Levels \in Seq(LevelSet) /\ Levels # <<>> /\ Len(Levels) = Len(frames) + 1
        /\ Levels[Len(frames) + 1] = TopLevel
    <3>1. TopLevel \in LevelSet BY <1>4 DEF l
    <3> QED BY <2>1, <3>1, SequenceAppend, ZenonT(40) DEF Levels
  <2>3. Levels[1] = TopLevel BY <2>1, <2>2
  <2> QED BY <2>1, <2>2, <2>3 DEF l
<1>6. envs \in Seq([Vars -> Nat]) /\ Len(envs) = 1 /\ envs[1] = NoEnv
  <2>1. NoEnv \in [Vars -> Nat] BY DEF NoEnv
  <2> QED BY <1>1, <2>1
<1>7. LevelOK(slots, l, Below(Levels, 1), TopOf(Levels, slots, 1))
  <2>1. Below(Levels, 1) = l.adr BY <1>4 DEF Below, NoEnv
  <2>2. TopOf(Levels, slots, 1) = 0 BY <1>1, <1>2, <1>5 DEF TopOf
  <2>3. 0 + 1 .. 0 = {} OBVIOUS
  <2>4. IsInjective(<<>>) BY <1>2 DEF IsInjective
  <2>5. \A v \in Vars : l.adr[v] = 0 BY <1>4
  <2> QED BY <1>2, <1>4, <2>1, <2>2, <2>3, <2>4, <2>5 DEF LevelOK
<1>8. \A v \in Vars : envs[1][v] = 0 BY <1>6 DEF NoEnv
<1>9. \A v \in Own(Start) : envs[1][v] = 0 BY <1>3, <1>8, OwnVars
<1>10. ReadOK(slots, store, l, envs[1]) BY <1>4, <1>9 DEF ReadOK
<1>11. \A k \in 1 .. Len(Levels) : k = 1 BY <1>5
<1>12. Separate(Levels, envs, slots) BY <1>4, <1>5, <1>9, <1>11 DEF Separate
<1>13. slots \in Seq(SlotSet) /\ store \in Seq(Nat) /\ Len(store) = 0 BY <1>1, <1>2
<1>14. \A j, k \in 1 .. Len(Levels) : j <= k => Levels[j].fp <= Levels[k].fp
  BY <1>4, <1>5, <1>11
<1>15. StackOK(Levels, envs, slots, store)
  BY <1>5, <1>6, <1>7, <1>8, <1>10, <1>11, <1>12, <1>13, <1>14 DEF StackOK
<1> QED BY <1>1, <1>2, <1>4, <1>15 DEF IInv, l

(* and every step keeps it.                                                  *)
LEMMA NextStack ==
  ASSUME IInv, ~RepeatedArgs, [Next]_vars
  PROVE  IInv'
<1>1. ASSUME NEW v \in Vars, Declare(v) PROVE IInv' BY <1>1, DeclareStep
<1>2. ASSUME NEW v \in Vars, PushDollar(v) PROVE IInv' BY <1>2, PushDollarStep
<1>3. ASSUME NEW v \in Vars, Assign(v) PROVE IInv' BY <1>3, AssignStep
<1>4. CASE PopDollar BY <1>4, PopDollarStep
<1>8. CASE Initialize BY <1>8, InitializeStep
<1>5. ASSUME NEW callee \in Funcs, NEW args \in [DOMAIN Params[callee] -> Assignable],
             Call(callee, args)
      PROVE  IInv'
  BY <1>5, CallStep
<1>6. CASE Return BY <1>6, ReturnStep
<1>7. CASE UNCHANGED vars
  <2>1. /\ frames' = frames /\ aborted' = aborted /\ TopLevel' = TopLevel /\ Levels' = Levels
        /\ envs' = envs /\ slots' = slots /\ store' = store
    BY <1>7 DEF vars, TopLevel, Levels
  <2> QED BY <2>1 DEF IInv
<1> QED BY <1>1, <1>2, <1>3, <1>4, <1>5, <1>6, <1>7, <1>8 DEF Next

(* The levels are sound in every state (CtfeStack::startFrame to endFrame). *)
THEOREM StackInvariance ==
  ASSUME ~RepeatedArgs
  PROVE  Spec => []IInv
<1>1. Init => IInv BY InitStack
<1>2. IInv /\ [Next]_vars => IInv' BY NextStack
<1> QED BY <1>1, <1>2, PTL DEF Spec

(* Every variable in scope reads what was stored in it, in its own           *)
(* activation and through references (visit(VarExp), CtfeStack::getValue).   *)
THEOREM ReadsAlwaysAgree ==
  ASSUME ~RepeatedArgs
  PROVE  Spec => []ReadsAgree
<1>1. IInv => ReadsAgree BY ReadsAgreeNow
<1> QED BY <1>1, StackInvariance, PTL

(* The assertions on reference parameters at the start of a call hold.       *)
THEOREM AssertionsAlwaysHold ==
  ASSUME ~RepeatedArgs
  PROVE  Spec => []AssertionsHold
<1>1. IInv => AssertionsHold BY DEF IInv, AssertionsHold
<1> QED BY <1>1, StackInvariance, PTL

(* Only the end of a call takes a frame away. *)
LEMMA RestoredStep ==
  ASSUME IInv, [Next]_vars
  PROVE  [Len(frames') < Len(frames) => adr' = Last(frames).adr]_vars
<1>1. Len(frames) \in Nat /\ ~(Len(frames) < Len(frames)) /\ frames \in Seq(LevelSet)
  BY LenProperties DEF IInv
<1>2. CASE Return BY <1>2, ReturnStep
<1>3. CASE frames' = frames BY <1>1, <1>3
<1>4. ASSUME NEW callee \in Funcs, NEW args, Call(callee, args)
      PROVE  ~(Len(frames') < Len(frames))
  <2>1. frames' = Levels /\ TopLevel \in LevelSet BY <1>4 DEF Call, Levels, TopLevel, IInv
  <2>2. Len(Levels) = Len(frames) + 1 BY <1>1, <2>1, SequenceAppend DEF Levels
  <2> QED BY <1>1, <2>1, <2>2
<1>5. Next => Return \/ frames' = frames
               \/ \E callee \in Funcs : \E args \in [DOMAIN Params[callee] -> Assignable] :
                    Call(callee, args)
  BY DEF Next, Declare, Initialize, PushDollar, Assign, PopDollar
<1>6. CASE UNCHANGED vars BY <1>6
<1> QED BY <1>2, <1>3, <1>4, <1>5, <1>6

(* CtfeStack::endFrame leaves every variable of the program at the           *)
(* address it had when the call began.                                       *)
THEOREM FramesAlwaysRestored ==
  ASSUME ~RepeatedArgs
  PROVE  Spec => FramesRestored
<1>1. IInv /\ [Next]_vars => [Len(frames') < Len(frames) => adr' = Last(frames).adr]_vars
  BY RestoredStep
<1> QED BY <1>1, StackInvariance, PTL DEF Spec, FramesRestored

(* The lowest frame begins under the first slot, so every slot belongs to a  *)
(* frame, and what it saved is an address under that frame.                  *)
Grounded == Levels[1].fp = 0

LEMMA GroundedInit == Init => Grounded
<1> SUFFICES ASSUME Init PROVE Grounded OBVIOUS
<1>1. frames = <<>> /\ fp = 0 BY DEF Init
<1>2. Levels = <<TopLevel>> BY <1>1 DEF Levels
<1> QED BY <1>1, <1>2 DEF Grounded, TopLevel

LEMMA GroundedNext ==
  ASSUME IInv, Grounded, [Next]_vars
  PROVE  Grounded'
<1>1. frames \in Seq(LevelSet) /\ TopLevel \in LevelSet /\ Len(frames) \in Nat
  BY LenProperties DEF IInv
<1>2. /\ Len(Levels) = Len(frames) + 1 /\ Levels \in Seq(LevelSet)
      /\ \A i \in 1 .. Len(frames) : Levels[i] = frames[i]
      /\ Levels[Len(frames) + 1] = TopLevel
  BY <1>1, SequenceAppend DEF Levels
<1>3. CASE frames' = frames /\ fp' = fp
  <2>1. TopLevel'.fp = fp /\ TopLevel.fp = fp BY <1>3 DEF TopLevel
  <2>2. Levels'[1] = IF frames = <<>> THEN TopLevel' ELSE frames[1]
    BY <1>1, <1>3, AppendProperties, EmptySeq DEF Levels
  <2>3. Levels[1] = IF frames = <<>> THEN TopLevel ELSE frames[1]
    BY <1>1, AppendProperties, EmptySeq DEF Levels
  <2> QED BY <2>1, <2>2, <2>3 DEF Grounded
<1>4. CASE frames' = Levels
  <2>1. Levels' = Append(Levels, TopLevel') BY <1>4 DEF Levels
  <2>2. Levels'[1] = Levels[1] BY <1>1, <1>2, <2>1, AppendProperties
  <2> QED BY <2>2 DEF Grounded
<1>5. CASE Return
  <2>1. /\ frames # <<>> /\ frames' = Front(frames) /\ fp' = Last(frames).fp
    BY <1>5 DEF Return
  <2>2. /\ Front(frames) \in Seq(LevelSet) /\ Len(frames) \in Nat \ {0}
        /\ Len(Front(frames)) = Len(frames) - 1
        /\ \A i \in 1 .. Len(frames) - 1 : Front(frames)[i] = frames[i]
        /\ Last(frames) = frames[Len(frames)]
    BY <1>1, <2>1, SequenceFront
  <2>3. Levels' = Append(Front(frames), TopLevel') /\ TopLevel'.fp = frames[Len(frames)].fp
    BY <2>1, <2>2 DEF Levels, TopLevel
  <2>4. Levels'[1] = IF Len(frames) = 1 THEN TopLevel' ELSE frames[1]
    BY <2>2, <2>3, AppendProperties
  <2>5. Levels[1] = frames[1] BY <1>2, <2>2
  <2> QED BY <2>3, <2>4, <2>5 DEF Grounded
<1>6. Next => Return \/ (frames' = frames /\ fp' = fp) \/ frames' = Levels
  BY DEF Next, Declare, Initialize, PushDollar, Assign, PopDollar, Call, Levels, TopLevel
<1>7. UNCHANGED vars => frames' = frames /\ fp' = fp BY DEF vars
<1> QED BY <1>3, <1>4, <1>5, <1>6, <1>7

LEMMA TypeNow == IInv /\ Grounded => TypeOK
<1> SUFFICES ASSUME IInv, Grounded PROVE TypeOK OBVIOUS
<1> DEFINE N == Len(Levels)
<1>1. /\ StackOK(Levels, envs, slots, store) /\ frames \in Seq(LevelSet)
      /\ TopLevel \in LevelSet
  BY DEF IInv
<1>2. /\ N \in Nat \ {0} /\ N = Len(frames) + 1 /\ Levels[N] = TopLevel
      /\ Len(envs) = N /\ Len(slots) \in Nat /\ slots \in Seq(SlotSet)
  BY <1>1, SequenceAppend, LenProperties DEF Levels, StackOK
<1>3. TopLevel.adr = adr /\ TopLevel.fp = fp /\ TopOf(Levels, slots, N) = Len(slots)
  BY DEF TopLevel, TopOf
<1>4. \A v \in Vars : adr[v] <= Len(slots)
  <2>1. N \in 1 .. N BY <1>2
  <2>2. \A v \in Vars : Levels[N].adr[v] <= TopOf(Levels, slots, N) BY <1>1, <2>1, StackFacts
  <2> QED BY <1>2, <1>3, <2>2
<1>5. adr \in [Vars -> Nat] /\ fp \in Nat BY <1>1, <1>3 DEF LevelSet
<1>6. adr \in [Vars -> 0 .. Len(slots)] BY <1>2, <1>4, <1>5
<1>7. fp \in 0 .. Len(slots) BY <1>1, <1>2, <1>3, <1>5 DEF StackOK, LevelOK
<1>8. ASSUME NEW i \in DOMAIN slots
      PROVE  slots[i].var \in Vars /\ slots[i].saved \in 0 .. i - 1
  <2> DEFINE K == {k \in 1 .. N : i <= TopOf(Levels, slots, k)}
  <2>1. i \in 1 .. Len(slots) /\ slots[i] \in SlotSet BY <1>2, LenProperties, ElementOfSeq
  <2>2. N \in K BY <1>2, <1>3, <2>1
  <2>3. K \in SUBSET Nat /\ K # {} BY <1>2, <2>2
  <2>4. PICK k \in K : \A m \in K : k <= m BY <2>3, LeastElement
  <2>5. /\ k \in 1 .. N /\ i <= TopOf(Levels, slots, k) /\ Levels[k].fp \in Nat
        /\ TopOf(Levels, slots, k) \in Nat
    BY <1>1, <2>4, StackFacts
  <2>6. i > Levels[k].fp
    <3>1. CASE k = 1 BY <2>1, <3>1 DEF Grounded
    <3>2. CASE k # 1
      <4>1. k - 1 \in 1 .. N /\ k - 1 \notin K BY <1>2, <2>3, <2>4, <2>5, <3>2
      <4>2. TopOf(Levels, slots, k - 1) = Levels[k].fp BY <1>2, <2>5, <3>2 DEF TopOf
      <4> QED BY <2>1, <2>5, <4>1, <4>2
    <3> QED BY <3>1, <3>2
  <2>7. i \in Levels[k].fp + 1 .. TopOf(Levels, slots, k) BY <2>1, <2>5, <2>6
  <2>8. slots[i].saved = Below(Levels, k)[slots[i].var]
    BY <1>1, <2>5, <2>7 DEF StackOK, LevelOK
  <2>9. slots[i].var \in Vars /\ slots[i].saved \in Nat BY <2>1 DEF SlotSet
  <2>10. slots[i].saved <= Levels[k].fp
    <3>1. CASE k = 1 BY <2>5, <2>8, <2>9, <3>1 DEF Below, NoEnv
    <3>2. CASE k # 1
      <4>1. k - 1 \in 1 .. N /\ k - 1 # N BY <1>2, <2>5, <3>2
      <4>2. TopOf(Levels, slots, k - 1) = Levels[k].fp BY <1>2, <2>5, <3>2 DEF TopOf
      <4>3. Levels[k - 1].adr[slots[i].var] <= TopOf(Levels, slots, k - 1)
        BY <1>1, <2>9, <4>1, StackFacts
      <4> QED BY <2>8, <3>2, <4>2, <4>3 DEF Below
    <3> QED BY <3>1, <3>2
  <2> QED BY <2>1, <2>5, <2>6, <2>9, <2>10
<1> QED BY <1>2, <1>6, <1>7, <1>8 DEF TypeOK

(* Addresses are of slots that exist, and a slot has saved the address of a  *)
(* slot under it, one that is left when it goes (CtfeStack::popAll).         *)
THEOREM TypeCorrect ==
  ASSUME ~RepeatedArgs
  PROVE  Spec => []TypeOK
<1>1. Init => IInv /\ Grounded BY InitStack, GroundedInit
<1>2. IInv /\ Grounded /\ [Next]_vars => (IInv /\ Grounded)' BY NextStack, GroundedNext
<1>3. IInv /\ Grounded => TypeOK BY TypeNow
<1> QED BY <1>1, <1>2, <1>3, PTL DEF Spec
=============================================================================
