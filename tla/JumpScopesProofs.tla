-------------------------- MODULE JumpScopesProofs --------------------------
(* JumpScopes for any labels and any bounds: what the checks of jumps report *)
(* and what they let pass.                                                   *)
EXTENDS JumpScopes, TLAPS

(* Binding levels are told apart by their numbers, also those that ended. *)
Numbered ==
    /\ \A i \in DOMAIN scopes :
        /\ scopes[i].id \in 1 .. made
        /\ \A k \in DOMAIN scopes : i # k => scopes[i].id # scopes[k].id
    /\ \A l \in Labels : \A s \in places[l] : s.id <= made
    /\ \A j \in DOMAIN jumps : \A s \in jumps[j].from : s.id <= made

(* The level of a label is the innermost open one of those it stands in. *)
Standing ==
    \A l \in Labels :
        IF labels[l].level = 0 THEN places[l] = {}
        ELSE \E i \in DOMAIN scopes :
                /\ scopes[i].id = labels[l].level
                /\ \A k \in DOMAIN scopes : scopes[k] \in places[l] <=> k <= i

(* The flags of a label tell whether it stands in a guarded level that ended. *)
Left(l) == places[l] \ ToSet(scopes)
Flagged ==
    \A l \in Labels :
        labels[l].in_try_scope \/ labels[l].in_catch_scope <=>
            \E s \in Left(l) : s.kind \in Guarded

(* The level of a pending jump is open, and the jump is not known to be in   *)
(* any level inside it.                                                      *)
Waiting ==
    \A l \in Labels : \A ref \in labels[l].fwdrefs :
        /\ labels[l].level = 0
        /\ ref.jump \in DOMAIN jumps /\ jumps[ref.jump].to = l
        /\ \E m \in DOMAIN scopes :
            /\ scopes[m].id = ref.level
            /\ \A k \in DOMAIN scopes : k > m => scopes[k] \notin jumps[ref.jump].from

(* As long as no level ends, a pending jump is in its level and those around. *)
Remembered ==
    \A j \in DOMAIN jumps \ closed : jumps[j].forward /\ ~Resolved(j) =>
        \E ref \in labels[jumps[j].to].fwdrefs :
            /\ ref.jump = j
            /\ \E m \in DOMAIN scopes :
                /\ scopes[m].id = ref.level
                /\ \A k \in DOMAIN scopes : k <= m => scopes[k] \in jumps[j].from

BackwardResolved == \A j \in DOMAIN jumps : ~jumps[j].forward => Resolved(j)

Bookkeeping ==
    TypeOK /\ Numbered /\ Standing /\ Flagged /\ Waiting /\ Remembered /\ BackwardResolved
IInv == Bookkeeping /\ LegalJumpsAccepted /\ BackwardJumpsChecked /\ ForwardJumpsChecked
-----------------------------------------------------------------------------
LEMMA SeqElements ==
    ASSUME NEW S, NEW q \in Seq(S)
    PROVE  /\ Len(q) \in Nat /\ DOMAIN q = 1 .. Len(q)
           /\ \A i \in DOMAIN q : q[i] \in S
OBVIOUS

LEMMA ScopesShape ==
    ASSUME TypeOK
    PROVE  /\ Len(scopes) \in Nat \ {0} /\ DOMAIN scopes = 1 .. Len(scopes)
           /\ \A i \in DOMAIN scopes : scopes[i] \in Scope
           /\ ToSet(scopes) = {scopes[i] : i \in 1 .. Len(scopes)}
           /\ Current = scopes[Len(scopes)] /\ Current \in Scope
BY DEF TypeOK, ToSet, Current, Last

LEMMA JumpsShape ==
    ASSUME TypeOK
    PROVE  /\ Len(jumps) \in Nat /\ DOMAIN jumps = 1 .. Len(jumps)
           /\ \A j \in DOMAIN jumps :
                jumps[j].to \in Labels /\ jumps[j].from \in SUBSET Scope /\ jumps[j].forward \in BOOLEAN
<1>1. jumps \in Seq([to : Labels, from : SUBSET Scope, forward : BOOLEAN]) BY DEF TypeOK
<1>2. /\ Len(jumps) \in Nat /\ DOMAIN jumps = 1 .. Len(jumps)
      /\ \A j \in DOMAIN jumps : jumps[j] \in [to : Labels, from : SUBSET Scope, forward : BOOLEAN]
  BY <1>1, SeqElements, Zenon
<1> QED BY <1>2

LEMMA IdsAreNumbers ==
    ASSUME TypeOK
    PROVE  /\ made \in Nat
           /\ \A i \in DOMAIN scopes : scopes[i].id \in Nat
           /\ \A l \in Labels : \A s \in places[l] : s.id \in Nat
           /\ \A j \in DOMAIN jumps : \A s \in jumps[j].from : s.id \in Nat
<1>1. \A s \in Scope : s.id \in Nat BY DEF Scope
<1>2. \A i \in DOMAIN scopes : scopes[i] \in Scope BY ScopesShape
<1>3. \A l \in Labels : places[l] \in SUBSET Scope BY DEF TypeOK
<1>4. \A j \in DOMAIN jumps : jumps[j].from \in SUBSET Scope BY JumpsShape
<1> QED BY <1>1, <1>2, <1>3, <1>4 DEF TypeOK

LEMMA InitInvariant == Init => IInv
<1> SUFFICES ASSUME Init PROVE IInv OBVIOUS
<1>1. /\ Len(scopes) = 1 /\ DOMAIN scopes = {1}
      /\ scopes[1] = [kind |-> "level_function", id |-> 1]
  BY DEF Init, Level
<1>2. TypeOK BY <1>1 DEF Init, TypeOK, NoEntry, Level, Scope
<1>3. DOMAIN jumps = {} /\ made = 1 BY DEF Init
<1>4. Numbered BY <1>1, <1>3 DEF Init, Numbered
<1>5. Standing /\ Waiting BY DEF Init, Standing, Waiting, NoEntry
<1>6. Flagged BY DEF Init, Flagged, Left, NoEntry
<1>7. Remembered /\ BackwardResolved BY DEF Init, Remembered, BackwardResolved
<1>8. LegalJumpsAccepted /\ BackwardJumpsChecked /\ ForwardJumpsChecked
  BY DEF Init, LegalJumpsAccepted, BackwardJumpsChecked, ForwardJumpsChecked
<1> QED BY <1>2, <1>4, <1>5, <1>6, <1>7, <1>8 DEF IInv, Bookkeeping

(* start_scope: the new level has a number that nothing else has. *)
LEMMA PushKeeps ==
    ASSUME IInv, NEW k \in Kinds, PushLevel(k)
    PROVE  IInv'
<1> DEFINE n == Len(scopes)
<1> USE DEF IInv, Bookkeeping
<1>1. /\ n \in Nat \ {0} /\ DOMAIN scopes = 1 .. n
      /\ \A i \in 1 .. n : scopes[i] \in Scope
      /\ ToSet(scopes) = {scopes[i] : i \in 1 .. n}
  BY ScopesShape
<1>2. made \in Nat /\ made' = made + 1 /\ UNCHANGED <<labels, jumps, places, errors, closed>>
  BY DEF PushLevel, TypeOK
<1>3. /\ scopes' = Append(scopes, Level(k, made + 1))
      /\ Level(k, made + 1) \in Scope
  BY <1>2 DEF PushLevel, Level, Scope
<1>4. /\ Len(scopes') = n + 1 /\ DOMAIN scopes' = 1 .. n + 1
      /\ \A i \in 1 .. n : scopes'[i] = scopes[i]
      /\ scopes'[n + 1] = Level(k, made + 1) /\ scopes'[n + 1].id = made + 1
      /\ scopes' \in Seq(Scope)
  BY <1>1, <1>3 DEF TypeOK, Level
<1>5. ToSet(scopes') = ToSet(scopes) \cup {scopes'[n + 1]}
  BY <1>1, <1>4 DEF ToSet
<1>6. /\ \A l \in Labels : scopes'[n + 1] \notin places[l]
      /\ \A j \in DOMAIN jumps : scopes'[n + 1] \notin jumps[j].from
  BY <1>2, <1>4 DEF Numbered, TypeOK
<1>7. TypeOK' BY <1>1, <1>2, <1>4 DEF TypeOK
<1>8. Numbered'
  <2>1. ASSUME NEW i \in 1 .. n + 1
        PROVE  /\ scopes'[i].id \in 1 .. made + 1
               /\ \A m \in 1 .. n + 1 : i # m => scopes'[i].id # scopes'[m].id
    <3>1. \A m \in 1 .. n : scopes'[m].id \in 1 .. made BY <1>1, <1>4 DEF Numbered
    <3>2. \A m, q \in 1 .. n : m # q => scopes'[m].id # scopes'[q].id BY <1>1, <1>4 DEF Numbered
    <3>3. n \in Nat /\ made \in Nat BY <1>1, <1>2
    <3>4. scopes'[n + 1].id = made + 1 BY <1>4
    <3> HIDE DEF n, IInv
    <3>5. CASE i = n + 1
      <4>1. \A m \in 1 .. n + 1 : i # m => m \in 1 .. n BY <3>3, <3>5
      <4> QED BY <3>1, <3>3, <3>4, <3>5, <4>1
    <3>6. CASE i # n + 1
      <4>1. i \in 1 .. n BY <3>3, <3>6
      <4>2. \A m \in 1 .. n + 1 : m = n + 1 \/ m \in 1 .. n BY <3>3
      <4> QED BY <3>1, <3>2, <3>3, <3>4, <4>1, <4>2
    <3> QED BY <3>5, <3>6
  <2>2. /\ \A l \in Labels : \A s \in places[l] : s.id <= made + 1
        /\ \A j \in DOMAIN jumps : \A s \in jumps[j].from : s.id <= made + 1
    BY <1>2, IdsAreNumbers DEF Numbered
  <2> QED BY <1>2, <1>4, <2>1, <2>2 DEF Numbered
<1>9. Standing'
  <2> SUFFICES ASSUME NEW l \in Labels, labels[l].level # 0
               PROVE  \E i \in DOMAIN scopes' :
                          /\ scopes'[i].id = labels[l].level
                          /\ \A m \in DOMAIN scopes' : scopes'[m] \in places[l] <=> m <= i
    BY <1>2 DEF Standing
  <2>1. PICK i \in 1 .. n : /\ scopes[i].id = labels[l].level
                            /\ \A m \in 1 .. n : scopes[m] \in places[l] <=> m <= i
    BY <1>1 DEF Standing
  <2>2. \A m \in 1 .. n + 1 : scopes'[m] \in places[l] <=> m <= i
    BY <1>1, <1>4, <1>6, <2>1
  <2> QED BY <1>1, <1>4, <2>1, <2>2
<1>10. \A l \in Labels : Left(l)' = Left(l) BY <1>2, <1>5, <1>6 DEF Left
<1>11. Flagged' BY <1>2, <1>10 DEF Flagged
<1>12. Waiting'
  <2> SUFFICES ASSUME NEW l \in Labels, NEW ref \in labels[l].fwdrefs
               PROVE  \E m \in DOMAIN scopes' :
                          /\ scopes'[m].id = ref.level
                          /\ \A i \in DOMAIN scopes' : i > m => scopes'[i] \notin jumps[ref.jump].from
    BY <1>2 DEF Waiting
  <2>1. PICK m \in 1 .. n :
            /\ scopes[m].id = ref.level
            /\ \A i \in 1 .. n : i > m => scopes[i] \notin jumps[ref.jump].from
    BY <1>1 DEF Waiting
  <2>2. ref.jump \in DOMAIN jumps BY DEF Waiting
  <2>3. \A i \in 1 .. n + 1 : i > m => scopes'[i] \notin jumps[ref.jump].from
    BY <1>1, <1>4, <1>6, <2>1, <2>2
  <2> QED BY <1>1, <1>4, <2>1, <2>3
<1>13. Remembered'
  <2> SUFFICES ASSUME NEW j \in DOMAIN jumps \ closed, jumps[j].forward, ~Resolved(j)
               PROVE  \E ref \in labels[jumps[j].to].fwdrefs :
                          /\ ref.jump = j
                          /\ \E m \in DOMAIN scopes' :
                              /\ scopes'[m].id = ref.level
                              /\ \A i \in DOMAIN scopes' : i <= m => scopes'[i] \in jumps[j].from
    BY <1>2 DEF Remembered, Resolved
  <2>1. PICK ref \in labels[jumps[j].to].fwdrefs :
            /\ ref.jump = j
            /\ \E m \in DOMAIN scopes :
                /\ scopes[m].id = ref.level
                /\ \A i \in DOMAIN scopes : i <= m => scopes[i] \in jumps[j].from
    BY DEF Remembered
  <2>2. PICK m \in 1 .. n : /\ scopes[m].id = ref.level
                            /\ \A i \in 1 .. n : i <= m => scopes[i] \in jumps[j].from
    BY <1>1, <2>1
  <2>3. \A i \in 1 .. n + 1 : i <= m => scopes'[i] \in jumps[j].from
    BY <1>1, <1>4, <2>2
  <2> QED BY <1>1, <1>4, <2>1, <2>2, <2>3
<1>14. BackwardResolved' BY <1>2 DEF BackwardResolved, Resolved
<1>15. LegalJumpsAccepted' /\ BackwardJumpsChecked' /\ ForwardJumpsChecked'
  BY <1>2 DEF LegalJumpsAccepted, BackwardJumpsChecked, ForwardJumpsChecked, Resolved, Enters
<1> QED BY <1>7, <1>8, <1>9, <1>11, <1>12, <1>13, <1>14, <1>15
(* end_scope: a label whose level ends moves to the one around it, and every *)
(* pending jump does.                                                        *)
LEMMA PopKeeps ==
    ASSUME IInv, PopLevel
    PROVE  IInv'
<1> DEFINE n == Len(scopes)
           obl == Last(Front(scopes))
<1>0. /\ TypeOK /\ Numbered /\ Standing /\ Flagged /\ Waiting /\ Remembered /\ BackwardResolved
      /\ LegalJumpsAccepted /\ BackwardJumpsChecked /\ ForwardJumpsChecked
  BY DEF IInv, Bookkeeping
<1>1. /\ n \in Nat \ {0} /\ DOMAIN scopes = 1 .. n
      /\ \A i \in 1 .. n : scopes[i] \in Scope
      /\ ToSet(scopes) = {scopes[i] : i \in 1 .. n}
      /\ Current = scopes[n]
  BY <1>0, ScopesShape
<1>2. /\ n > 1 /\ UNCHANGED <<made, jumps, places, errors>>
      /\ scopes' = SubSeq(scopes, 1, n - 1)
  BY DEF PopLevel, Front
<1>size. n \in Nat /\ n > 1 BY <1>1, <1>2
<1>3. /\ Len(scopes') = n - 1 /\ DOMAIN scopes' = 1 .. n - 1
      /\ \A i \in 1 .. n - 1 : scopes'[i] = scopes[i]
      /\ scopes' \in Seq(Scope)
  <2>1. scopes \in Seq(Scope) BY <1>0 DEF TypeOK
  <2> QED BY <1>1, <1>2, <2>1
<1>4. obl = scopes[n - 1] /\ obl.id \in Nat \ {0} /\ obl.id # scopes[n].id
  <2>1. obl = scopes[n - 1] BY <1>1, <1>2, <1>3 DEF Last, Front
  <2>2. n - 1 \in 1 .. n /\ n \in 1 .. n /\ n - 1 # n BY <1>size
  <2>3. scopes[n - 1].id \in 1 .. made /\ scopes[n - 1].id # scopes[n].id
    BY <1>0, <1>1, <2>2, Zenon DEF Numbered
  <2>4. made \in Nat BY <1>0, IdsAreNumbers
  <2> QED BY <2>1, <2>3, <2>4
<1>5. ToSet(scopes') = ToSet(scopes) \ {scopes[n]}
  <2>1. \A i \in 1 .. n - 1 : scopes[i] # scopes[n]
    <3> TAKE i \in 1 .. n - 1
    <3>0. i \in 1 .. n /\ n \in 1 .. n /\ i # n BY <1>size
    <3>1. i \in DOMAIN scopes /\ n \in DOMAIN scopes /\ i # n BY <1>1, <3>0
    <3>2. scopes[i].id # scopes[n].id BY <1>0, <3>1, Zenon DEF Numbered
    <3> QED BY <3>2
  <2>2. ToSet(scopes') = {scopes[i] : i \in 1 .. n - 1} BY <1>3 DEF ToSet
  <2>3. \A i \in 1 .. n : i = n \/ i \in 1 .. n - 1 BY <1>size
  <2>4. 1 .. n - 1 \subseteq 1 .. n BY <1>size
  <2> QED BY <1>1, <2>1, <2>2, <2>3, <2>4
<1>6. \A l \in Labels :
        labels[l] \in [level : Nat, in_try_scope : BOOLEAN, in_catch_scope : BOOLEAN,
                      fwdrefs : SUBSET [level : Nat, jump : Nat]]
  BY <1>0 DEF TypeOK
<1>7. ASSUME NEW l \in Labels, labels[l].level = scopes[n].id
      PROVE  /\ labels'[l].level = obl.id
             /\ labels'[l].in_try_scope <=> labels[l].in_try_scope \/ scopes[n].kind = "level_try"
             /\ labels'[l].in_catch_scope <=> labels[l].in_catch_scope \/ scopes[n].kind = "level_catch"
             /\ labels'[l].in_try_scope \in BOOLEAN /\ labels'[l].in_catch_scope \in BOOLEAN
             /\ labels'[l].fwdrefs = labels[l].fwdrefs
  BY <1>1, <1>6, <1>7 DEF PopLevel, PopBindingLabel
<1>8. ASSUME NEW l \in Labels, labels[l].level # scopes[n].id
      PROVE  /\ labels'[l].level = labels[l].level
             /\ labels'[l].in_try_scope = labels[l].in_try_scope
             /\ labels'[l].in_catch_scope = labels[l].in_catch_scope
             /\ labels'[l].fwdrefs = {[ref EXCEPT !.level = obl.id] : ref \in labels[l].fwdrefs}
  BY <1>1, <1>6, <1>8 DEF PopLevel, PopBindingLabel
<1>9. \A l \in Labels : labels'[l].level = 0 <=> labels[l].level = 0
  <2>1. scopes[n].id # 0
    <3>1. n \in DOMAIN scopes BY <1>1
    <3>2. scopes[n].id \in 1 .. made BY <1>0, <3>1, Zenon DEF Numbered
    <3> QED BY <1>0, <3>2, IdsAreNumbers
  <2> QED BY <1>4, <1>7, <1>8, <2>1
<1>10. TypeOK'
  <2>1. ASSUME NEW l \in Labels
        PROVE  PopBindingLabel(labels[l], Current, obl) \in
                 [level : Nat, in_try_scope : BOOLEAN, in_catch_scope : BOOLEAN,
                  fwdrefs : SUBSET [level : Nat, jump : Nat]]
    <3>1. {[ref EXCEPT !.level = obl.id] : ref \in labels[l].fwdrefs} \in SUBSET [level : Nat, jump : Nat]
      BY <1>4, <1>6
    <3> QED BY <1>1, <1>4, <1>6, <3>1 DEF PopBindingLabel
  <2>2. labels' = [l \in Labels |-> PopBindingLabel(labels[l], Current, obl)] BY DEF PopLevel
  <2>3. labels' \in [Labels -> [level : Nat, in_try_scope : BOOLEAN, in_catch_scope : BOOLEAN,
                               fwdrefs : SUBSET [level : Nat, jump : Nat]]]
    BY <2>1, <2>2
  <2> QED BY <1>0, <1>1, <1>2, <1>3, <2>3 DEF TypeOK
<1>11. Numbered' BY <1>0, <1>1, <1>2, <1>3 DEF Numbered
<1>12. ASSUME NEW i \in 1 .. n, scopes[i].id = scopes[n].id PROVE i = n
  <2>1. i \in DOMAIN scopes /\ n \in DOMAIN scopes BY <1>1
  <2> QED BY <1>0, <1>12, <2>1, Zenon DEF Numbered
<1>13. ASSUME NEW l \in Labels, labels[l].level # 0
       PROVE  \E i \in 1 .. n - 1 :
                /\ scopes[i].id = labels'[l].level
                /\ \A k \in 1 .. n - 1 : scopes[k] \in places[l] <=> k <= i
  <2>1. PICK i \in 1 .. n : /\ scopes[i].id = labels[l].level
                            /\ \A k \in 1 .. n : scopes[k] \in places[l] <=> k <= i
    BY <1>0, <1>1, <1>13 DEF Standing
  <2>2. CASE i = n
    <3>1. labels'[l].level = scopes[n - 1].id BY <1>4, <1>7, <2>1, <2>2
    <3>2. \A k \in 1 .. n - 1 : k \in 1 .. n /\ k <= n /\ k <= n - 1 BY <1>size
    <3> QED BY <1>1, <1>2, <2>1, <2>2, <3>1, <3>2
  <2>3. CASE i # n
    <3>1. labels[l].level # scopes[n].id BY <1>12, <2>1, <2>3
    <3>2. i \in 1 .. n - 1 BY <1>size, <2>3
    <3> QED BY <1>1, <1>8, <2>1, <3>1, <3>2
  <2> QED BY <2>2, <2>3
<1>14. Standing'
  <2>1. ASSUME NEW l \in Labels, labels[l].level # 0
        PROVE  \E i \in DOMAIN scopes' :
                 /\ scopes'[i].id = labels'[l].level
                 /\ \A k \in DOMAIN scopes' : scopes'[k] \in places'[l] <=> k <= i
    <3>1. PICK i \in 1 .. n - 1 :
              /\ scopes[i].id = labels'[l].level
              /\ \A k \in 1 .. n - 1 : scopes[k] \in places[l] <=> k <= i
      BY <1>13, <2>1
    <3> QED BY <1>2, <1>3, <3>1
  <2>2. ASSUME NEW l \in Labels, labels[l].level = 0 PROVE places'[l] = {}
    BY <1>0, <1>2, <2>2 DEF Standing
  <2> QED BY <1>0, <1>9, <2>1, <2>2 DEF Standing
<1>15. ASSUME NEW l \in Labels
       PROVE  /\ scopes[n] \in places[l] <=> labels[l].level = scopes[n].id
              /\ Left(l)' = Left(l) \cup (places[l] \cap {scopes[n]})
  <2>1. scopes[n].id # 0
    <3>1. n \in DOMAIN scopes BY <1>1
    <3>2. scopes[n].id \in 1 .. made BY <1>0, <3>1, Zenon DEF Numbered
    <3> QED BY <1>0, <3>2, IdsAreNumbers
  <2>2. ASSUME labels[l].level = 0
        PROVE  scopes[n] \in places[l] <=> labels[l].level = scopes[n].id
    BY <1>0, <2>1, <2>2 DEF Standing
  <2>3. ASSUME labels[l].level # 0
        PROVE  scopes[n] \in places[l] <=> labels[l].level = scopes[n].id
    <3>1. PICK i \in 1 .. n : /\ scopes[i].id = labels[l].level
                              /\ \A k \in 1 .. n : scopes[k] \in places[l] <=> k <= i
      BY <1>0, <1>1, <2>3 DEF Standing
    <3>2. scopes[n] \in places[l] <=> i = n BY <1>size, <3>1
    <3> QED BY <1>12, <3>1, <3>2, <1>size
  <2>4. scopes[n] \in places[l] <=> labels[l].level = scopes[n].id BY <2>2, <2>3
  <2>5. Left(l)' = places[l] \ (ToSet(scopes) \ {scopes[n]}) BY <1>2, <1>5 DEF Left
  <2> QED BY <2>4, <2>5 DEF Left
<1>16. Flagged'
  <2> SUFFICES ASSUME NEW l \in Labels
               PROVE  labels'[l].in_try_scope \/ labels'[l].in_catch_scope <=>
                        \E s \in Left(l)' : s.kind \in Guarded
    BY <1>0 DEF Flagged
  <2>1. labels[l].in_try_scope \/ labels[l].in_catch_scope <=> \E s \in Left(l) : s.kind \in Guarded
    BY <1>0 DEF Flagged
  <2>2. CASE labels[l].level = scopes[n].id
    <3>1. Left(l)' = Left(l) \cup {scopes[n]} BY <1>15, <2>2
    <3>2. labels'[l].in_try_scope \/ labels'[l].in_catch_scope <=>
            labels[l].in_try_scope \/ labels[l].in_catch_scope \/ scopes[n].kind \in Guarded
      BY <1>7, <2>2 DEF Guarded
    <3> QED BY <2>1, <3>1, <3>2, Zenon
  <2>3. CASE labels[l].level # scopes[n].id
    <3>1. Left(l)' = Left(l) BY <1>15, <2>3
    <3> QED BY <1>8, <2>1, <2>3, <3>1
  <2> QED BY <2>2, <2>3
<1>17. Waiting'
  <2> SUFFICES ASSUME NEW l \in Labels, NEW new \in labels'[l].fwdrefs
               PROVE  /\ labels'[l].level = 0
                      /\ new.jump \in DOMAIN jumps /\ jumps[new.jump].to = l
                      /\ \E m \in DOMAIN scopes' :
                          /\ scopes'[m].id = new.level
                          /\ \A k \in DOMAIN scopes' : k > m => scopes'[k] \notin jumps[new.jump].from
    BY <1>0, <1>2 DEF Waiting
  <2>1. labels[l].level = 0 /\ labels[l].level # scopes[n].id
    <3>1. CASE labels[l].level = scopes[n].id
      <4>1. new \in labels[l].fwdrefs BY <1>7, <3>1
      <4>2. labels[l].level = 0 BY <1>0, <4>1 DEF Waiting
      <4> QED BY <1>4, <1>7, <1>9, <3>1, <4>2
    <3>2. CASE labels[l].level # scopes[n].id
      <4>1. PICK ref \in labels[l].fwdrefs : TRUE BY <1>8, <3>2
      <4> QED BY <1>0, <3>2, <4>1 DEF Waiting
    <3> QED BY <3>1, <3>2
  <2>2. PICK ref \in labels[l].fwdrefs : new = [ref EXCEPT !.level = obl.id] BY <1>8, <2>1
  <2>3. ref \in [level : Nat, jump : Nat] BY <1>6
  <2>4. new.jump = ref.jump /\ new.level = obl.id BY <2>2, <2>3
  <2>5. ref.jump \in DOMAIN jumps /\ jumps[ref.jump].to = l BY <1>0 DEF Waiting
  <2>6. /\ n - 1 \in DOMAIN scopes' /\ scopes'[n - 1].id = new.level
        /\ \A k \in DOMAIN scopes' : ~(k > n - 1)
    BY <1>1, <1>2, <1>3, <1>4, <2>4
  <2> QED BY <1>9, <2>1, <2>4, <2>5, <2>6
<1>18. Remembered'
  <2>1. closed' = closed \cup {j \in DOMAIN jumps : labels[jumps[j].to].level = 0} BY DEF PopLevel
  <2>2. \A j \in DOMAIN jumps : jumps[j].to \in Labels
    BY <1>0, JumpsShape
  <2>3. \A j \in DOMAIN jumps : ~(labels'[jumps[j].to].level # 0) => j \in closed'
    BY <1>9, <2>1, <2>2
  <2> QED BY <1>0, <1>2, <2>3 DEF Remembered, Resolved
<1>19. \A j \in DOMAIN jumps : Resolved(j)' <=> Resolved(j)
  <2>1. \A j \in DOMAIN jumps : jumps[j].to \in Labels
    BY <1>0, JumpsShape
  <2> QED BY <1>2, <1>9, <2>1 DEF Resolved
<1>20. BackwardResolved' BY <1>0, <1>2, <1>19 DEF BackwardResolved
<1>21. LegalJumpsAccepted' /\ BackwardJumpsChecked' /\ ForwardJumpsChecked'
  <2>1. closed \subseteq closed' /\ errors \subseteq DOMAIN jumps BY <1>0 DEF PopLevel, TypeOK
  <2>2. \A j \in DOMAIN jumps : Enters(j)' <=> Enters(j) BY <1>2 DEF Enters
  <2> QED BY <1>0, <1>2, <1>19, <2>1, <2>2
          DEF LegalJumpsAccepted, BackwardJumpsChecked, ForwardJumpsChecked
<1> QED BY <1>10, <1>11, <1>14, <1>16, <1>17, <1>18, <1>20, <1>21 DEF IInv, Bookkeeping
(* A jump: one to a label that is not yet defined waits in the current       *)
(* level, any other is judged by the flags of the label.                     *)
LEMMA GotoKeeps ==
    ASSUME IInv, NEW l \in Labels, Goto(l)
    PROVE  IInv'
<1> PICK new \in {Len(jumps) + 1} : TRUE OBVIOUS
<1> DEFINE n == Len(scopes)
           pending == labels[l].level = 0
           flagged == labels[l].in_try_scope \/ labels[l].in_catch_scope
           ref0 == [level |-> Current.id, jump |-> new]
<1>0. /\ TypeOK /\ Numbered /\ Standing /\ Flagged /\ Waiting /\ Remembered /\ BackwardResolved
      /\ LegalJumpsAccepted /\ BackwardJumpsChecked /\ ForwardJumpsChecked
  BY DEF IInv, Bookkeeping
<1>1. /\ n \in Nat \ {0} /\ DOMAIN scopes = 1 .. n
      /\ \A i \in 1 .. n : scopes[i] \in Scope
      /\ ToSet(scopes) = {scopes[i] : i \in 1 .. n}
      /\ Current = scopes[n]
  BY <1>0, ScopesShape
<1>2. /\ UNCHANGED <<scopes, made, places, closed>>
      /\ jumps' = Append(jumps, [to |-> l, from |-> ToSet(scopes), forward |-> pending])
      /\ pending => /\ labels' = [labels EXCEPT ![l].fwdrefs = @ \cup {ref0}]
                    /\ errors' = errors
      /\ ~pending => /\ labels' = labels
                     /\ errors' = errors \cup (IF flagged THEN {new} ELSE {})
  BY DEF Goto
<1>3. /\ Len(jumps) \in Nat /\ DOMAIN jumps = 1 .. Len(jumps)
      /\ \A j \in DOMAIN jumps : jumps[j].to \in Labels
  BY <1>0, JumpsShape
<1>4. /\ jumps' \in Seq([to : Labels, from : SUBSET Scope, forward : BOOLEAN])
      /\ DOMAIN jumps' = DOMAIN jumps \cup {new} /\ new \notin DOMAIN jumps
      /\ \A j \in DOMAIN jumps : jumps'[j] = jumps[j]
      /\ jumps'[new].to = l /\ jumps'[new].from = ToSet(scopes)
      /\ jumps'[new].forward = pending
  <2> DEFINE jump == [to |-> l, from |-> ToSet(scopes), forward |-> pending]
             Jump == [to : Labels, from : SUBSET Scope, forward : BOOLEAN]
  <2>1. ToSet(scopes) \in SUBSET Scope BY <1>1
  <2>2. jump \in Jump BY <2>1
  <2>3. jumps \in Seq(Jump) BY <1>0 DEF TypeOK
  <2>4. /\ Append(jumps, jump) \in Seq(Jump)
        /\ DOMAIN Append(jumps, jump) = 1 .. Len(jumps) + 1
        /\ \A j \in 1 .. Len(jumps) : Append(jumps, jump)[j] = jumps[j]
        /\ Append(jumps, jump)[new] = jump
    <3> HIDE DEF jump, Jump
    <3> QED BY <2>2, <2>3
  <2>5. 1 .. Len(jumps) + 1 = 1 .. Len(jumps) \cup {new} /\ new \notin 1 .. Len(jumps) BY <1>3
  <2> QED BY <1>2, <1>3, <2>4, <2>5
<1>5. ASSUME NEW k \in Labels
      PROVE  /\ labels'[k].level = labels[k].level
             /\ labels'[k].in_try_scope = labels[k].in_try_scope
             /\ labels'[k].in_catch_scope = labels[k].in_catch_scope
             /\ labels'[k].fwdrefs = IF k = l /\ pending THEN labels[k].fwdrefs \cup {ref0}
                                     ELSE labels[k].fwdrefs
  <2> DEFINE Entry == [level : Nat, in_try_scope : BOOLEAN, in_catch_scope : BOOLEAN,
                       fwdrefs : SUBSET [level : Nat, jump : Nat]]
  <2>1. labels \in [Labels -> Entry] /\ labels[k] \in Entry BY <1>0 DEF TypeOK
  <2>2. CASE ~pending BY <1>2, <2>2
  <2>3. CASE pending
    <3>1. labels' = [labels EXCEPT ![l] = [labels[l] EXCEPT !.fwdrefs = @ \cup {ref0}]] BY <1>2, <2>3
    <3>2. labels'[k] = IF k = l THEN [labels[l] EXCEPT !.fwdrefs = @ \cup {ref0}] ELSE labels[k]
      BY <2>1, <3>1
    <3> QED BY <2>1, <2>3, <3>2
  <2> QED BY <2>2, <2>3
<1>6. ref0 \in [level : Nat, jump : Nat] /\ ref0.jump = new /\ ref0.level = scopes[n].id
  <2>1. scopes[n].id \in Nat BY <1>0, <1>1, IdsAreNumbers
  <2> QED BY <1>1, <1>3, <2>1
<1> HIDE DEF ref0
<1>7. TypeOK'
  <2>1. labels' \in [Labels -> [level : Nat, in_try_scope : BOOLEAN, in_catch_scope : BOOLEAN,
                               fwdrefs : SUBSET [level : Nat, jump : Nat]]]
    <3> DEFINE Entry == [level : Nat, in_try_scope : BOOLEAN, in_catch_scope : BOOLEAN,
                         fwdrefs : SUBSET [level : Nat, jump : Nat]]
    <3>1. labels \in [Labels -> Entry] BY <1>0 DEF TypeOK
    <3>2. CASE ~pending BY <1>2, <3>1, <3>2
    <3>3. CASE pending
      <4>1. labels[l].fwdrefs \cup {ref0} \in SUBSET [level : Nat, jump : Nat] BY <1>6, <3>1
      <4>2. [labels[l] EXCEPT !.fwdrefs = @ \cup {ref0}] \in Entry BY <3>1, <4>1
      <4>3. labels' = [labels EXCEPT ![l] = [labels[l] EXCEPT !.fwdrefs = @ \cup {ref0}]] BY <1>2, <3>3
      <4> QED BY <3>1, <4>2, <4>3
    <3> QED BY <3>2, <3>3
  <2>2. errors' \subseteq DOMAIN jumps' BY <1>0, <1>2, <1>4 DEF TypeOK
  <2> QED BY <1>0, <1>2, <1>4, <2>1, <2>2 DEF TypeOK
<1>8. Numbered'
  <2>1. made \in Nat BY <1>0, IdsAreNumbers
  <2>2. \A i \in DOMAIN scopes : scopes[i].id <= made BY <1>0, <2>1 DEF Numbered
  <2>3. \A s \in ToSet(scopes) : s.id <= made BY <1>1, <2>2
  <2>4. \A j \in DOMAIN jumps' : \A s \in jumps'[j].from : s.id <= made
    BY <1>0, <1>4, <2>3, Zenon DEF Numbered
  <2> QED BY <1>0, <1>2, <2>4 DEF Numbered
<1>9. Standing' BY <1>0, <1>2, <1>5 DEF Standing
<1>10. Flagged' BY <1>0, <1>2, <1>5 DEF Flagged, Left
<1>11. Waiting'
  <2> SUFFICES ASSUME NEW k \in Labels, NEW ref \in labels'[k].fwdrefs
               PROVE  /\ labels'[k].level = 0
                      /\ ref.jump \in DOMAIN jumps' /\ jumps'[ref.jump].to = k
                      /\ \E m \in DOMAIN scopes :
                          /\ scopes[m].id = ref.level
                          /\ \A i \in DOMAIN scopes : i > m => scopes[i] \notin jumps'[ref.jump].from
    BY <1>2 DEF Waiting
  <2>1. CASE ref \in labels[k].fwdrefs
    <3>1. /\ labels[k].level = 0
          /\ ref.jump \in DOMAIN jumps /\ jumps[ref.jump].to = k
          /\ \E m \in DOMAIN scopes :
              /\ scopes[m].id = ref.level
              /\ \A i \in DOMAIN scopes : i > m => scopes[i] \notin jumps[ref.jump].from
      BY <1>0, <2>1 DEF Waiting
    <3> QED BY <1>4, <1>5, <3>1
  <2>2. CASE ref \notin labels[k].fwdrefs
    <3>1. k = l /\ pending /\ ref = ref0 BY <1>5, <2>2
    <3>2. /\ n \in DOMAIN scopes /\ scopes[n].id = ref.level
          /\ \A i \in DOMAIN scopes : ~(i > n)
      BY <1>1, <1>6, <3>1
    <3>3. ref.jump \in DOMAIN jumps' /\ jumps'[ref.jump].to = k /\ labels'[k].level = 0
      BY <1>4, <1>5, <1>6, <3>1
    <3> QED BY <3>2, <3>3
  <2> QED BY <2>1, <2>2
<1>12. Remembered'
  <2> SUFFICES ASSUME NEW j \in DOMAIN jumps' \ closed, jumps'[j].forward, ~Resolved(j)'
               PROVE  \E ref \in labels'[jumps'[j].to].fwdrefs :
                        /\ ref.jump = j
                        /\ \E m \in DOMAIN scopes :
                            /\ scopes[m].id = ref.level
                            /\ \A k \in DOMAIN scopes : k <= m => scopes[k] \in jumps'[j].from
    BY <1>2 DEF Remembered
  <2>1. CASE j \in DOMAIN jumps
    <3>1. jumps'[j] = jumps[j] /\ jumps[j].to \in Labels BY <1>3, <1>4, <2>1
    <3>2. ~Resolved(j) BY <1>5, <3>1 DEF Resolved
    <3>3. PICK ref \in labels[jumps[j].to].fwdrefs :
              /\ ref.jump = j
              /\ \E m \in DOMAIN scopes :
                  /\ scopes[m].id = ref.level
                  /\ \A k \in DOMAIN scopes : k <= m => scopes[k] \in jumps[j].from
      BY <1>0, <2>1, <3>1, <3>2 DEF Remembered
    <3>4. ref \in labels'[jumps[j].to].fwdrefs BY <1>5, <3>1
    <3> QED BY <3>1, <3>3, <3>4
  <2>2. CASE j = new
    <3>1. pending /\ jumps'[j].to = l /\ jumps'[j].from = ToSet(scopes) BY <1>4, <2>2
    <3>2. ref0 \in labels'[l].fwdrefs BY <1>5, <3>1
    <3>3. n \in DOMAIN scopes /\ \A k \in DOMAIN scopes : scopes[k] \in ToSet(scopes) BY <1>1
    <3> QED BY <1>6, <2>2, <3>1, <3>2, <3>3
  <2> QED BY <1>4, <2>1, <2>2
<1>13. ASSUME NEW j \in DOMAIN jumps
       PROVE  /\ Resolved(j)' <=> Resolved(j)
              /\ Enters(j)' <=> Enters(j)
              /\ jumps'[j].forward = jumps[j].forward
  <2>1. jumps'[j] = jumps[j] /\ jumps[j].to \in Labels /\ places' = places BY <1>2, <1>3, <1>4
  <2>2. labels'[jumps[j].to].level = labels[jumps[j].to].level BY <1>5, <2>1
  <2>3. Resolved(j)' <=> Resolved(j) BY <2>1, <2>2 DEF Resolved
  <2>4. Enters(j)' <=> Enters(j) BY <2>1 DEF Enters
  <2> QED BY <2>1, <2>3, <2>4
<1>14. /\ Resolved(new)' <=> ~pending
       /\ Enters(new)' <=> flagged
  <2>1. Resolved(new)' <=> ~pending BY <1>4, <1>5 DEF Resolved
  <2>2. Enters(new)' <=> \E s \in Left(l) : s.kind \in Guarded BY <1>2, <1>4 DEF Enters, Left
  <2> QED BY <1>0, <2>1, <2>2 DEF Flagged
<1>15. BackwardResolved' BY <1>0, <1>4, <1>13, <1>14 DEF BackwardResolved
<1>16. LegalJumpsAccepted'
  <2>1. \A j \in errors : j \in DOMAIN jumps BY <1>0 DEF TypeOK
  <2>2. \A j \in errors' : j \in errors \/ (j = new /\ ~pending /\ flagged) BY <1>2
  <2> QED BY <1>0, <1>13, <1>14, <2>1, <2>2 DEF LegalJumpsAccepted
<1>17. BackwardJumpsChecked'
  <2>1. errors \subseteq errors' /\ (~pending /\ flagged => new \in errors') BY <1>2
  <2> QED BY <1>0, <1>4, <1>13, <1>14, <2>1 DEF BackwardJumpsChecked
<1>18. ForwardJumpsChecked'
  <2>1. errors \subseteq errors' BY <1>2
  <2> QED BY <1>0, <1>2, <1>4, <1>13, <1>14, <2>1 DEF ForwardJumpsChecked
<1> QED BY <1>7, <1>8, <1>9, <1>10, <1>11, <1>12, <1>15, <1>16, <1>17, <1>18 DEF IInv, Bookkeeping
(* A label is defined: the jumps that waited for it are judged.              *)
LEMMA DefineKeeps ==
    ASSUME IInv, NEW l \in Labels, DefineLabel(l)
    PROVE  IInv'
<1> DEFINE n == Len(scopes)
           Entry == [level : Nat, in_try_scope : BOOLEAN, in_catch_scope : BOOLEAN,
                     fwdrefs : SUBSET [level : Nat, jump : Nat]]
<1>0. /\ TypeOK /\ Numbered /\ Standing /\ Flagged /\ Waiting /\ Remembered /\ BackwardResolved
      /\ LegalJumpsAccepted /\ BackwardJumpsChecked /\ ForwardJumpsChecked
  BY DEF IInv, Bookkeeping
<1>1. /\ n \in Nat \ {0} /\ DOMAIN scopes = 1 .. n
      /\ \A i \in 1 .. n : scopes[i] \in Scope
      /\ ToSet(scopes) = {scopes[i] : i \in 1 .. n}
      /\ Current = scopes[n]
  BY <1>0, ScopesShape
<1>2. /\ labels[l].level = 0 /\ UNCHANGED <<scopes, made, jumps, closed>>
      /\ labels' = [labels EXCEPT ![l] = [labels[l] EXCEPT !.level = scopes[n].id, !.fwdrefs = {}]]
      /\ errors' = errors \cup {ref.jump : ref \in {r \in labels[l].fwdrefs : CheckPreviousGoto(r)}}
      /\ places' = [places EXCEPT ![l] = ToSet(scopes)]
  <2>1. labels \in [Labels -> Entry] BY <1>0 DEF TypeOK
  <2> QED BY <1>1, <2>1 DEF DefineLabel
<1>3. scopes[n].id \in Nat \ {0}
  <2>1. n \in DOMAIN scopes BY <1>1
  <2>2. scopes[n].id \in 1 .. made BY <1>0, <2>1, Zenon DEF Numbered
  <2> QED BY <1>0, <2>2, IdsAreNumbers
<1>4. /\ labels \in [Labels -> Entry] /\ labels' \in [Labels -> Entry]
      /\ places \in [Labels -> SUBSET Scope] /\ places' \in [Labels -> SUBSET Scope]
      /\ labels'[l].level = scopes[n].id /\ labels'[l].fwdrefs = {}
      /\ labels'[l].in_try_scope = labels[l].in_try_scope
      /\ labels'[l].in_catch_scope = labels[l].in_catch_scope
      /\ places'[l] = ToSet(scopes)
  <2>1. labels \in [Labels -> Entry] BY <1>0 DEF TypeOK
  <2>2. [labels[l] EXCEPT !.level = scopes[n].id, !.fwdrefs = {}] \in Entry BY <1>3, <2>1
  <2>3. labels' \in [Labels -> Entry] BY <1>2, <2>1, <2>2
  <2>4. places \in [Labels -> SUBSET Scope] BY <1>0 DEF TypeOK
  <2>5. ToSet(scopes) \in SUBSET Scope BY <1>1
  <2> QED BY <1>2, <2>1, <2>2, <2>3, <2>4, <2>5
<1>5. \A k \in Labels \ {l} : labels'[k] = labels[k] /\ places'[k] = places[k]
  BY <1>2, <1>4
<1>6. places[l] = {} BY <1>0, <1>2 DEF Standing
<1>7. ASSUME NEW ref \in labels[l].fwdrefs
      PROVE  ref.jump \in DOMAIN jumps /\ jumps[ref.jump].to = l
  BY <1>0 DEF Waiting
<1>8. TypeOK'
  <2>1. errors' \subseteq DOMAIN jumps BY <1>0, <1>2, <1>7 DEF TypeOK
  <2> QED BY <1>0, <1>2, <1>4, <2>1 DEF TypeOK
<1>9. Numbered'
  <2>1. \A s \in ToSet(scopes) : s.id <= made
    <3>1. \A i \in DOMAIN scopes : scopes[i].id \in 1 .. made BY <1>0 DEF Numbered
    <3> QED BY <1>0, <1>1, <3>1, IdsAreNumbers
  <2>2. \A k \in Labels : \A s \in places'[k] : s.id <= made BY <1>0, <1>4, <1>5, <2>1 DEF Numbered
  <2> QED BY <1>0, <1>2, <2>2 DEF Numbered
<1>10. Standing'
  <2>1. ASSUME NEW k \in Labels, labels'[k].level = 0 PROVE places'[k] = {}
    BY <1>0, <1>3, <1>4, <1>5, <2>1 DEF Standing
  <2>2. ASSUME NEW k \in Labels, labels'[k].level # 0
        PROVE  \E i \in DOMAIN scopes :
                 /\ scopes[i].id = labels'[k].level
                 /\ \A m \in DOMAIN scopes : scopes[m] \in places'[k] <=> m <= i
    <3>1. CASE k # l BY <1>0, <1>5, <2>2, <3>1 DEF Standing
    <3>2. CASE k = l
      <4>1. n \in DOMAIN scopes /\ \A m \in DOMAIN scopes : m <= n /\ scopes[m] \in ToSet(scopes)
        BY <1>1
      <4> QED BY <1>4, <3>2, <4>1
    <3> QED BY <3>1, <3>2
  <2> QED BY <1>2, <2>1, <2>2 DEF Standing
<1>11. Flagged'
  <2> SUFFICES ASSUME NEW k \in Labels
               PROVE  labels'[k].in_try_scope \/ labels'[k].in_catch_scope <=>
                        \E s \in places'[k] \ ToSet(scopes) : s.kind \in Guarded
    BY <1>2 DEF Flagged, Left
  <2>1. CASE k # l BY <1>0, <1>5, <2>1 DEF Flagged, Left
  <2>2. CASE k = l
    <3>1. ~labels[l].in_try_scope /\ ~labels[l].in_catch_scope BY <1>0, <1>6 DEF Flagged, Left
    <3> QED BY <1>4, <2>2, <3>1
  <2> QED BY <2>1, <2>2
<1>12. Waiting'
  <2>1. ASSUME NEW k \in Labels, NEW ref \in labels'[k].fwdrefs PROVE k # l /\ ref \in labels[k].fwdrefs
    BY <1>4, <1>5, <2>1
  <2> QED BY <1>0, <1>2, <1>5, <2>1 DEF Waiting
<1>13. \A j \in DOMAIN jumps : jumps[j].to \in Labels BY <1>0, JumpsShape
<1>14. ASSUME NEW j \in DOMAIN jumps
       PROVE  IF jumps[j].to = l THEN Resolved(j)' /\ ~Resolved(j)
              ELSE (Resolved(j)' <=> Resolved(j)) /\ (Enters(j)' <=> Enters(j))
  <2>1. CASE jumps[j].to = l BY <1>2, <1>3, <1>4, <2>1 DEF Resolved
  <2>2. CASE jumps[j].to # l BY <1>2, <1>5, <1>13, <2>2 DEF Resolved, Enters
  <2> QED BY <2>1, <2>2
<1>15. Remembered' BY <1>0, <1>2, <1>5, <1>13, <1>14 DEF Remembered
<1>16. BackwardResolved' BY <1>0, <1>2, <1>14 DEF BackwardResolved
<1>17. LegalJumpsAccepted'
  <2> SUFFICES ASSUME NEW j \in errors' PROVE Resolved(j)' /\ Enters(j)'
    BY DEF LegalJumpsAccepted
  <2>1. CASE j \in errors
    <3>1. j \in DOMAIN jumps /\ Resolved(j) /\ Enters(j)
      BY <1>0, <2>1 DEF TypeOK, LegalJumpsAccepted
    <3> QED BY <1>14, <3>1
  <2>2. CASE j \notin errors
    <3>1. PICK ref \in labels[l].fwdrefs : ref.jump = j /\ CheckPreviousGoto(ref) BY <1>2, <2>2
    <3>2. j \in DOMAIN jumps /\ jumps[j].to = l BY <1>7, <3>1
    <3>3. PICK i \in 1 .. n : /\ scopes[i].kind \in Guarded
                              /\ \A k \in i .. n : scopes[k].id # ref.level
      BY <1>1, <3>1 DEF CheckPreviousGoto
    <3>4. PICK m \in 1 .. n : /\ scopes[m].id = ref.level
                              /\ \A k \in 1 .. n : k > m => scopes[k] \notin jumps[j].from
      BY <1>0, <1>1, <3>1 DEF Waiting
    <3>5. i > m BY <1>1, <3>3, <3>4
    <3>6. scopes[i] \in ToSet(scopes) \ jumps[j].from BY <1>1, <3>4, <3>5
    <3>7. Enters(j)' BY <1>2, <1>4, <3>2, <3>3, <3>6 DEF Enters
    <3> QED BY <1>14, <3>2, <3>7
  <2> QED BY <2>1, <2>2
<1>18. BackwardJumpsChecked'
  <2>1. errors \subseteq errors' BY <1>2
  <2>2. \A j \in DOMAIN jumps : ~jumps[j].forward => Resolved(j) BY <1>0 DEF BackwardResolved
  <2> QED BY <1>0, <1>2, <1>14, <2>1, <2>2 DEF BackwardJumpsChecked
<1>19. ForwardJumpsChecked'
  <2> SUFFICES ASSUME NEW j \in DOMAIN jumps \ closed, jumps[j].forward, Resolved(j)', Enters(j)'
               PROVE  j \in errors'
    BY <1>2 DEF ForwardJumpsChecked
  <2>1. CASE jumps[j].to # l BY <1>0, <1>2, <1>14, <2>1 DEF ForwardJumpsChecked
  <2>2. CASE jumps[j].to = l
    <3>1. PICK ref \in labels[l].fwdrefs :
              /\ ref.jump = j
              /\ \E m \in DOMAIN scopes :
                  /\ scopes[m].id = ref.level
                  /\ \A k \in DOMAIN scopes : k <= m => scopes[k] \in jumps[j].from
      BY <1>0, <1>14, <2>2 DEF Remembered
    <3>2. PICK m \in 1 .. n : /\ scopes[m].id = ref.level
                              /\ \A k \in 1 .. n : k <= m => scopes[k] \in jumps[j].from
      BY <1>1, <3>1
    <3>3. PICK s \in ToSet(scopes) \ jumps[j].from : s.kind \in Guarded
      BY <1>2, <1>4, <2>2 DEF Enters
    <3>4. PICK i \in 1 .. n : s = scopes[i] BY <1>1, <3>3
    <3>5. i > m BY <3>2, <3>3, <3>4
    <3>6. ASSUME NEW k \in i .. n PROVE scopes[k].id # ref.level
      <4>1. k \in 1 .. n /\ k # m /\ m \in 1 .. n BY <1>1, <3>5
      <4>2. k \in DOMAIN scopes /\ m \in DOMAIN scopes BY <1>1, <4>1
      <4>3. scopes[k].id # scopes[m].id BY <1>0, <4>1, <4>2, Zenon DEF Numbered
      <4> QED BY <3>2, <4>3
    <3>7. CheckPreviousGoto(ref) BY <1>1, <3>3, <3>4, <3>6 DEF CheckPreviousGoto
    <3> QED BY <1>2, <3>1, <3>7
  <2> QED BY <2>1, <2>2
<1> QED BY <1>8, <1>9, <1>10, <1>11, <1>12, <1>15, <1>16, <1>17, <1>18, <1>19 DEF IInv, Bookkeeping
-----------------------------------------------------------------------------
LEMMA StutterKeeps == IInv /\ UNCHANGED vars => IInv'
BY DEF IInv, Bookkeeping, vars, TypeOK, Numbered, Standing, Flagged, Left, Waiting, Remembered,
       BackwardResolved, LegalJumpsAccepted, BackwardJumpsChecked, ForwardJumpsChecked,
       Resolved, Enters

LEMMA StepKeeps == IInv /\ [Next]_vars => IInv'
<1> SUFFICES ASSUME IInv, [Next]_vars PROVE IInv' OBVIOUS
<1>1. CASE \E k \in Kinds : PushLevel(k) BY <1>1, PushKeeps
<1>2. CASE PopLevel BY <1>2, PopKeeps
<1>3. CASE \E l \in Labels : Goto(l) BY <1>3, GotoKeeps
<1>4. CASE \E l \in Labels : DefineLabel(l) BY <1>4, DefineKeeps
<1>5. CASE Done BY <1>5, StutterKeeps DEF Done
<1>6. CASE UNCHANGED vars BY <1>6, StutterKeeps
<1> QED BY <1>1, <1>2, <1>3, <1>4, <1>5, <1>6 DEF Next

LEMMA Invariance == Spec => []IInv
BY InitInvariant, StepKeeps, PTL DEF Spec

(* No legal jump is refused, for any labels, scopes and jumps: whatever      *)
(* check_goto and check_previous_goto report does enter a guarded block.     *)
THEOREM LegalAccepted == Spec => []LegalJumpsAccepted
<1>1. IInv => LegalJumpsAccepted BY DEF IInv
<1> QED BY <1>1, Invariance, PTL

(* A jump back to a label inside a try or catch block that has ended is      *)
(* always reported by check_goto.                                            *)
THEOREM BackwardChecked == Spec => []BackwardJumpsChecked
<1>1. IInv => BackwardJumpsChecked BY DEF IInv
<1> QED BY <1>1, Invariance, PTL

(* So is by check_previous_goto a jump forward into such a block, if no      *)
(* binding level ends between the jump and its label.                        *)
THEOREM ForwardChecked == Spec => []ForwardJumpsChecked
<1>1. IInv => ForwardJumpsChecked BY DEF IInv
<1> QED BY <1>1, Invariance, PTL
=============================================================================
