---------------------------- MODULE TaskPoolProofs ----------------------------
(***************************************************************************)
(* TaskPool for every finite set of workers, clients and tasks: the linked *)
(* list stays a list of tasks that are not started, a task is run once, a  *)
(* pool with tasks has a worker awake, finish drains the queue, and the    *)
(* whole is the FIFO queue of module TaskQueue.                            *)
(***************************************************************************)
EXTENDS TaskPool, FiniteSetTheorems, SequenceTheorems, WellFoundedInduction, TLAPS

-------------------------------------------------------------------------------
(* The doubly linked list.                                                 *)

(* The i-th element of a sequence, Null before the first and after the     *)
(* last: what the pointers of an element are.                              *)
Item(q, i) == IF i \in 1..Len(q) THEN q[i] ELSE Null

Distinct(q) == \A i, j \in 1..Len(q) : q[i] = q[j] => i = j

(* The pointers are a list of the elements of q in their order.            *)
Chain(q) ==
  /\ q \in Seq(Tasks) /\ Distinct(q)
  /\ head = Item(q, 1)
  /\ q # <<>> => tail = Item(q, Len(q))
  /\ \A i \in 1..Len(q) : next[q[i]] = Item(q, i + 1) /\ prev[q[i]] = Item(q, i - 1)
  /\ \A t \in Tasks \ Range(q) : next[t] = Null /\ prev[t] = Null

Pointers ==
  /\ head \in Tasks \cup {Null} /\ tail \in Tasks \cup {Null}
  /\ next \in [Tasks -> Tasks \cup {Null}] /\ prev \in [Tasks -> Tasks \cup {Null}]

(* An element other than the first is some other one's successor, and so   *)
(* on: what the pointers of an element are tells which element it is.      *)
LEMMA ChainFacts ==
  ASSUME NEW q, Chain(q)
  PROVE  /\ Len(q) \in Nat /\ Range(q) \subseteq Tasks
         /\ \A i \in 1..Len(q) : q[i] \in Tasks /\ q[i] # Null /\ q[i] \in Range(q)
         /\ \A t \in Range(q) : \E i \in 1..Len(q) : t = q[i]
         /\ \A i, j \in Int : Item(q, i) = Item(q, j) /\ i \in 1..Len(q) => i = j
         /\ \A i \in Int : Item(q, i) \in Tasks \cup {Null}
         /\ q = <<>> <=> Len(q) = 0
<1>1. /\ q \in Seq(Tasks) /\ Distinct(q) BY DEF Chain
<1>2. Len(q) \in Nat /\ DOMAIN q = 1..Len(q) /\ \A i \in 1..Len(q) : q[i] \in Tasks
  BY <1>1
<1>3. Null \notin Tasks BY TasksAssumption
<1>4. Range(q) = {q[i] : i \in 1..Len(q)} BY <1>2 DEF Range
<1>5. q = <<>> <=> Len(q) = 0 BY <1>1
<1>6. \A i, j \in Int : Item(q, i) = Item(q, j) /\ i \in 1..Len(q) => i = j
  BY <1>1, <1>2, <1>3 DEF Item, Distinct
<1>7. \A i \in Int : Item(q, i) \in Tasks \cup {Null} BY <1>2 DEF Item
<1> QED BY <1>2, <1>3, <1>4, <1>5, <1>6, <1>7

(* popNoSync takes the first one off. *)
LEMMA PopChain ==
  ASSUME Pointers, NEW q, Chain(q), head # Null, PopNoSync
  PROVE  /\ q # <<>> /\ head = Head(q)
         /\ Pointers' /\ Chain(Tail(q))'
<1>1. /\ q \in Seq(Tasks) /\ Distinct(q)
      /\ head = Item(q, 1)
      /\ \A i \in 1..Len(q) : next[q[i]] = Item(q, i + 1) /\ prev[q[i]] = Item(q, i - 1)
      /\ \A t \in Tasks \ Range(q) : next[t] = Null /\ prev[t] = Null
  BY DEF Chain
<1>2. /\ Len(q) \in Nat /\ Range(q) \subseteq Tasks
      /\ \A i \in 1..Len(q) : q[i] \in Tasks /\ q[i] # Null /\ q[i] \in Range(q)
      /\ \A t \in Range(q) : \E i \in 1..Len(q) : t = q[i]
      /\ \A i, j \in Int : Item(q, i) = Item(q, j) /\ i \in 1..Len(q) => i = j
      /\ q = <<>> <=> Len(q) = 0
  BY ChainFacts
<1>3. 1 \in 1..Len(q) /\ head = q[1] /\ q # <<>> BY <1>1, <1>2 DEF Item
<1>4. head \in Tasks /\ next[head] = Item(q, 2) BY <1>1, <1>2, <1>3
<1>5. /\ head' = Item(q, 2) /\ tail' = tail
      /\ \A t \in Tasks : next'[t] = IF t = head THEN Null ELSE next[t]
      /\ \A t \in Tasks :
           prev'[t] = IF t = head \/ t = Item(q, 2) THEN Null ELSE prev[t]
  BY <1>4 DEF PopNoSync, Pointers
<1> DEFINE r == Tail(q)
<1>6. /\ r \in Seq(Tasks) /\ Len(r) = Len(q) - 1
      /\ \A i \in 1..(Len(q) - 1) : r[i] = q[i + 1]
  BY <1>1, <1>2, <1>3
<1>7. head = Head(q)
  <2>1. q \in Seq(Tasks) BY <1>1
  <2>2. Head(q) = q[1] BY <2>1
  <2> QED BY <1>3, <2>2
<1> HIDE DEF r
<1>8. \A i \in 1..Len(q) : Item(r, i) = Item(q, i + 1) BY <1>2, <1>6 DEF Item
<1>9. \A i \in 1..Len(r) : i \in 1..Len(q) /\ i + 1 \in 1..Len(q) /\ r[i] = q[i + 1]
  BY <1>2, <1>6
<1>10. Distinct(r) BY <1>1, <1>9 DEF Distinct
<1>11. head' = Item(r, 1) BY <1>3, <1>5, <1>8
<1>12. r # <<>> => tail' = Item(r, Len(r))
  <2> SUFFICES ASSUME r # <<>> PROVE tail' = Item(r, Len(r)) OBVIOUS
  <2>1. Len(r) \in 1..Len(q) /\ Len(r) + 1 = Len(q) BY <1>2, <1>6
  <2>2. Item(r, Len(r)) = Item(q, Len(q)) BY <1>8, <2>1
  <2> QED BY <1>3, <1>5, <2>2 DEF Chain
<1>13. ASSUME NEW i \in 1..Len(r)
       PROVE  next'[r[i]] = Item(r, i + 1) /\ prev'[r[i]] = Item(r, i - 1)
  <2>1. /\ i \in 1..Len(q) /\ i + 1 \in 1..Len(q) /\ r[i] = q[i + 1] BY <1>9
  <2>2. r[i] \in Tasks /\ r[i] # head BY <1>1, <1>2, <1>3, <2>1 DEF Distinct
  <2>3. next'[r[i]] = Item(q, i + 2)
    <3>1. next[q[i + 1]] = Item(q, i + 1 + 1) BY <1>1, <2>1
    <3>2. i + 1 + 1 = i + 2 BY <2>1
    <3> QED BY <1>5, <2>1, <2>2, <3>1, <3>2
  <2>4. Item(r, i + 1) = Item(q, i + 2)
    <3>1. i + 1 \in 1..Len(q) /\ i + 1 + 1 = i + 2 BY <2>1
    <3> QED BY <1>8, <3>1
  <2>5. CASE i = 1
    <3>1. r[i] = Item(q, 2) BY <2>1, <2>5 DEF Item
    <3>2. Item(r, i - 1) = Null BY <2>5 DEF Item
    <3> QED BY <1>5, <2>2, <2>3, <2>4, <3>1, <3>2
  <2>6. CASE i # 1
    <3>1. r[i] = Item(q, i + 1) BY <2>1 DEF Item
    <3>2. i + 1 # 2 /\ 2 \in Int /\ i + 1 \in Int BY <2>1, <2>6
    <3>3. r[i] # Item(q, 2) BY <1>2, <2>1, <3>1, <3>2
    <3>4. prev[q[i + 1]] = Item(q, i)
      <4>1. i + 1 - 1 = i BY <2>1
      <4> QED BY <1>1, <2>1, <4>1
    <3>5. Item(r, i - 1) = Item(q, i)
      <4>1. i - 1 \in 1..Len(q) /\ i - 1 + 1 = i BY <2>1, <2>6
      <4> QED BY <1>8, <4>1
    <3> QED BY <1>5, <2>1, <2>2, <2>3, <2>4, <3>3, <3>4, <3>5
  <2> QED BY <2>5, <2>6
<1>14. ASSUME NEW t \in Tasks \ Range(r)
       PROVE  next'[t] = Null /\ prev'[t] = Null
  <2>1. CASE t = head BY <1>5, <2>1
  <2>2. CASE t # head
    <3>1. t \notin Range(q)
      <4> SUFFICES ASSUME NEW i \in 1..Len(q), t = q[i] PROVE FALSE BY <1>2
      <4>1. i # 1 BY <1>3, <2>2
      <4>2. i - 1 \in 1..Len(r) /\ i - 1 + 1 = i BY <1>2, <1>6, <4>1
      <4>3. r[i - 1] = t BY <1>9, <4>2
      <4>4. r[i - 1] \in Range(r) BY <1>6, <4>2 DEF Range
      <4> QED BY <4>3, <4>4
    <3> QED BY <1>1, <1>5, <3>1
  <2> QED BY <2>1, <2>2
<1>15. Chain(r)' BY <1>6, <1>10, <1>11, <1>12, <1>13, <1>14 DEF Chain
<1>16. Pointers'
  <2>1. head' \in Tasks \cup {Null} BY <1>4, <1>5 DEF Pointers
  <2>2. next' \in [Tasks -> Tasks \cup {Null}] BY DEF PopNoSync, Pointers
  <2>3. prev' \in [Tasks -> Tasks \cup {Null}] BY DEF PopNoSync, Pointers
  <2> QED BY <1>5, <2>1, <2>2, <2>3 DEF Pointers
<1> QED BY <1>3, <1>7, <1>15, <1>16 DEF r

LEMMA RemoveAtSeq ==
  ASSUME NEW S, NEW q \in Seq(S), NEW n \in 1..Len(q)
  PROVE  /\ RemoveAt(q, n) \in Seq(S)
         /\ Len(RemoveAt(q, n)) = Len(q) - 1
         /\ \A i \in 1..(Len(q) - 1) :
              RemoveAt(q, n)[i] = IF i < n THEN q[i] ELSE q[i + 1]
<1> DEFINE a == SubSeq(q, 1, n - 1)
           b == SubSeq(q, n + 1, Len(q))
<1>1. Len(q) \in Nat /\ n \in Nat /\ n >= 1 /\ n <= Len(q) OBVIOUS
<1>2. a \in Seq(S) /\ Len(a) = n - 1 /\ \A i \in 1..(n - 1) : a[i] = q[i]
  BY <1>1
<1>3. b \in Seq(S) /\ Len(b) = Len(q) - n
      /\ \A i \in 1..(Len(q) - n) : b[i] = q[n + i]
  BY <1>1
<1>4. RemoveAt(q, n) = a \o b BY DEF RemoveAt
<1> HIDE DEF a, b
<1>5. a \o b \in Seq(S) /\ Len(a \o b) = Len(q) - 1
  <2>1. a \o b \in Seq(S) BY <1>2, <1>3
  <2>2. Len(a \o b) = Len(a) + Len(b)
    <3>1. a \in Seq(S) /\ b \in Seq(S) BY <1>2, <1>3
    <3> QED BY <3>1
  <2> QED BY <1>1, <1>2, <1>3, <2>1, <2>2
<1>6. \A i \in 1..(Len(q) - 1) : i < n => (a \o b)[i] = q[i]
  BY <1>1, <1>2, <1>3
<1>7. ASSUME NEW i \in 1..(Len(q) - 1), ~(i < n) PROVE (a \o b)[i] = q[i + 1]
  <2>1. i - (n - 1) \in 1..Len(b) /\ i > Len(a) /\ i <= Len(a) + Len(b)
    BY <1>1, <1>2, <1>3, <1>7
  <2>2. (a \o b)[i] = b[i - Len(a)] BY <1>2, <1>3, <2>1
  <2>3. b[i - (n - 1)] = q[n + (i - (n - 1))] BY <1>3, <2>1
  <2>4. n + (i - (n - 1)) = i + 1 BY <1>1
  <2> QED BY <1>2, <2>2, <2>3, <2>4
<1> QED BY <1>4, <1>5, <1>6, <1>7

(* Item of a list without its k-th element. *)
LEMMA ItemRemoveAt ==
  ASSUME NEW q \in Seq(Tasks), NEW k \in 1..Len(q)
  PROVE  \A i \in Int : Item(RemoveAt(q, k), i) =
                          IF i < k THEN Item(q, i) ELSE Item(q, i + 1)
<1> DEFINE r == RemoveAt(q, k)
<1>1. /\ Len(q) \in Nat /\ Len(r) = Len(q) - 1
      /\ \A i \in 1..(Len(q) - 1) : r[i] = IF i < k THEN q[i] ELSE q[i + 1]
  BY RemoveAtSeq
<1> HIDE DEF r
<1>2. ASSUME NEW i \in Int
      PROVE  Item(r, i) = IF i < k THEN Item(q, i) ELSE Item(q, i + 1)
  <2>1. CASE i \in 1..(Len(q) - 1)
    <3>1. i \in 1..Len(r) /\ i \in 1..Len(q) /\ i + 1 \in 1..Len(q) BY <1>1, <2>1
    <3> QED BY <1>1, <2>1, <3>1 DEF Item
  <2>2. CASE i < 1
    <3>1. i \notin 1..Len(r) /\ i \notin 1..Len(q) /\ i < k BY <1>1, <2>2
    <3> QED BY <3>1 DEF Item
  <2>3. CASE i > Len(q) - 1
    <3>1. i \notin 1..Len(r) /\ i + 1 \notin 1..Len(q) /\ ~(i < k) BY <1>1, <2>3
    <3> QED BY <3>1 DEF Item
  <2> QED BY <1>1, <2>1, <2>2, <2>3
<1> QED BY <1>2 DEF r

(* deleteItemNoSync takes any element out; a task that is in no list it    *)
(* leaves alone.                                                           *)
LEMMA DeleteChain ==
  ASSUME Pointers, NEW q, Chain(q), NEW k \in 2..Len(q), DeleteItemNoSync(q[k])
  PROVE  Pointers' /\ Chain(RemoveAt(q, k))'
<1> DEFINE t == q[k]
           r == RemoveAt(q, k)
<1>1. /\ q \in Seq(Tasks) /\ Distinct(q)
      /\ head = Item(q, 1)
      /\ q # <<>> => tail = Item(q, Len(q))
      /\ \A i \in 1..Len(q) : next[q[i]] = Item(q, i + 1) /\ prev[q[i]] = Item(q, i - 1)
      /\ \A u \in Tasks \ Range(q) : next[u] = Null /\ prev[u] = Null
  BY DEF Chain
<1>2. /\ Len(q) \in Nat /\ Range(q) \subseteq Tasks
      /\ \A i \in 1..Len(q) : q[i] \in Tasks /\ q[i] # Null /\ q[i] \in Range(q)
      /\ \A u \in Range(q) : \E i \in 1..Len(q) : u = q[i]
      /\ \A i, j \in Int : Item(q, i) = Item(q, j) /\ i \in 1..Len(q) => i = j
      /\ \A i \in Int : Item(q, i) \in Tasks \cup {Null}
      /\ q = <<>> <=> Len(q) = 0
  BY ChainFacts
<1>3. /\ k \in 1..Len(q) /\ k - 1 \in 1..Len(q) /\ 1 \in 1..Len(q) /\ k \in Int
      /\ k # 1
  BY <1>2
<1>4. /\ t \in Tasks /\ t = Item(q, k) /\ q # <<>>
      /\ next[t] = Item(q, k + 1) /\ prev[t] = Item(q, k - 1)
  BY <1>1, <1>2, <1>3 DEF Item
<1>5. t # head BY <1>1, <1>2, <1>3, <1>4
<1>6. DeleteItemNoSync(t) OBVIOUS
<1> HIDE DEF t, r
<1>7. /\ head' = Item(q, 1)
      /\ tail' = IF t = tail THEN Item(q, k - 1) ELSE tail
      /\ \A u \in Tasks : next'[u] = IF u = t THEN Null
                                     ELSE IF u = Item(q, k - 1) THEN Item(q, k + 1)
                                     ELSE next[u]
      /\ \A u \in Tasks : prev'[u] = IF u = t THEN Null
                                     ELSE IF u = Item(q, k + 1) THEN Item(q, k - 1)
                                     ELSE prev[u]
  BY <1>1, <1>4, <1>5, <1>6 DEF DeleteItemNoSync
<1>8. /\ r \in Seq(Tasks) /\ Len(r) = Len(q) - 1
      /\ \A i \in 1..(Len(q) - 1) : r[i] = IF i < k THEN q[i] ELSE q[i + 1]
  BY <1>1, <1>3, RemoveAtSeq DEF r
<1>9. \A i \in Int : Item(r, i) = IF i < k THEN Item(q, i) ELSE Item(q, i + 1)
  BY <1>1, <1>3, ItemRemoveAt DEF r
<1>10. Distinct(r)
  <2> SUFFICES ASSUME NEW i \in 1..Len(r), NEW j \in 1..Len(r), r[i] = r[j]
               PROVE  i = j
    BY DEF Distinct
  <2>1. /\ i \in Int /\ j \in Int /\ i \in 1..Len(q) /\ j \in 1..Len(q)
        /\ i + 1 \in 1..Len(q) /\ j + 1 \in 1..Len(q)
        /\ i \in 1..(Len(q) - 1) /\ j \in 1..(Len(q) - 1)
    BY <1>2, <1>8
  <2> DEFINE place(n) == IF n < k THEN n ELSE n + 1
  <2>2. r[i] = q[place(i)] /\ r[j] = q[place(j)] BY <1>8, <2>1
  <2>3. place(i) \in 1..Len(q) /\ place(j) \in 1..Len(q) BY <2>1
  <2>4. place(i) = place(j)
    <3> HIDE DEF place
    <3> QED BY <1>1, <2>2, <2>3 DEF Distinct
  <2> QED BY <1>3, <2>1, <2>4
<1>11. head' = Item(r, 1)
  <2>1. 1 < k BY <1>3
  <2> QED BY <1>7, <1>9, <2>1
<1>12. tail' = Item(r, Len(r))
  <2>1. tail = Item(q, Len(q)) BY <1>1, <1>4
  <2>2. CASE k = Len(q)
    <3>1. Len(r) < k /\ Len(r) = k - 1 /\ Len(r) \in Int BY <1>2, <1>8, <2>2
    <3> QED BY <1>4, <1>7, <1>9, <2>1, <2>2, <3>1
  <2>3. CASE k # Len(q)
    <3>1. ~(Len(r) < k) /\ Len(r) + 1 = Len(q) /\ Len(r) \in Int /\ Len(q) \in Int
      BY <1>2, <1>3, <1>8, <2>3
    <3>2. t # tail BY <1>2, <1>3, <1>4, <2>1, <2>3, <3>1
    <3> QED BY <1>7, <1>9, <2>1, <3>1, <3>2
  <2> QED BY <2>2, <2>3
<1>13. ASSUME NEW i \in 1..Len(r)
       PROVE  next'[r[i]] = Item(r, i + 1) /\ prev'[r[i]] = Item(r, i - 1)
  <2>1. /\ i \in Int /\ i \in 1..Len(q) /\ i + 1 \in 1..Len(q)
        /\ i \in 1..(Len(q) - 1) /\ i + 1 \in Int /\ i - 1 \in Int
        /\ k - 1 \in Int /\ k + 1 \in Int /\ k \in Int
    BY <1>2, <1>3, <1>8
  <2>2. \A n \in 1..Len(q) : /\ q[n] = Item(q, n) /\ q[n] \in Tasks
                             /\ next[q[n]] = Item(q, n + 1)
                             /\ prev[q[n]] = Item(q, n - 1)
    BY <1>1, <1>2 DEF Item
  <2>3. \A n, m \in Int : n \in 1..Len(q) /\ n # m => Item(q, n) # Item(q, m)
    BY <1>2
  <2>4. CASE i < k
    <3>1. r[i] = q[i] /\ r[i] = Item(q, i) /\ r[i] \in Tasks BY <1>8, <2>1, <2>2, <2>4
    <3>2. r[i] # t /\ r[i] # Item(q, k + 1)
      <4>1. i # k /\ i # k + 1 BY <2>1, <2>4
      <4> QED BY <1>4, <2>1, <2>3, <3>1, <4>1
    <3>3. prev'[r[i]] = Item(q, i - 1) BY <1>7, <2>1, <2>2, <3>1, <3>2
    <3>4. Item(r, i - 1) = Item(q, i - 1)
      <4>1. i - 1 < k BY <2>1, <2>4
      <4> QED BY <1>9, <2>1, <4>1
    <3>5. next'[r[i]] = Item(r, i + 1)
      <4>1. CASE i = k - 1
        <5>1. next'[r[i]] = Item(q, k + 1) BY <1>7, <3>1, <3>2, <4>1
        <5>2. ~(i + 1 < k) /\ i + 1 + 1 = k + 1 BY <2>1, <4>1
        <5> QED BY <1>9, <2>1, <5>1, <5>2
      <4>2. CASE i # k - 1
        <5>1. r[i] # Item(q, k - 1) BY <2>1, <2>3, <3>1, <4>2
        <5>2. next'[r[i]] = Item(q, i + 1) BY <1>7, <2>1, <2>2, <3>1, <3>2, <5>1
        <5>3. i + 1 < k BY <2>1, <2>4, <4>2
        <5> QED BY <1>9, <2>1, <5>2, <5>3
      <4> QED BY <4>1, <4>2
    <3> QED BY <3>3, <3>4, <3>5
  <2>5. CASE ~(i < k)
    <3>1. r[i] = q[i + 1] /\ r[i] = Item(q, i + 1) /\ r[i] \in Tasks
      BY <1>8, <2>1, <2>2, <2>5
    <3>2. r[i] # t /\ r[i] # Item(q, k - 1)
      <4>1. i + 1 # k /\ i + 1 # k - 1 BY <2>1, <2>5
      <4> QED BY <1>4, <2>1, <2>3, <3>1, <4>1
    <3>3. next'[r[i]] = Item(q, i + 1 + 1) BY <1>7, <2>1, <2>2, <3>1, <3>2
    <3>4. Item(r, i + 1) = Item(q, i + 1 + 1)
      <4>1. ~(i + 1 < k) BY <2>1, <2>5
      <4> QED BY <1>9, <2>1, <4>1
    <3>5. prev'[r[i]] = Item(r, i - 1)
      <4>1. CASE i = k
        <5>1. prev'[r[i]] = Item(q, k - 1) BY <1>7, <3>1, <3>2, <4>1
        <5>2. i - 1 < k /\ i - 1 = k - 1 BY <2>1, <4>1
        <5> QED BY <1>9, <2>1, <5>1, <5>2
      <4>2. CASE i # k
        <5>1. i + 1 # k + 1 BY <2>1, <4>2
        <5>2. r[i] # Item(q, k + 1) BY <2>1, <2>3, <3>1, <5>1
        <5>3. prev'[r[i]] = Item(q, i + 1 - 1)
          <6>1. prev[q[i + 1]] = Item(q, i + 1 - 1) BY <2>1, <2>2
          <6>2. prev'[r[i]] = prev[r[i]] BY <1>7, <3>1, <3>2, <5>2
          <6> QED BY <3>1, <6>1, <6>2
        <5>4. ~(i - 1 < k) /\ i - 1 + 1 = i + 1 - 1 BY <2>1, <2>5, <4>2
        <5> QED BY <1>9, <2>1, <5>3, <5>4
      <4> QED BY <4>1, <4>2
    <3> QED BY <3>3, <3>4, <3>5
  <2> QED BY <2>4, <2>5
<1>14. ASSUME NEW u \in Tasks \ Range(r)
       PROVE  next'[u] = Null /\ prev'[u] = Null
  <2>1. CASE u = t BY <1>7, <2>1
  <2>2. CASE u # t
    <3>1. u \notin Range(q)
      <4> SUFFICES ASSUME NEW i \in 1..Len(q), u = q[i] PROVE FALSE BY <1>2
      <4>1. i # k BY <2>2 DEF t
      <4>2. DOMAIN r = 1..Len(r) /\ Len(r) = Len(q) - 1 BY <1>8
      <4>3. CASE i < k
        <5>1. i \in 1..(Len(q) - 1) BY <1>2, <1>3, <4>3
        <5>2. r[i] = u BY <1>8, <4>3, <5>1
        <5>3. r[i] \in Range(r) BY <4>2, <5>1 DEF Range
        <5> QED BY <5>2, <5>3
      <4>4. CASE i > k
        <5>1. i - 1 \in 1..(Len(q) - 1) /\ ~(i - 1 < k) /\ i - 1 + 1 = i
          BY <1>2, <1>3, <4>4
        <5>2. r[i - 1] = u BY <1>8, <5>1
        <5>3. r[i - 1] \in Range(r) BY <4>2, <5>1 DEF Range
        <5> QED BY <5>2, <5>3
      <4> QED BY <1>3, <4>1, <4>3, <4>4
    <3>2. u # Item(q, k - 1)
      <4>1. Item(q, k - 1) \in Range(q) BY <1>2, <1>3 DEF Item
      <4> QED BY <3>1, <4>1
    <3>3. u # Item(q, k + 1)
      <4>1. Item(q, k + 1) = Null \/ Item(q, k + 1) \in Range(q) BY <1>2 DEF Item
      <4> QED BY <3>1, <4>1, TasksAssumption
    <3> QED BY <1>1, <1>7, <2>2, <3>1, <3>2, <3>3
  <2> QED BY <2>1, <2>2
<1>15. Chain(r)' BY <1>8, <1>10, <1>11, <1>12, <1>13, <1>14 DEF Chain
<1>16. Pointers'
  <2>1. /\ head' \in Tasks \cup {Null}
        /\ tail' \in Tasks \cup {Null}
    <3>1. /\ Item(q, 1) \in Tasks \cup {Null} /\ Item(q, k - 1) \in Tasks \cup {Null}
      BY <1>2, <1>3
    <3> QED BY <1>7, <3>1 DEF Pointers
  <2>2. next[t] \in Tasks \cup {Null} /\ prev[t] \in Tasks \cup {Null}
    BY <1>4 DEF Pointers
  <2>3. /\ next' \in [Tasks -> Tasks \cup {Null}] /\ prev' \in [Tasks -> Tasks \cup {Null}]
    BY <1>5, <1>6, <2>2 DEF DeleteItemNoSync, Pointers
  <2> QED BY <2>1, <2>3 DEF Pointers
<1> QED BY <1>15, <1>16 DEF r

LEMMA DeleteStranger ==
  ASSUME Pointers, NEW q, Chain(q), NEW t \in Tasks \ Range(q), DeleteItemNoSync(t)
  PROVE  Pointers' /\ Chain(q)'
<1>1. /\ q \in Seq(Tasks) /\ Distinct(q)
      /\ head = Item(q, 1)
      /\ q # <<>> => tail = Item(q, Len(q))
      /\ \A i \in 1..Len(q) : next[q[i]] = Item(q, i + 1) /\ prev[q[i]] = Item(q, i - 1)
      /\ \A u \in Tasks \ Range(q) : next[u] = Null /\ prev[u] = Null
  BY DEF Chain
<1>2. /\ Len(q) \in Nat /\ Range(q) \subseteq Tasks
      /\ \A i \in 1..Len(q) : q[i] \in Tasks /\ q[i] # Null /\ q[i] \in Range(q)
      /\ q = <<>> <=> Len(q) = 0
  BY ChainFacts
<1>3. Null \notin Tasks BY TasksAssumption
<1>4. \A i \in Int : Item(q, i) \in Range(q) \cup {Null} BY <1>2 DEF Item
<1>5. t # head BY <1>1, <1>3, <1>4
<1>6. next[t] = Null /\ prev[t] = Null BY <1>1
<1>7. /\ head' = head
      /\ tail' = IF t = tail THEN Null ELSE tail
      /\ \A u \in Tasks : next'[u] = next[u] /\ prev'[u] = prev[u]
  BY <1>3, <1>5, <1>6 DEF DeleteItemNoSync
<1>8. q # <<>> => tail' = Item(q, Len(q))
  <2> SUFFICES ASSUME q # <<>> PROVE tail' = Item(q, Len(q)) OBVIOUS
  <2>1. tail = Item(q, Len(q)) /\ Len(q) \in Int BY <1>1, <1>2
  <2>2. t # tail BY <1>3, <1>4, <2>1
  <2> QED BY <1>7, <2>1, <2>2
<1>9. Chain(q)' BY <1>1, <1>2, <1>7, <1>8 DEF Chain
<1>10. Pointers'
  <2>1. /\ next' \in [Tasks -> Tasks \cup {Null}] /\ prev' \in [Tasks -> Tasks \cup {Null}]
    BY <1>5, <1>6 DEF DeleteItemNoSync, Pointers
  <2> QED BY <1>7, <2>1 DEF Pointers
<1> QED BY <1>9, <1>10

(* put and the put of a group append. *)
LEMMA EnqueueChain ==
  ASSUME Pointers, NEW q, Chain(q), NEW g \in Seq(Tasks), g # <<>>, Distinct(g),
         Range(g) \cap Range(q) = {}, Enqueue(g)
  PROVE  Pointers' /\ Chain(q \o g)'
<1> DEFINE s == q \o g
           n == Len(q)
           before == IF head = Null THEN Null ELSE tail
           Index(t) == CHOOSE i \in DOMAIN g : g[i] = t
<1>1. /\ q \in Seq(Tasks) /\ Distinct(q)
      /\ head = Item(q, 1)
      /\ q # <<>> => tail = Item(q, Len(q))
      /\ \A i \in 1..Len(q) : next[q[i]] = Item(q, i + 1) /\ prev[q[i]] = Item(q, i - 1)
      /\ \A t \in Tasks \ Range(q) : next[t] = Null /\ prev[t] = Null
  BY DEF Chain
<1>2. /\ n \in Nat /\ Range(q) \subseteq Tasks
      /\ \A i \in 1..n : q[i] \in Tasks /\ q[i] # Null /\ q[i] \in Range(q)
      /\ \A t \in Range(q) : \E i \in 1..n : t = q[i]
      /\ \A i, j \in Int : Item(q, i) = Item(q, j) /\ i \in 1..n => i = j
      /\ q = <<>> <=> n = 0
  BY ChainFacts
<1>3. /\ Len(g) \in Nat /\ Len(g) > 0 /\ DOMAIN g = 1..Len(g)
      /\ \A j \in 1..Len(g) : g[j] \in Tasks /\ g[j] \in Range(g)
      /\ \A t \in Range(g) : \E j \in 1..Len(g) : t = g[j]
  <2>1. Len(g) \in Nat /\ DOMAIN g = 1..Len(g) /\ \A j \in 1..Len(g) : g[j] \in Tasks
    OBVIOUS
  <2>2. Len(g) # 0 BY EmptySeq
  <2>3. Range(g) = {g[j] : j \in 1..Len(g)} BY <2>1 DEF Range
  <2> QED BY <2>1, <2>2, <2>3
<1>0. Len(g) \in Int /\ Len(g) >= 1 /\ n \in Int /\ n >= 0 BY <1>2, <1>3
<1>4. /\ s \in Seq(Tasks) /\ Len(s) = n + Len(g)
      /\ \A i \in 1..(n + Len(g)) : s[i] = IF i <= n THEN q[i] ELSE g[i - n]
  BY <1>1, ConcatProperties
<1>5. before = Item(q, n)
  <2>1. CASE n = 0
    <3>1. head = Null /\ Item(q, n) = Null BY <1>1, <2>1 DEF Item
    <3> QED BY <3>1
  <2>2. CASE n # 0
    <3>1. 1 \in 1..n /\ q # <<>> BY <1>2, <2>2
    <3>2. head # Null BY <1>1, <1>2, <3>1 DEF Item
    <3> QED BY <1>1, <3>1, <3>2
  <2> QED BY <2>1, <2>2
<1>6. \A j \in 1..Len(g) : Index(g[j]) = j
  <2> SUFFICES ASSUME NEW j \in 1..Len(g) PROVE Index(g[j]) = j OBVIOUS
  <2>1. Index(g[j]) \in DOMAIN g /\ g[Index(g[j])] = g[j] BY <1>3
  <2> HIDE DEF Index
  <2> QED BY <1>3, <2>1 DEF Distinct
<1>7. /\ \A t \in Range(Front(g)) : \E j \in 1..(Len(g) - 1) : t = g[j]
      /\ \A j \in 1..(Len(g) - 1) : g[j] \in Range(Front(g))
      /\ g[Len(g)] \notin Range(Front(g))
  <2>1. Len(Front(g)) = Len(g) - 1 /\ DOMAIN Front(g) = 1..(Len(g) - 1)
        /\ \A j \in 1..(Len(g) - 1) : Front(g)[j] = g[j]
    BY <1>3 DEF Front
  <2>2. Range(Front(g)) = {g[j] : j \in 1..(Len(g) - 1)} BY <2>1 DEF Range
  <2>3. \A j \in 1..(Len(g) - 1) : j \in 1..Len(g) /\ j # Len(g) /\ Len(g) \in 1..Len(g)
    BY <1>0
  <2> QED BY <2>2, <2>3 DEF Distinct
<1>8. /\ \A t \in Range(Tail(g)) : \E j \in 2..Len(g) : t = g[j]
      /\ \A j \in 2..Len(g) : g[j] \in Range(Tail(g))
      /\ g[1] \notin Range(Tail(g))
  <2>1. Len(Tail(g)) = Len(g) - 1 /\ DOMAIN Tail(g) = 1..(Len(g) - 1)
        /\ \A j \in 1..(Len(g) - 1) : Tail(g)[j] = g[j + 1]
    <3>1. Tail(g) \in Seq(Tasks) /\ Len(Tail(g)) = Len(g) - 1 BY <1>3, HeadTailProperties
    <3>2. \A j \in 1..Len(Tail(g)) : Tail(g)[j] = g[j + 1] BY HeadTailProperties
    <3> QED BY <3>1, <3>2
  <2>2. Range(Tail(g)) = {g[j + 1] : j \in 1..(Len(g) - 1)} BY <2>1 DEF Range
  <2>3. \A j \in 1..(Len(g) - 1) : j + 1 \in 2..Len(g) BY <1>3
  <2>4. \A j \in 2..Len(g) : j - 1 \in 1..(Len(g) - 1) /\ j = (j - 1) + 1 BY <1>3
  <2>5. \A j \in 2..Len(g) : j \in 1..Len(g) /\ 1 \in 1..Len(g) /\ j # 1 BY <1>3
  <2>6. \A t \in Range(Tail(g)) : \E j \in 2..Len(g) : t = g[j] BY <2>2, <2>3
  <2>7. \A j \in 2..Len(g) : g[j] \in Range(Tail(g)) BY <2>2, <2>4
  <2>8. \A j \in 2..Len(g) : g[j] # g[1] BY <2>5 DEF Distinct
  <2> QED BY <2>6, <2>7, <2>8
<1>9. Last(g) = g[Len(g)] BY DEF Last
<1>10. /\ head' = IF head = Null THEN g[1] ELSE head
       /\ tail' = g[Len(g)]
       /\ \A t \in Tasks : next'[t] =
            IF t \in Range(Front(g)) THEN g[Index(t) + 1]
            ELSE IF t = g[Len(g)] THEN Null
            ELSE IF t = before THEN g[1] ELSE next[t]
       /\ \A t \in Tasks : prev'[t] =
            IF t \in Range(Tail(g)) THEN g[Index(t) - 1]
            ELSE IF t = g[1] THEN before ELSE prev[t]
       /\ DOMAIN next' = Tasks /\ DOMAIN prev' = Tasks
       /\ next' = [t \in Tasks |-> next'[t]] /\ prev' = [t \in Tasks |-> prev'[t]]
  BY <1>9 DEF Enqueue
<1> HIDE DEF s, before, Index, n
<1>11. \A i \in 1..n : q[i] \notin Range(g) BY <1>2
<1>12. Distinct(s)
  <2> SUFFICES ASSUME NEW i \in 1..Len(s), NEW j \in 1..Len(s), s[i] = s[j]
               PROVE  i = j
    BY DEF Distinct
  <2>1. i \in 1..(n + Len(g)) /\ j \in 1..(n + Len(g)) BY <1>4
  <2>2. CASE i <= n /\ j <= n
    <3>1. i \in 1..Len(q) /\ j \in 1..Len(q) BY <1>2, <2>1, <2>2 DEF n
    <3> QED BY <1>1, <1>4, <2>1, <2>2, <3>1 DEF Distinct
  <2>3. CASE i > n /\ j > n
    <3>1. i - n \in 1..Len(g) /\ j - n \in 1..Len(g) BY <1>2, <1>3, <2>1, <2>3
    <3>2. s[i] = g[i - n] /\ s[j] = g[j - n] BY <1>2, <1>4, <2>1, <2>3
    <3>3. i - n = j - n BY <3>1, <3>2 DEF Distinct
    <3> QED BY <1>2, <2>1, <3>3
  <2>4. CASE i <= n /\ j > n
    <3>1. i \in 1..n /\ j - n \in 1..Len(g) BY <1>2, <1>3, <2>1, <2>4
    <3>2. s[i] = q[i] /\ s[j] = g[j - n] BY <1>2, <1>4, <2>1, <2>4
    <3> QED BY <1>3, <1>11, <3>1, <3>2
  <2>5. CASE i > n /\ j <= n
    <3>1. j \in 1..n /\ i - n \in 1..Len(g) BY <1>2, <1>3, <2>1, <2>5
    <3>2. s[j] = q[j] /\ s[i] = g[i - n] BY <1>2, <1>4, <2>1, <2>5
    <3> QED BY <1>3, <1>11, <3>1, <3>2
  <2> QED BY <1>2, <2>1, <2>2, <2>3, <2>4, <2>5
<1>13. /\ \A i \in Int : i <= n => Item(s, i) = Item(q, i)
       /\ \A j \in 1..Len(g) : Item(s, n + j) = g[j] /\ n + j \in 1..Len(s)
       /\ Item(s, n + Len(g) + 1) = Null
  <2>1. \A i \in Int : i <= n => Item(s, i) = Item(q, i)
    BY <1>2, <1>3, <1>4 DEF Item, n
  <2>2. \A j \in 1..Len(g) : n + j \in 1..Len(s) /\ ~(n + j <= n) /\ n + j - n = j
    BY <1>2, <1>3, <1>4
  <2>3. ASSUME NEW j \in 1..Len(g) PROVE Item(s, n + j) = g[j]
    <3>1. n + j \in 1..Len(s) /\ ~(n + j <= n) /\ n + j - n = j BY <2>2
    <3>2. s[n + j] = g[j]
      <4>1. PICK i \in 1..(n + Len(g)) : i = n + j BY <1>4, <3>1
      <4>2. s[i] = IF i <= n THEN q[i] ELSE g[i - n] BY <1>4
      <4>3. ~(i <= n) /\ i - n = j BY <1>0, <4>1
      <4>4. s[i] = g[j] BY <4>2, <4>3
      <4> QED BY <4>1, <4>4
    <3> QED BY <3>1, <3>2 DEF Item
  <2>4. n + Len(g) + 1 \notin 1..Len(s) BY <1>2, <1>3, <1>4
  <2> QED BY <2>1, <2>2, <2>3, <2>4 DEF Item
<1>14. head' = Item(s, 1)
  <2>1. CASE n = 0
    <3>1. head = Null BY <1>1, <2>1 DEF Item, n
    <3>2. 1 \in 1..Len(g) /\ n + 1 = 1 BY <1>3, <2>1
    <3> QED BY <1>10, <1>13, <3>1, <3>2
  <2>2. CASE n # 0
    <3>1. 1 \in 1..n /\ 1 <= n /\ 1 \in Int BY <1>2, <2>2
    <3>2. head # Null BY <1>1, <1>2, <3>1 DEF Item, n
    <3> QED BY <1>1, <1>10, <1>13, <3>1, <3>2
  <2> QED BY <2>1, <2>2
<1>15. tail' = Item(s, Len(s))
  <2>1. Len(g) \in 1..Len(g) BY <1>3
  <2> QED BY <1>4, <1>10, <1>13, <2>1
<1>16. ASSUME NEW i \in 1..Len(s)
       PROVE  next'[s[i]] = Item(s, i + 1) /\ prev'[s[i]] = Item(s, i - 1)
  <2>1. i \in 1..(n + Len(g)) /\ i \in Int BY <1>4
  <2>2. CASE i <= n
    <3>1. i \in 1..n /\ s[i] = q[i] /\ q[i] \in Tasks /\ s[i] \notin Range(g)
      BY <1>2, <1>4, <1>11, <2>1, <2>2
    <3>2. s[i] \notin Range(Front(g)) /\ s[i] \notin Range(Tail(g))
          /\ s[i] # g[Len(g)] /\ s[i] # g[1]
      <4>1. /\ \A j \in 1..(Len(g) - 1) : j \in 1..Len(g)
            /\ \A j \in 2..Len(g) : j \in 1..Len(g)
            /\ 1 \in 1..Len(g) /\ Len(g) \in 1..Len(g)
        BY <1>3
      <4> QED BY <1>3, <1>7, <1>8, <3>1, <4>1
    <3>3. prev'[s[i]] = Item(q, i - 1) BY <1>1, <1>10, <3>1, <3>2 DEF n
    <3>4. Item(s, i - 1) = Item(q, i - 1)
      <4>1. i - 1 \in Int /\ i - 1 <= n BY <1>2, <2>1, <2>2
      <4> QED BY <1>13, <4>1
    <3>5. CASE i = n
      <4>1. s[i] = before BY <1>5, <3>1, <3>5 DEF Item, n
      <4>2. next'[s[i]] = g[1] BY <1>10, <3>1, <3>2, <4>1
      <4>3. 1 \in 1..Len(g) BY <1>3
      <4> QED BY <1>13, <3>3, <3>4, <3>5, <4>2, <4>3
    <3>6. CASE i # n
      <4>1. s[i] # before
        <5>1. s[i] = Item(q, i) BY <3>1 DEF Item, n
        <5>2. n \in Int BY <1>2
        <5> QED BY <1>2, <1>5, <2>1, <3>1, <3>6, <5>1, <5>2
      <4>2. next'[s[i]] = Item(q, i + 1) BY <1>1, <1>10, <3>1, <3>2, <4>1 DEF n
      <4>3. i + 1 \in Int /\ i + 1 <= n BY <1>2, <2>1, <2>2, <3>6
      <4> QED BY <1>13, <3>3, <3>4, <4>2, <4>3
    <3> QED BY <3>5, <3>6
  <2>3. CASE i > n
    <3>1. PICK j \in 1..Len(g) : j = i - n BY <1>2, <1>3, <2>1, <2>3
    <3>2. s[i] = g[j] /\ i = n + j /\ g[j] \in Tasks /\ j \in Int
      BY <1>2, <1>3, <1>4, <2>1, <2>3, <3>1
    <3>3. next'[s[i]] = Item(s, i + 1)
      <4>1. CASE j = Len(g)
        <5>1. next'[s[i]] = Null BY <1>7, <1>10, <3>2, <4>1
        <5> QED BY <1>13, <3>2, <4>1, <5>1
      <4>2. CASE j # Len(g)
        <5>1. j \in 1..(Len(g) - 1) /\ j + 1 \in 1..Len(g) /\ n + (j + 1) = i + 1
          <6>1. j \in 1..Len(g) /\ i = n + j /\ j # Len(g) BY <3>2, <4>2
          <6> QED BY <1>0, <6>1
        <5>2. g[j] \in Range(Front(g)) BY <1>7, <5>1
        <5>3. next'[s[i]] = g[Index(g[j]) + 1] BY <1>10, <3>2, <5>2
        <5>4. next'[s[i]] = g[j + 1] BY <1>6, <5>3
        <5> QED BY <1>13, <5>1, <5>4
      <4> QED BY <4>1, <4>2
    <3>4. prev'[s[i]] = Item(s, i - 1)
      <4>1. CASE j = 1
        <5>1. prev'[s[i]] = Item(q, n) BY <1>5, <1>8, <1>10, <3>2, <4>1
        <5>2. i - 1 = n /\ n \in Int /\ n <= n BY <1>2, <3>2, <4>1
        <5> QED BY <1>13, <5>1, <5>2
      <4>2. CASE j # 1
        <5>1. j \in 2..Len(g) /\ j - 1 \in 1..Len(g) /\ n + (j - 1) = i - 1
          BY <1>2, <1>3, <3>2, <4>2
        <5>2. g[j] \in Range(Tail(g)) BY <1>8, <5>1
        <5>3. prev'[s[i]] = g[Index(g[j]) - 1] BY <1>10, <3>2, <5>2
        <5>4. prev'[s[i]] = g[j - 1] BY <1>6, <5>3
        <5> QED BY <1>13, <5>1, <5>4
      <4> QED BY <4>1, <4>2
    <3> QED BY <3>3, <3>4
  <2> QED BY <1>2, <2>1, <2>2, <2>3
<1>17. ASSUME NEW t \in Tasks \ Range(s)
       PROVE  next'[t] = Null /\ prev'[t] = Null
  <2>1. DOMAIN s = 1..Len(s) BY <1>4
  <2>2. t \notin Range(g)
    <3> SUFFICES ASSUME NEW j \in 1..Len(g), t = g[j] PROVE FALSE BY <1>3
    <3>1. n + j \in DOMAIN s /\ s[n + j] = t BY <1>13, <2>1 DEF Item
    <3> QED BY <3>1 DEF Range
  <2>3. t \notin Range(q)
    <3> SUFFICES ASSUME NEW i \in 1..n, t = q[i] PROVE FALSE BY <1>2
    <3>1. i \in DOMAIN s /\ i \in 1..(n + Len(g)) /\ i <= n BY <1>2, <1>3, <1>4, <2>1
    <3>2. s[i] = t BY <1>4, <3>1
    <3> QED BY <3>1, <3>2 DEF Range
  <2>4. t \notin Range(Front(g)) /\ t \notin Range(Tail(g)) /\ t # g[Len(g)] /\ t # g[1]
    <3>1. /\ \A j \in 1..(Len(g) - 1) : j \in 1..Len(g)
          /\ \A j \in 2..Len(g) : j \in 1..Len(g)
          /\ 1 \in 1..Len(g) /\ Len(g) \in 1..Len(g)
      BY <1>0
    <3>2. t # g[Len(g)] /\ t # g[1] BY <1>3, <2>2, <3>1
    <3>3. t \notin Range(Front(g)) BY <1>3, <1>7, <2>2, <3>1
    <3>4. t \notin Range(Tail(g)) BY <1>3, <1>8, <2>2, <3>1
    <3> QED BY <3>2, <3>3, <3>4
  <2>5. t # before
    <3>1. before = Null \/ before \in Range(q) BY <1>2, <1>5 DEF Item, n
    <3> QED BY <2>3, <3>1, TasksAssumption
  <2> QED BY <1>1, <1>10, <2>3, <2>4, <2>5
<1>18. Chain(s)' BY <1>4, <1>12, <1>14, <1>15, <1>16, <1>17 DEF Chain
<1>19. Pointers'
  <2>1. 1 \in 1..Len(g) /\ Len(g) \in 1..Len(g) BY <1>3
  <2>2. head' \in Tasks \cup {Null} /\ tail' \in Tasks \cup {Null}
    BY <1>3, <1>10, <2>1 DEF Pointers
  <2>3. \A t \in Tasks : next'[t] \in Tasks \cup {Null} /\ prev'[t] \in Tasks \cup {Null}
    <3> SUFFICES ASSUME NEW t \in Tasks
                 PROVE  next'[t] \in Tasks \cup {Null} /\ prev'[t] \in Tasks \cup {Null}
      OBVIOUS
    <3>1. CASE t \in Range(s)
      <4>1. DOMAIN s = 1..Len(s) BY <1>4
      <4>2. PICK i \in 1..Len(s) : t = s[i] BY <3>1, <4>1 DEF Range
      <4>3. \A j \in Int : Item(s, j) \in Tasks \cup {Null} BY <1>4 DEF Item
      <4>4. i + 1 \in Int /\ i - 1 \in Int BY <4>2
      <4> QED BY <1>16, <4>2, <4>3, <4>4
    <3>2. CASE t \notin Range(s) BY <1>17, <3>2
    <3> QED BY <3>1, <3>2
  <2> QED BY <1>10, <2>2, <2>3 DEF Pointers
<1> QED BY <1>18, <1>19 DEF s

(* Every nonempty set of numbers has a least element: the library states   *)
(* that < is well founded as a fact about a set of pairs.                  *)
LEMMA LeastElement ==
  ASSUME NEW T \in SUBSET Nat, T # {}
  PROVE  \E n \in T : \A m \in T : n <= m
<1> DEFINE R == OpToRel(<, Nat)
<1>1. \A x, y \in Nat : x < y => <<x, y>> \in R BY DEF OpToRel
<1>2. IsWellFoundedOn(R, Nat) BY NatLessThanWellFounded
<1> HIDE DEF R
<1>3. PICK x \in T : \A y \in T : <<y, x>> \notin R BY <1>2, WFMin
<1>4. \A y \in T : ~(y < x) BY <1>1, <1>3
<1> QED BY <1>4

LEMMA CardinalityOfInterval ==
  ASSUME NEW n \in Nat
  PROVE  Cardinality(1..n) = n
<1>1. 1 \in Int /\ n \in Int OBVIOUS
<1>2. Cardinality(1..n) = IF 1 > n THEN 0 ELSE n - 1 + 1 BY <1>1, FS_Interval
<1> QED BY <1>2

(* What one finds when one follows next from head. *)
LEMMA QueueIsChain == Pointers => \A q : Chain(q) => Queue = q
<1> SUFFICES ASSUME Pointers, NEW q, Chain(q) PROVE Queue = q OBVIOUS
<1> DEFINE N == Cardinality(Tasks)
           Walk(f) == [i \in 1..N |->
                         IF i = 1 THEN head
                         ELSE IF f[i - 1] = Null THEN Null ELSE next[f[i - 1]]]
           ith == CHOOSE f : f = Walk(f)
           Length(f) == Cardinality({i \in DOMAIN f : f[i] # Null})
<1>1. Queue = [i \in 1..Length(ith) |-> ith[i]] BY DEF Queue
<1>2. /\ q \in Seq(Tasks) /\ Distinct(q)
      /\ head = Item(q, 1)
      /\ \A i \in 1..Len(q) : next[q[i]] = Item(q, i + 1)
  BY DEF Chain
<1>3. /\ Len(q) \in Nat
      /\ \A i \in 1..Len(q) : q[i] \in Tasks /\ q[i] # Null
  BY ChainFacts
<1>4. N \in Nat /\ Len(q) <= N
  <2>1. IsFiniteSet(Tasks) BY TasksAssumption
  <2>2. q \in [1..Len(q) -> Tasks] BY <1>2
  <2>3. q \in Injection(1..Len(q), Tasks) BY <1>2, <2>2 DEF Injection, IsInjective, Distinct
  <2>4. Cardinality(1..Len(q)) <= N BY <2>1, <2>3, FS_Injection
  <2>5. Cardinality(1..Len(q)) = Len(q) BY <1>3, CardinalityOfInterval
  <2> QED BY <2>1, <2>4, <2>5, FS_CardinalityType
<1> HIDE DEF N
<1>5. PICK f : /\ f = Walk(f) /\ DOMAIN f = 1..N
               /\ \A i \in 1..N : f[i] = Item(q, i)
  <2> DEFINE g == [i \in 1..N |-> Item(q, i)]
             Walked(i) == IF i = 1 THEN head
                          ELSE IF g[i - 1] = Null THEN Null ELSE next[g[i - 1]]
  <2>1. DOMAIN g = 1..N /\ \A i \in 1..N : g[i] = Item(q, i) OBVIOUS
  <2>2. \A i \in 1..N : g[i] = Walked(i)
    <3> SUFFICES ASSUME NEW i \in 1..N PROVE g[i] = Walked(i) OBVIOUS
    <3> HIDE DEF g
    <3>1. CASE i = 1 BY <1>2, <2>1, <3>1
    <3>2. CASE i # 1
      <4>1. i - 1 \in 1..N /\ i - 1 \in Int /\ i - 1 + 1 = i BY <1>4, <3>2
      <4>2. g[i - 1] = Item(q, i - 1) /\ g[i] = Item(q, i) BY <2>1, <4>1
      <4>3. CASE i - 1 \in 1..Len(q)
        <5>1. g[i - 1] = q[i - 1] /\ q[i - 1] # Null BY <1>3, <4>2, <4>3 DEF Item
        <5>2. next[q[i - 1]] = Item(q, i - 1 + 1) BY <1>2, <4>3
        <5> QED BY <3>2, <4>1, <4>2, <5>1, <5>2
      <4>4. CASE i - 1 \notin 1..Len(q)
        <5>1. i \notin 1..Len(q) BY <1>3, <4>1, <4>4
        <5>2. g[i - 1] = Null /\ g[i] = Null BY <4>2, <4>4, <5>1 DEF Item
        <5> QED BY <3>2, <5>2
      <4> QED BY <4>3, <4>4
    <3> QED BY <3>1, <3>2
  <2>3. g = Walk(g) BY <2>2
  <2> HIDE DEF g
  <2> QED BY <2>1, <2>3
<1>6. ith = Walk(ith) BY <1>5
<1> HIDE DEF ith
<1>7. DOMAIN ith = 1..N BY <1>6
<1>8. \A i \in 1..N : ith[i] = f[i]
  <2> SUFFICES ASSUME \E i \in 1..N : ith[i] # f[i] PROVE FALSE OBVIOUS
  <2> DEFINE T == {i \in 1..N : ith[i] # f[i]}
  <2>1. T \in SUBSET Nat /\ T # {} BY <1>4
  <2>2. PICK i \in T : \A j \in T : i <= j BY <2>1, LeastElement
  <2>3. i \in 1..N /\ ith[i] # f[i] BY <2>2
  <2>4. /\ ith[i] = IF i = 1 THEN head
                    ELSE IF ith[i - 1] = Null THEN Null ELSE next[ith[i - 1]]
        /\ f[i] = IF i = 1 THEN head
                  ELSE IF f[i - 1] = Null THEN Null ELSE next[f[i - 1]]
    BY <1>5, <1>6, <2>3
  <2>5. i # 1 BY <2>3, <2>4
  <2>6. i - 1 \in 1..N /\ ~(i <= i - 1) BY <1>4, <2>3, <2>5
  <2>7. ith[i - 1] = f[i - 1] BY <2>2, <2>6
  <2> QED BY <2>3, <2>4, <2>7
<1>9. {i \in DOMAIN ith : ith[i] # Null} = 1..Len(q)
  <2>1. \A i \in 1..N : ith[i] # Null <=> i \in 1..Len(q)
    BY <1>3, <1>5, <1>8 DEF Item
  <2>2. \A i \in 1..Len(q) : i \in 1..N BY <1>3, <1>4
  <2> QED BY <1>7, <2>1, <2>2
<1>10. Length(ith) = Len(q) BY <1>3, <1>9, CardinalityOfInterval
<1>11. \A i \in 1..Len(q) : ith[i] = q[i]
  <2>1. \A i \in 1..Len(q) : i \in 1..N BY <1>3, <1>4
  <2> QED BY <1>5, <1>8, <2>1 DEF Item
<1>12. q = [i \in 1..Len(q) |-> q[i]] BY <1>2
<1> HIDE DEF Length
<1> QED BY <1>1, <1>10, <1>11, <1>12

-------------------------------------------------------------------------------
(* The invariant.                                                          *)

Active == {"own", "ownRun", "job", "jobRun"}
InLoop == {"loop", "pop", "drained"}
WorkerAt == InLoop \cup {"job", "jobRun", "notify", "gone"}
ClientAt == InLoop \cup {"idle", "put", "own", "ownRun", "force", "await", "workPop", "job",
                         "jobRun", "notify", "join"}
Operations == {"none", "spinForce", "yieldForce", "workForce", "finish"}

(* The tasks whose put has returned, or thrown. *)
Submitted == pooled \ BeingPut

(* Where the threads can be: a client is in the loop of the workers only   *)
(* when it has called finish, and so when the pool does not run any more.  *)
Control ==
  /\ pc \in [Threads -> WorkerAt \cup ClientAt] /\ call \in [Threads -> Operations]
  /\ goal \in [Threads -> Tasks \cup {Null}] /\ job \in [Threads -> Tasks \cup {Null}]
  /\ sleepers \subseteq Threads /\ waiters \subseteq Threads
  /\ \A w \in Workers : pc[w] \in WorkerAt /\ call[w] = "none"
  /\ \A c \in Clients :
       /\ pc[c] \in ClientAt
       /\ pc[c] = "workPop" => call[c] = "workForce"
       /\ pc[c] \in InLoop \cup {"join"} => status # "running"
       /\ pc[c] \in {"job", "jobRun", "notify"} /\ call[c] # "workForce" =>
            status # "running"

(* A client that is about to queue tasks has set their pool, and no other  *)
(* client puts them.                                                       *)
InPut ==
  /\ putting \in [Clients -> Groups \cup {<<>>}]
  /\ \A c \in Clients :
       /\ pc[c] = "put" <=> putting[c] # <<>>
       /\ Range(putting[c]) \subseteq pooled
       /\ \A d \in Clients \ {c} : Range(putting[c]) \cap Range(putting[d]) = {}

(* A thread that has taken a task has it for itself, and has run it at     *)
(* most once.                                                              *)
Jobs ==
  /\ \A t \in Threads : pc[t] \in Active =>
       /\ job[t] \in Tasks /\ taskStatus[job[t]] = "inProgress"
       /\ runs[job[t]] = IF pc[t] \in {"own", "job"} THEN 0 ELSE 1
  /\ \A t, u \in Threads :
       t # u /\ pc[t] \in Active /\ pc[u] \in Active => job[t] # job[u]
  /\ \A k \in Tasks :
       /\ runs[k] \in {0, 1}
       /\ taskStatus[k] = "notStarted" => runs[k] = 0
       /\ taskStatus[k] = "done" => runs[k] = 1

(* The queue is a list of tasks that are not started.                      *)
Listed ==
  /\ \E q : /\ Chain(q)
            /\ \A k \in Range(q) : k \in Submitted /\ taskStatus[k] = "notStarted"
  /\ \A k \in Tasks \ Submitted : taskStatus[k] = "notStarted"

(* While the pool runs only workers sleep in pop, and not all of them when *)
(* there is a task.                                                        *)
Awake == SomeWorkerAwake /\ (status = "running" => sleepers \subseteq Workers)

(* A thread that has found the queue empty still finds it so.              *)
Drains ==
  /\ FinishDrains
  /\ \A t \in Threads : pc[t] = "drained" => status # "running" /\ head = Null

IInv == TypeOK /\ Control /\ InPut /\ Jobs /\ Listed /\ Awake /\ Drains

(* What TypeOK says besides Pointers and what is being put.                *)
Places ==
  /\ taskStatus \in [Tasks -> {"notStarted", "inProgress", "done"}]
  /\ status \in {"running", "finishing", "stopNow"}
  /\ pooled \subseteq Tasks
  /\ \A t \in sleepers : At(t, "pop")
  /\ \A t \in waiters : At(t, "await")
  /\ runs \in [Tasks -> Nat] /\ stopped \in BOOLEAN

LEMMA TypeParts ==
  TypeOK <=> Pointers /\ Places /\ putting \in [Clients -> Groups \cup {<<>>}]
BY DEF TypeOK, Pointers, Places

(* The groups that put takes. *)
LEMMA GroupFacts ==
  ASSUME NEW g \in Groups
  PROVE  g \in Seq(Tasks) /\ g # <<>> /\ Distinct(g) /\ Range(g) \subseteq Tasks
<1>1. CASE \E t \in Tasks : g = <<t>>
  <2>1. PICK t \in Tasks : g = <<t>> BY <1>1
  <2>2. g \in Seq(Tasks) /\ Len(g) = 1 /\ g[1] = t /\ g # <<>> BY <2>1
  <2> QED BY <2>2 DEF Distinct, Range
<1>2. CASE g \in {h \in Tasks \X Tasks : h[1] # h[2]}
  <2>1. PICK t \in Tasks, u \in Tasks : g = <<t, u>> /\ t # u BY <1>2
  <2>2. g \in Seq(Tasks) /\ Len(g) = 2 /\ g[1] = t /\ g[2] = u /\ g # <<>> BY <2>1
  <2> QED BY <2>1, <2>2 DEF Distinct, Range
<1> QED BY <1>1, <1>2 DEF Groups

(* Every action leaves the threads where Control and Places allow them.    *)
LEMMA StepControl ==
  ASSUME TypeOK, Control, [Next]_vars
  PROVE  Control' /\ Places'
<1> USE TypeParts DEF vars, queue, puts
<1>1. ASSUME NEW c \in Clients, NEW g \in Groups, SetPool(c, g)
      PROVE  Control' /\ Places'
  <2>1. Range(g) \subseteq Tasks BY GroupFacts
  <2>2. Control'
    BY <1>1, ThreadsAssumption DEF SetPool, Control, At, Goto, WorkerAt, ClientAt, InLoop,
       Threads
  <2> QED BY <1>1, <2>1, <2>2 DEF SetPool, Control, Places, At, Goto
<1>17. ASSUME NEW c \in Threads, c \in Clients /\ (Put(c) \/ PutGroup(c))
       PROVE  Control' /\ Places'
  <2>1. PICK w : PutNoSync(c, w) /\ \A s \in w : s \subseteq sleepers
    BY <1>17 DEF Put, PutGroup, AfterNotify, AfterNotifyAll
  <2>2. sleepers' \subseteq sleepers BY <2>1 DEF PutNoSync
  <2>3. Control'
    BY <1>17, <2>1, <2>2, ThreadsAssumption DEF PutNoSync, Control, At, Goto, WorkerAt,
       ClientAt, InLoop, Threads
  <2> QED BY <2>1, <2>2, <2>3 DEF PutNoSync, Control, Places, At, Goto
<1>2. ASSUME NEW c \in Clients, NEW t \in Tasks,
             NEW op \in {"spinForce", "yieldForce", "workForce"}, ForceTask(c, t, op)
      PROVE  Control' /\ Places'
  <2>1. Control'
    BY <1>2, ThreadsAssumption DEF ForceTask, Control, At, Enter, Operations, WorkerAt,
       ClientAt, InLoop, Threads
  <2>2. Places' BY <1>2 DEF ForceTask, Control, Places, At, Enter, Mark
  <2> QED BY <2>1, <2>2
<1>3. ASSUME NEW c \in Clients, Stop(c) PROVE Control' /\ Places'
  BY <1>3 DEF Stop, Control, Places, AfterNotifyAll, At
<1>4. ASSUME NEW c \in Clients, NEW b \in BOOLEAN, Finish(c, b)
      PROVE  Control' /\ Places'
  BY <1>4, ThreadsAssumption DEF Finish, Control, Places, AfterNotifyAll, At, Enter,
     Operations, WorkerAt, ClientAt, InLoop, Threads
<1>5. ASSUME NEW t \in Threads, Loop(t) PROVE Control' /\ Places'
  <2>1. Control'
    BY <1>5, ThreadsAssumption DEF Loop, Control, At, Goto, LoopEnd, WorkerAt, ClientAt,
       InLoop, Threads
  <2>2. Places' BY <1>5 DEF Loop, Control, Places, At, Goto
  <2> QED BY <2>1, <2>2
<1>6. ASSUME NEW t \in Threads, Pop(t) PROVE Control' /\ Places'
  <2>1. Control'
    BY <1>6, ThreadsAssumption DEF Pop, Control, Pointers, At, Goto, AfterWait, WorkerAt,
       ClientAt, InLoop, Threads
  <2>2. Places' BY <1>6 DEF Pop, Control, Places, Pointers, At, Goto, Mark, AfterWait
  <2> QED BY <2>1, <2>2
<1>7. ASSUME NEW t \in Threads, Drained(t) PROVE Control' /\ Places'
  <2>1. Control'
    BY <1>7, ThreadsAssumption DEF Drained, Control, At, Goto, LoopEnd, WorkerAt, ClientAt,
       InLoop, Threads
  <2>2. Places' BY <1>7 DEF Drained, Control, Places, At, Goto
  <2> QED BY <2>1, <2>2
<1>8. ASSUME NEW t \in Threads, Run(t) PROVE Control' /\ Places'
  <2>1. pc' = [pc EXCEPT ![t] = pc'[t]] /\ pc'[t] \in {"jobRun", "ownRun"}
    BY <1>8 DEF Run, At, Goto, Control
  <2>2. pc[t] = IF pc'[t] = "jobRun" THEN "job" ELSE "own"
    BY <1>8 DEF Run, At, Goto, Control
  <2>3. UNCHANGED <<status, call, goal, job, sleepers, waiters>> BY <1>8 DEF Run
  <2>4. Control'
    BY <2>1, <2>2, <2>3, ThreadsAssumption DEF Control, WorkerAt, ClientAt, InLoop, Threads
  <2>5. runs' \in [Tasks -> Nat]
    <3>1. runs' = [runs EXCEPT ![job[t]] = runs[job[t]] + 1] /\ runs \in [Tasks -> Nat]
      BY <1>8 DEF Run, Places
    <3>2. CASE job[t] \in Tasks
      <4>1. runs[job[t]] + 1 \in Nat BY <3>1, <3>2
      <4> QED BY <3>1, <3>2, <4>1
    <3>3. CASE job[t] \notin Tasks BY <3>1, <3>3
    <3> QED BY <3>2, <3>3
  <2> QED BY <1>8, <2>1, <2>2, <2>4, <2>5 DEF Run, Places, At, Control
<1>9. ASSUME NEW t \in Threads, JobDone(t) PROVE Control' /\ Places'
  BY <1>9, ThreadsAssumption DEF JobDone, Control, Places, At, Goto, Mark, WorkerAt,
     ClientAt, InLoop, Threads
<1>10. ASSUME NEW t \in Threads, NotifyWaiters(t) PROVE Control' /\ Places'
  BY <1>10, ThreadsAssumption DEF NotifyWaiters, Control, Places, At, Goto,
     AfterNotifyAll, WorkerAt, ClientAt, InLoop, Threads
<1>11. ASSUME NEW t \in Threads, OwnDone(t) PROVE Control' /\ Places'
  BY <1>11, ThreadsAssumption DEF OwnDone, Control, Places, At, Goto, Mark, WorkerAt,
     ClientAt, InLoop, Threads
<1>12. ASSUME NEW t \in Threads,
              ForceDone(t) \/ YieldForce(t) \/ YieldAgain(t) \/ WorkForce(t)
       PROVE  Control' /\ Places'
  <2>1. Control'
    BY <1>12, ThreadsAssumption DEF ForceDone, YieldForce, YieldAgain, WorkForce, Control,
       At, Goto, AfterWait, WorkerAt, ClientAt, InLoop, Threads
  <2>2. Places'
    BY <1>12 DEF ForceDone, YieldForce, YieldAgain, WorkForce, Control, Places, At, Goto,
       AfterWait
  <2> QED BY <2>1, <2>2
<1>13. ASSUME NEW t \in Threads, WorkPop(t) PROVE Control' /\ Places'
  <2>1. Control'
    BY <1>13, ThreadsAssumption DEF WorkPop, Control, Pointers, At, Goto, Enter, Operations,
       WorkerAt, ClientAt, InLoop, Threads
  <2>2. Places' BY <1>13 DEF WorkPop, Control, Places, Pointers, At, Goto, Enter, Mark
  <2> QED BY <2>1, <2>2
<1>14. ASSUME NEW t \in Threads, Join(t) PROVE Control' /\ Places'
  BY <1>14, ThreadsAssumption DEF Join, Control, Places, At, Goto, WorkerAt, ClientAt,
     InLoop, Threads
<1>15. ASSUME NEW t \in Threads, SpuriousWakeup(t) PROVE Control' /\ Places'
  BY <1>15 DEF SpuriousWakeup, Control, Places, At
<1>16. CASE UNCHANGED vars BY <1>16 DEF Control, Places, At
<1> QED
  BY <1>1, <1>2, <1>3, <1>4, <1>5, <1>6, <1>7, <1>8, <1>9, <1>10, <1>11, <1>12, <1>13,
     <1>14, <1>15, <1>16, <1>17
  DEF Next, ClientCalls, Proceed

(* What a step does to the tasks: nothing ...                              *)
Same ==
  /\ UNCHANGED <<queue, taskStatus, Submitted, runs, job>>
  /\ \A t \in Threads : pc'[t] = pc[t] \/ {pc[t], pc'[t]} \cap Active = {}

OthersStay(t) == \A u \in Threads \ {t} : pc'[u] = pc[u]

(* ... or a thread takes one, the first or the one that it forces ...      *)
Takes(t, k) ==
  /\ pc[t] \notin Active /\ pc'[t] \in {"own", "job"} /\ OthersStay(t)
  /\ taskStatus[k] = "notStarted" /\ Mark(k, "inProgress")
  /\ job' = [job EXCEPT ![t] = k]
  /\ DeleteItemNoSync(k)
  /\ k = head \/ (t \in Clients /\ k \in Submitted)
  /\ UNCHANGED <<Submitted, runs>>

(* ... or has run it and marks it ...                                      *)
Ends(t) ==
  /\ pc[t] \in {"ownRun", "jobRun"} /\ pc'[t] \notin Active /\ OthersStay(t)
  /\ Mark(job[t], "done")
  /\ UNCHANGED <<queue, Submitted, runs, job>>

(* ... or puts a group.                                                    *)
Puts(g) ==
  /\ Range(g) \cap Submitted = {} /\ Submitted' = Submitted \cup Range(g)
  /\ Enqueue(g) \/ UNCHANGED queue
  /\ UNCHANGED <<taskStatus, job, runs>>
  /\ \A t \in Threads : pc'[t] = pc[t] \/ {pc[t], pc'[t]} \cap Active = {}

Effect ==
  \/ Same
  \/ \E t \in Threads, k \in Tasks : Takes(t, k)
  \/ \E t \in Threads : Run(t) /\ UNCHANGED Submitted
  \/ \E t \in Threads : Ends(t)
  \/ \E g \in Groups : Puts(g)

(* A client sets the pool of tasks that were in none, and has put none of  *)
(* them yet.                                                               *)
LEMMA SetPoolFacts ==
  ASSUME Control, InPut, NEW c \in Clients, NEW g \in Groups, SetPool(c, g)
  PROVE  InPut' /\ Same
<1>1. /\ pc[c] = "idle" /\ pc' = [pc EXCEPT ![c] = "put"]
      /\ putting' = [putting EXCEPT ![c] = g]
      /\ pooled' = pooled \cup Range(g) /\ Range(g) \cap pooled = {}
      /\ UNCHANGED <<queue, taskStatus, runs, job>>
  BY DEF SetPool, At, Goto
<1>2. putting[c] = <<>> /\ Range(putting[c]) = {} BY <1>1 DEF InPut, Range
<1>3. /\ putting'[c] = g
      /\ \A d \in Clients \ {c} : putting'[d] = putting[d] /\ pc'[d] = pc[d]
      /\ pc'[c] = "put"
  BY <1>1 DEF InPut, Control, Threads
<1>4. g # <<>> BY GroupFacts
<1>5. InPut'
  <2> SUFFICES ASSUME NEW d \in Clients
               PROVE  /\ pc'[d] = "put" <=> putting'[d] # <<>>
                      /\ Range(putting'[d]) \subseteq pooled'
                      /\ \A e \in Clients \ {d} :
                           Range(putting'[d]) \cap Range(putting'[e]) = {}
    BY <1>1 DEF InPut
  <2>1. CASE d = c BY <1>1, <1>3, <1>4, <2>1 DEF InPut
  <2>2. CASE d # c BY <1>1, <1>3, <2>2 DEF InPut
  <2> QED BY <2>1, <2>2
<1>6. BeingPut' = BeingPut \cup Range(g)
  <2>1. ASSUME NEW k \in BeingPut' PROVE k \in BeingPut \cup Range(g)
    <3>1. PICK d \in Clients : k \in Range(putting'[d]) BY <2>1 DEF BeingPut
    <3> QED BY <1>3, <3>1 DEF BeingPut
  <2>2. ASSUME NEW k \in BeingPut \cup Range(g) PROVE k \in BeingPut'
    <3>1. PICK d \in Clients : k \in Range(putting'[d])
      <4>1. CASE k \in Range(g) BY <1>3, <4>1
      <4>2. CASE k \notin Range(g)
        <5>1. PICK d \in Clients : k \in Range(putting[d]) BY <2>2, <4>2 DEF BeingPut
        <5>2. d # c BY <1>2, <5>1
        <5> QED BY <1>3, <5>1, <5>2
      <4> QED BY <4>1, <4>2
    <3> QED BY <3>1 DEF BeingPut
  <2> QED BY <2>1, <2>2
<1>7. Submitted' = Submitted
  <2>1. BeingPut \subseteq pooled BY DEF BeingPut, InPut
  <2> QED BY <1>1, <1>6, <2>1 DEF Submitted
<1>8. \A t \in Threads : pc'[t] = pc[t] \/ {pc[t], pc'[t]} \cap Active = {}
  BY <1>1 DEF Control, Active, Threads
<1> QED BY <1>1, <1>5, <1>7, <1>8 DEF Same

(* With the enqueue they have been put. *)
LEMMA PutFacts ==
  ASSUME Control, InPut, NEW c \in Clients, NEW w, PutNoSync(c, w)
  PROVE  InPut' /\ putting[c] \in Groups /\ Puts(putting[c])
<1>1. /\ pc[c] = "put" /\ pc' = [pc EXCEPT ![c] = "idle"]
      /\ putting' = [putting EXCEPT ![c] = <<>>]
      /\ Enqueue(putting[c]) \/ UNCHANGED queue
      /\ UNCHANGED <<pooled, taskStatus, runs, job>>
  BY DEF PutNoSync, At, Goto
<1>2. putting[c] \in Groups BY <1>1 DEF InPut
<1>3. /\ putting'[c] = <<>> /\ Range(putting'[c]) = {}
      /\ \A d \in Clients \ {c} : putting'[d] = putting[d] /\ pc'[d] = pc[d]
      /\ pc'[c] = "idle"
  BY <1>1 DEF InPut, Control, Threads, Range
<1>4. InPut'
  <2> SUFFICES ASSUME NEW d \in Clients
               PROVE  /\ pc'[d] = "put" <=> putting'[d] # <<>>
                      /\ Range(putting'[d]) \subseteq pooled'
                      /\ \A e \in Clients \ {d} :
                           Range(putting'[d]) \cap Range(putting'[e]) = {}
    BY <1>1 DEF InPut
  <2>1. CASE d = c BY <1>1, <1>3, <2>1
  <2>2. CASE d # c BY <1>1, <1>3, <2>2 DEF InPut
  <2> QED BY <2>1, <2>2
<1>5. BeingPut' = BeingPut \ Range(putting[c])
  <2>1. ASSUME NEW k \in BeingPut' PROVE k \in BeingPut \ Range(putting[c])
    <3>1. PICK d \in Clients : k \in Range(putting'[d]) BY <2>1 DEF BeingPut
    <3>2. d # c BY <1>3, <3>1
    <3>3. k \in Range(putting[d]) BY <1>3, <3>1, <3>2
    <3> QED BY <3>2, <3>3 DEF BeingPut, InPut
  <2>2. ASSUME NEW k \in BeingPut \ Range(putting[c]) PROVE k \in BeingPut'
    <3>1. PICK d \in Clients : k \in Range(putting[d]) BY <2>2 DEF BeingPut
    <3>2. d # c BY <2>2, <3>1
    <3>3. k \in Range(putting'[d]) BY <1>3, <3>1, <3>2
    <3> QED BY <3>3 DEF BeingPut
  <2> QED BY <2>1, <2>2
<1>6. /\ Range(putting[c]) \cap Submitted = {}
      /\ Submitted' = Submitted \cup Range(putting[c])
  <2>1. Range(putting[c]) \subseteq BeingPut /\ Range(putting[c]) \subseteq pooled
    BY DEF BeingPut, InPut
  <2> QED BY <1>1, <1>5, <2>1 DEF Submitted
<1>7. \A t \in Threads : pc'[t] = pc[t] \/ {pc[t], pc'[t]} \cap Active = {}
  BY <1>1 DEF Control, Active, Threads
<1> QED BY <1>1, <1>2, <1>4, <1>6, <1>7 DEF Puts

(* The other actions put nothing. *)
LEMMA PutsUnchanged ==
  ASSUME Control, InPut, UNCHANGED puts,
         \A t \in Threads : pc'[t] = pc[t] \/ "put" \notin {pc[t], pc'[t]}
  PROVE  InPut' /\ Submitted' = Submitted
<1>1. putting' = putting /\ pooled' = pooled BY DEF puts
<1>2. InPut' BY <1>1 DEF InPut, Threads
<1> QED BY <1>1, <1>2 DEF Submitted, BeingPut

PutsNothing ==
  \/ \E c \in Clients : \/ Stop(c) \/ Finish(c, TRUE) \/ Finish(c, FALSE)
                        \/ \E k \in Tasks, op \in {"spinForce", "yieldForce", "workForce"} :
                             ForceTask(c, k, op)
  \/ \E t \in Threads :
       \/ Loop(t) \/ Pop(t) \/ Drained(t) \/ Run(t) \/ JobDone(t) \/ NotifyWaiters(t)
       \/ OwnDone(t) \/ ForceDone(t) \/ YieldForce(t) \/ YieldAgain(t) \/ WorkForce(t)
       \/ WorkPop(t) \/ Join(t) \/ SpuriousWakeup(t)
  \/ UNCHANGED vars

LEMMA OthersPutNothing ==
  ASSUME Control, InPut, PutsNothing
  PROVE  InPut' /\ Submitted' = Submitted
<1> DEFINE Kept ==
             /\ UNCHANGED puts
             /\ \A u \in Threads : pc'[u] = pc[u] \/ "put" \notin {pc[u], pc'[u]}
<1>1. Kept
  <2>1. ASSUME NEW c \in Clients, Stop(c) \/ Finish(c, TRUE) \/ Finish(c, FALSE)
        PROVE  Kept
    BY <2>1 DEF Stop, Finish, Control, At, Enter, Threads
  <2>2. ASSUME NEW c \in Clients, NEW k \in Tasks,
               NEW op \in {"spinForce", "yieldForce", "workForce"}, ForceTask(c, k, op)
        PROVE  Kept
    BY <2>2 DEF ForceTask, Control, At, Enter, Threads
  <2>3. ASSUME NEW t \in Threads, Loop(t) \/ Pop(t) \/ Drained(t) \/ Run(t)
        PROVE  Kept
    BY <2>3 DEF Loop, LoopEnd, Pop, Drained, Run, Control, At, Goto
  <2>4. ASSUME NEW t \in Threads,
               \/ JobDone(t) \/ NotifyWaiters(t) \/ OwnDone(t) \/ ForceDone(t)
               \/ YieldForce(t) \/ YieldAgain(t) \/ WorkForce(t) \/ WorkPop(t)
               \/ Join(t) \/ SpuriousWakeup(t)
        PROVE  Kept
    BY <2>4 DEF JobDone, NotifyWaiters, OwnDone, ForceDone, YieldForce, YieldAgain,
       WorkForce, WorkPop, Join, SpuriousWakeup, Control, At, Goto, Enter
  <2>5. CASE UNCHANGED vars BY <2>5 DEF vars
  <2> HIDE DEF Kept
  <2> QED BY <2>1, <2>2, <2>3, <2>4, <2>5 DEF PutsNothing
<1> QED BY <1>1, PutsUnchanged

(* Every action keeps track of what is being put. *)
LEMMA StepInPut ==
  ASSUME Control, InPut, [Next]_vars
  PROVE  InPut'
<1>1. ASSUME NEW c \in Clients, NEW g \in Groups, SetPool(c, g) PROVE InPut'
  BY <1>1, SetPoolFacts
<1>2. ASSUME NEW c \in Clients, Put(c) \/ PutGroup(c) PROVE InPut'
  BY <1>2, PutFacts DEF Put, PutGroup
<1>3. CASE PutsNothing BY <1>3, OthersPutNothing
<1> QED
  <2>1. CASE \E c \in Clients : ClientCalls(c)
    BY <1>1, <1>3, <2>1 DEF ClientCalls, PutsNothing
  <2>2. CASE \E t \in Threads : Proceed(t) \/ SpuriousWakeup(t)
    BY <1>2, <1>3, <2>2 DEF Proceed, PutsNothing
  <2>3. CASE UNCHANGED vars BY <1>3, <2>3 DEF PutsNothing
  <2> QED BY <2>1, <2>2, <2>3 DEF Next

(* The first in the queue is a task, and it is not started. *)
LEMMA HeadNotStarted ==
  ASSUME Pointers, Listed, head # Null
  PROVE  head \in Tasks /\ taskStatus[head] = "notStarted"
<1>1. PICK q : /\ Chain(q)
               /\ \A k \in Range(q) : k \in Submitted /\ taskStatus[k] = "notStarted"
  BY DEF Listed
<1>2. /\ head = Item(q, 1)
      /\ \A i \in 1..Len(q) : q[i] \in Tasks /\ q[i] \in Range(q)
  BY <1>1, ChainFacts DEF Chain
<1> QED BY <1>1, <1>2 DEF Item

LEMMA Effects ==
  ASSUME TypeOK, Control, InPut, Listed, [Next]_vars
  PROVE  Effect
<1> USE TypeParts DEF vars
<1>0. PutsNothing => Submitted' = Submitted BY OthersPutNothing
<1>1. ASSUME NEW c \in Clients, NEW g \in Groups, SetPool(c, g) PROVE Same
  BY <1>1, SetPoolFacts
<1>9. ASSUME NEW c \in Clients, Put(c) \/ PutGroup(c) PROVE \E g \in Groups : Puts(g)
  BY <1>9, PutFacts DEF Put, PutGroup
<1>2. ASSUME NEW c \in Clients, NEW t \in Tasks,
             NEW op \in {"spinForce", "yieldForce", "workForce"}, ForceTask(c, t, op)
      PROVE  Same \/ Takes(c, t)
  <2>0. Submitted' = Submitted BY <1>0, <1>2 DEF PutsNothing
  <2>1. CASE taskStatus[t] = "notStarted"
    <3>1. t \in Submitted BY <1>2 DEF ForceTask, Submitted
    <3> QED
      BY <1>2, <2>0, <2>1, <3>1
      DEF ForceTask, Takes, OthersStay, At, Enter, Control, Threads, Active
  <2>2. CASE taskStatus[t] # "notStarted"
    BY <1>2, <2>0, <2>2 DEF ForceTask, Same, At, Enter, Control, Threads, Active
  <2> QED BY <2>1, <2>2
<1>3. ASSUME NEW c \in Clients, Stop(c) \/ Finish(c, TRUE) \/ Finish(c, FALSE) PROVE Same
  <2>1. Submitted' = Submitted BY <1>0, <1>3 DEF PutsNothing
  <2> QED BY <1>3, <2>1 DEF Stop, Finish, Same, At, Enter, Control, Threads, Active
<1>4. ASSUME NEW t \in Threads, Pop(t) \/ WorkPop(t)
      PROVE  Same \/ \E k \in Tasks : Takes(t, k)
  <2>0. Submitted' = Submitted BY <1>0, <1>4 DEF PutsNothing
  <2>1. CASE head # Null /\ Mark(head, "inProgress")
    <3>1. head \in Tasks /\ taskStatus[head] = "notStarted" BY <2>1, HeadNotStarted
    <3>2. DeleteItemNoSync(head) /\ UNCHANGED <<Submitted, runs>>
          /\ job' = [job EXCEPT ![t] = head] /\ Goto(t, "job")
      BY <1>4, <2>0, <2>1 DEF Pop, WorkPop, DeleteItemNoSync
    <3>3. pc[t] \notin Active BY <1>4 DEF Pop, WorkPop, At, Active
    <3>4. Takes(t, head)
      BY <2>1, <3>1, <3>2, <3>3 DEF Takes, OthersStay, Goto, Control
    <3> QED BY <3>1, <3>4
  <2>2. CASE ~(head # Null /\ Mark(head, "inProgress"))
    BY <1>4, <2>0, <2>2 DEF Pop, WorkPop, Same, At, Goto, Enter, Control, Threads, Active
  <2> QED BY <2>1, <2>2
<1>5. ASSUME NEW t \in Threads, JobDone(t) \/ OwnDone(t) PROVE Ends(t)
  <2>1. Submitted' = Submitted BY <1>0, <1>5 DEF PutsNothing
  <2> QED BY <1>5, <2>1 DEF JobDone, OwnDone, Ends, OthersStay, At, Goto, Control, Active
<1>6. ASSUME NEW t \in Threads,
             \/ Loop(t) \/ Drained(t) \/ NotifyWaiters(t) \/ ForceDone(t)
             \/ YieldForce(t) \/ YieldAgain(t) \/ WorkForce(t) \/ Join(t)
      PROVE  Same
  <2>1. Submitted' = Submitted BY <1>0, <1>6 DEF PutsNothing
  <2> QED
    BY <1>6, <2>1 DEF Loop, Drained, NotifyWaiters, ForceDone, YieldForce, YieldAgain,
       WorkForce, Join, LoopEnd, Same, At, Goto, Control, Active
<1>7. ASSUME NEW t \in Threads, SpuriousWakeup(t) PROVE Same
  <2>1. Submitted' = Submitted BY <1>0, <1>7 DEF PutsNothing
  <2> QED BY <1>7, <2>1 DEF SpuriousWakeup, Same
<1>8. CASE UNCHANGED vars
  <2>1. Submitted' = Submitted BY <1>0, <1>8 DEF PutsNothing
  <2> QED BY <1>8, <2>1 DEF Effect, Same, queue
<1> QED
  <2>1. CASE \E c \in Clients : ClientCalls(c)
    <3>1. PICK c \in Clients : ClientCalls(c) BY <2>1
    <3>2. c \in Threads BY DEF Threads
    <3>3. CASE \E g \in Groups : SetPool(c, g) BY <1>1, <3>3 DEF Effect
    <3>4. CASE \E t \in Tasks, op \in {"spinForce", "yieldForce", "workForce"} :
                 ForceTask(c, t, op)
      <4>1. PICK t \in Tasks, op \in {"spinForce", "yieldForce", "workForce"} :
              ForceTask(c, t, op)
        BY <3>4
      <4>2. Same \/ Takes(c, t) BY <1>2, <4>1
      <4> QED BY <3>2, <4>2 DEF Effect
    <3>5. CASE Stop(c) \/ Finish(c, TRUE) \/ Finish(c, FALSE) BY <1>3, <3>5 DEF Effect
    <3> QED BY <3>1, <3>3, <3>4, <3>5 DEF ClientCalls
  <2>2. CASE \E t \in Threads : Proceed(t) \/ SpuriousWakeup(t)
    <3>1. \A t \in Threads : Run(t) => Submitted' = Submitted BY <1>0 DEF PutsNothing
    <3> QED BY <1>4, <1>5, <1>6, <1>7, <1>9, <2>2, <3>1 DEF Proceed, Effect
  <2> QED BY <1>8, <2>1, <2>2 DEF Next

LEMMA RemoveAtOne ==
  ASSUME NEW S, NEW q \in Seq(S), q # <<>>
  PROVE  RemoveAt(q, 1) = Tail(q)
<1> DEFINE r == RemoveAt(q, 1)
           s == Tail(q)
<1>1. Len(q) \in Nat /\ 1 \in 1..Len(q) OBVIOUS
<1>2. /\ r \in Seq(S) /\ Len(r) = Len(q) - 1
      /\ \A i \in 1..(Len(q) - 1) : r[i] = IF i < 1 THEN q[i] ELSE q[i + 1]
  BY <1>1, RemoveAtSeq
<1>3. s \in Seq(S) /\ Len(s) = Len(q) - 1 /\ \A i \in 1..(Len(q) - 1) : s[i] = q[i + 1]
  BY <1>1
<1> HIDE DEF r, s
<1>4. \A i \in 1..Len(r) : r[i] = s[i] BY <1>1, <1>2, <1>3
<1>5. r = [i \in 1..Len(r) |-> r[i]] /\ s = [i \in 1..Len(s) |-> s[i]] BY <1>2, <1>3
<1>6. r = s BY <1>2, <1>3, <1>4, <1>5
<1> QED BY <1>6 DEF r, s

(* A list without its n-th element holds the others. *)
LEMMA RangeRemoveAt ==
  ASSUME NEW q, Chain(q), NEW n \in 1..Len(q)
  PROVE  Range(RemoveAt(q, n)) = Range(q) \ {q[n]}
<1> DEFINE r == RemoveAt(q, n)
<1>1. q \in Seq(Tasks) /\ Distinct(q) /\ DOMAIN q = 1..Len(q) /\ Len(q) \in Nat
  BY DEF Chain
<1>2. /\ r \in Seq(Tasks) /\ Len(r) = Len(q) - 1
      /\ \A i \in 1..(Len(q) - 1) : r[i] = IF i < n THEN q[i] ELSE q[i + 1]
  BY <1>1, RemoveAtSeq
<1> HIDE DEF r
<1>3. DOMAIN r = 1..(Len(q) - 1) BY <1>2
<1>4. ASSUME NEW k \in Range(r) PROVE k \in Range(q) \ {q[n]}
  <2>1. PICK i \in 1..(Len(q) - 1) : k = r[i] BY <1>3 DEF Range
  <2>2. PICK j \in 1..Len(q) : j = IF i < n THEN i ELSE i + 1 BY <1>1
  <2>3. k = q[j] /\ j # n BY <1>2, <2>1, <2>2
  <2>4. k # q[n] BY <1>1, <2>3 DEF Distinct
  <2> QED BY <1>1, <2>3, <2>4 DEF Range
<1>5. ASSUME NEW k \in Range(q) \ {q[n]} PROVE k \in Range(r)
  <2>1. PICK j \in 1..Len(q) : k = q[j] BY <1>1 DEF Range
  <2>2. j # n BY <1>5, <2>1
  <2>3. PICK i \in 1..(Len(q) - 1) : j = IF i < n THEN i ELSE i + 1
    <3>1. CASE j < n
      <4>1. j \in 1..(Len(q) - 1) /\ j < n BY <1>1, <3>1
      <4> QED BY <4>1
    <3>2. CASE ~(j < n)
      <4>1. j - 1 \in 1..(Len(q) - 1) /\ ~(j - 1 < n) /\ j - 1 + 1 = j
        BY <1>1, <2>2, <3>2
      <4> QED BY <4>1
    <3> QED BY <3>1, <3>2
  <2>4. k = r[i] BY <1>2, <2>1, <2>3
  <2> QED BY <1>3, <2>4 DEF Range
<1>6. Range(r) = Range(q) \ {q[n]} BY <1>4, <1>5
<1> QED BY <1>6 DEF r

(* Whichever task tryDeleteExecute or popNoSync takes out of the queue.    *)
LEMMA TakeChain ==
  ASSUME Pointers, NEW q, Chain(q), NEW k \in Tasks, DeleteItemNoSync(k)
  PROVE  /\ Pointers'
         /\ \/ \E n \in 1..Len(q) : q[n] = k /\ Chain(RemoveAt(q, n))'
            \/ k \notin Range(q) /\ Chain(q)'
<1>1. /\ q \in Seq(Tasks) /\ head = Item(q, 1) /\ Len(q) \in Nat
      /\ \A t \in Range(q) : \E i \in 1..Len(q) : t = q[i]
  BY ChainFacts DEF Chain
<1>2. CASE k = head
  <2>1. head # Null /\ PopNoSync BY <1>2, TasksAssumption DEF DeleteItemNoSync
  <2>2. q # <<>> /\ Pointers' /\ Chain(Tail(q))' BY <2>1, PopChain
  <2>3. Tail(q) = RemoveAt(q, 1) BY <1>1, <2>2, RemoveAtOne
  <2>4. 1 \in 1..Len(q) /\ q[1] = k BY <1>1, <1>2, <2>2 DEF Item
  <2> QED BY <2>2, <2>3, <2>4
<1>3. CASE k # head /\ k \in Range(q)
  <2>1. PICK n \in 1..Len(q) : k = q[n] BY <1>1, <1>3
  <2>2. n # 1
    <3>1. 1 \in 1..Len(q) BY <1>1, <2>1
    <3> QED BY <1>1, <1>3, <2>1, <3>1 DEF Item
  <2>3. n \in 2..Len(q) BY <1>1, <2>1, <2>2
  <2>4. Pointers' /\ Chain(RemoveAt(q, n))' BY <2>1, <2>3, DeleteChain
  <2> QED BY <2>1, <2>4
<1>4. CASE k \notin Range(q)
  <2>1. Pointers' /\ Chain(q)' BY <1>4, DeleteStranger
  <2> QED BY <1>4, <2>1
<1> QED BY <1>2, <1>3, <1>4

LEMMA StepListed ==
  ASSUME Pointers, Places, Control, Jobs, Listed, Effect
  PROVE  Pointers' /\ Listed'
<1>1. PICK q : /\ Chain(q)
               /\ \A k \in Range(q) : k \in Submitted /\ taskStatus[k] = "notStarted"
  BY DEF Listed
<1>2. \A k \in Tasks \ Submitted : taskStatus[k] = "notStarted" BY DEF Listed
<1>3. q \in Seq(Tasks) /\ Range(q) \subseteq Tasks BY <1>1, ChainFacts DEF Chain
<1>4. CASE UNCHANGED queue /\ UNCHANGED <<taskStatus, Submitted>>
  <2>1. Pointers' /\ Chain(q)' BY <1>1, <1>4 DEF queue, Pointers, Chain
  <2> QED BY <1>1, <1>2, <1>4, <2>1 DEF Listed
<1>5. ASSUME NEW t \in Threads, NEW k \in Tasks, Takes(t, k) PROVE Pointers' /\ Listed'
  <2>1. k \in Submitted
    <3>1. CASE k = head
      <4>1. k = Item(q, 1) /\ k # Null BY <1>1, <3>1, TasksAssumption DEF Chain
      <4>2. k \in Range(q) BY <1>1, <4>1, ChainFacts DEF Item
      <4> QED BY <1>1, <4>2
    <3>2. CASE k # head BY <1>5, <3>2 DEF Takes
    <3> QED BY <3>1, <3>2
  <2>2. \A u \in Tasks : u # k => taskStatus'[u] = taskStatus[u]
    BY <1>5 DEF Takes, Mark, Places
  <2>3. Submitted' = Submitted BY <1>5 DEF Takes
  <2>4. \A u \in Tasks \ Submitted' : taskStatus'[u] = "notStarted"
    BY <1>2, <2>1, <2>2, <2>3
  <2>5. Pointers' BY <1>1, <1>5, TakeChain DEF Takes
  <2>6. CASE \E n \in 1..Len(q) : q[n] = k /\ Chain(RemoveAt(q, n))'
    <3>1. PICK n \in 1..Len(q) : q[n] = k /\ Chain(RemoveAt(q, n))' BY <2>6
    <3>2. Range(RemoveAt(q, n)) = Range(q) \ {k} BY <1>1, <3>1, RangeRemoveAt
    <3>3. \A u \in Range(RemoveAt(q, n)) : u \in Submitted' /\ taskStatus'[u] = "notStarted"
      BY <1>1, <1>3, <2>2, <2>3, <3>2
    <3> QED BY <2>4, <2>5, <3>1, <3>3 DEF Listed
  <2>7. CASE k \notin Range(q) /\ Chain(q)'
    <3>1. \A u \in Range(q) : u \in Submitted' /\ taskStatus'[u] = "notStarted"
      BY <1>1, <1>3, <2>2, <2>3, <2>7
    <3> QED BY <2>4, <2>5, <2>7, <3>1 DEF Listed
  <2>8. \/ \E n \in 1..Len(q) : q[n] = k /\ Chain(RemoveAt(q, n))'
        \/ k \notin Range(q) /\ Chain(q)'
    BY <1>1, <1>5, TakeChain DEF Takes
  <2> QED BY <2>6, <2>7, <2>8
<1>6. ASSUME NEW t \in Threads, Ends(t) PROVE Pointers' /\ Listed'
  <2>1. job[t] \in Tasks /\ taskStatus[job[t]] = "inProgress"
    BY <1>6 DEF Ends, Jobs, Active
  <2>2. \A u \in Tasks : u # job[t] => taskStatus'[u] = taskStatus[u]
    BY <1>6 DEF Ends, Mark, Places
  <2>3. UNCHANGED <<head, tail, next, prev, Submitted>> BY <1>6 DEF Ends, queue
  <2>4. Pointers' /\ Chain(q)' BY <1>1, <2>3 DEF Pointers, Chain
  <2>5. \A u \in Range(q) : u \in Submitted' /\ taskStatus'[u] = "notStarted"
    BY <1>1, <1>3, <2>1, <2>2, <2>3
  <2>6. \A u \in Tasks \ Submitted' : taskStatus'[u] = "notStarted"
    BY <1>2, <2>1, <2>2, <2>3
  <2> QED BY <2>4, <2>5, <2>6 DEF Listed
<1>7. ASSUME NEW g \in Groups, Puts(g) PROVE Pointers' /\ Listed'
  <2>1. g \in Seq(Tasks) /\ g # <<>> /\ Distinct(g) /\ Range(g) \subseteq Tasks
    BY GroupFacts
  <2>2. /\ Submitted' = Submitted \cup Range(g) /\ taskStatus' = taskStatus
        /\ Range(g) \cap Submitted = {}
    BY <1>7 DEF Puts
  <2>3. \A u \in Tasks \ Submitted' : taskStatus'[u] = "notStarted" BY <1>2, <2>2
  <2>4. CASE Enqueue(g)
    <3>1. Range(g) \cap Range(q) = {} BY <1>1, <2>2
    <3>2. Pointers' /\ Chain(q \o g)' BY <1>1, <2>1, <2>4, <3>1, EnqueueChain
    <3>3. Range(q \o g) = Range(q) \cup Range(g) BY <1>3, <2>1, RangeConcatenation
    <3>4. \A u \in Range(q \o g) : u \in Submitted' /\ taskStatus'[u] = "notStarted"
      BY <1>1, <1>2, <2>1, <2>2, <3>3
    <3> QED BY <2>3, <3>2, <3>4 DEF Listed
  <2>5. CASE UNCHANGED queue
    <3>1. Pointers' /\ Chain(q)' BY <1>1, <2>5 DEF queue, Pointers, Chain
    <3> QED BY <1>1, <2>2, <2>3, <3>1 DEF Listed
  <2> QED BY <1>7, <2>4, <2>5 DEF Puts
<1> QED BY <1>4, <1>5, <1>6, <1>7 DEF Effect, Same, Run

LEMMA StepJobs ==
  ASSUME Pointers, Places, Control, Jobs, Listed, Effect
  PROVE  Jobs'
<1> USE DEF Active
<1>1. /\ \A t \in Threads : pc[t] \in Active =>
           /\ job[t] \in Tasks /\ taskStatus[job[t]] = "inProgress"
           /\ runs[job[t]] = IF pc[t] \in {"own", "job"} THEN 0 ELSE 1
      /\ \A t, u \in Threads :
           t # u /\ pc[t] \in Active /\ pc[u] \in Active => job[t] # job[u]
      /\ \A k \in Tasks :
           /\ runs[k] \in {0, 1}
           /\ taskStatus[k] = "notStarted" => runs[k] = 0
           /\ taskStatus[k] = "done" => runs[k] = 1
  BY DEF Jobs
<1>2. CASE Same
  <2>1. UNCHANGED <<taskStatus, runs, job>> BY <1>2 DEF Same
  <2>2. \A t \in Threads : pc'[t] \in Active => pc'[t] = pc[t] BY <1>2 DEF Same
  <2> QED BY <1>1, <2>1, <2>2 DEF Jobs
<1>3. ASSUME NEW t \in Threads, NEW k \in Tasks, Takes(t, k) PROVE Jobs'
  <2>1. /\ pc'[t] \in {"own", "job"}
        /\ \A u \in Threads : u # t => pc'[u] = pc[u] /\ job'[u] = job[u]
        /\ job'[t] = k /\ taskStatus'[k] = "inProgress" /\ taskStatus[k] = "notStarted"
        /\ \A u \in Tasks : u # k => taskStatus'[u] = taskStatus[u]
        /\ runs' = runs
    BY <1>3 DEF Takes, OthersStay, Mark, Places, Control
  <2>2. \A u \in Threads : u # t /\ pc'[u] \in Active => job'[u] # k BY <1>1, <2>1
  <2> QED BY <1>1, <2>1, <2>2 DEF Jobs
<1>4. ASSUME NEW t \in Threads, Run(t) PROVE Jobs'
  <2>1. /\ pc[t] \in {"own", "job"} /\ pc'[t] \in {"ownRun", "jobRun"}
        /\ \A u \in Threads : u # t => pc'[u] = pc[u]
        /\ UNCHANGED <<taskStatus, job>>
    BY <1>4 DEF Run, At, Goto, Control
  <2>2. job[t] \in Tasks /\ taskStatus[job[t]] = "inProgress" /\ runs[job[t]] = 0
    BY <1>1, <2>1
  <2>3. runs'[job[t]] = 1 /\ \A k \in Tasks : k # job[t] => runs'[k] = runs[k]
    BY <1>4, <2>2 DEF Run, Places
  <2> QED BY <1>1, <2>1, <2>2, <2>3 DEF Jobs
<1>5. ASSUME NEW t \in Threads, Ends(t) PROVE Jobs'
  <2>1. /\ pc[t] \in {"ownRun", "jobRun"} /\ pc'[t] \notin Active
        /\ \A u \in Threads : u # t => pc'[u] = pc[u]
        /\ UNCHANGED <<runs, job>>
    BY <1>5 DEF Ends, OthersStay
  <2>2. job[t] \in Tasks /\ runs[job[t]] = 1 BY <1>1, <2>1
  <2>3. /\ taskStatus'[job[t]] = "done"
        /\ \A k \in Tasks : k # job[t] => taskStatus'[k] = taskStatus[k]
    BY <1>5, <2>2 DEF Ends, Mark, Places
  <2> QED BY <1>1, <2>1, <2>2, <2>3 DEF Jobs
<1>6. ASSUME NEW g \in Groups, Puts(g) PROVE Jobs'
  <2>1. UNCHANGED <<taskStatus, runs, job>> BY <1>6 DEF Puts
  <2>2. \A t \in Threads : pc'[t] \in Active => pc'[t] = pc[t] BY <1>6 DEF Puts
  <2> QED BY <1>1, <2>1, <2>2 DEF Jobs
<1> QED BY <1>2, <1>3, <1>4, <1>5, <1>6 DEF Effect

(* Who takes a task out of the queue does not fill it. *)
LEMMA EmptyStaysEmpty ==
  ASSUME NEW k \in Tasks, DeleteItemNoSync(k), head = Null
  PROVE  head' = Null
BY TasksAssumption DEF DeleteItemNoSync

(* A step that puts nothing, wakes or sleeps nobody but as pop does, and   *)
(* leaves "running" for good, if at all.                                   *)
Calm ==
  /\ head = Null => head' = Null
  /\ status' = "running" => status = "running"
  /\ sleepers' \subseteq sleepers
  /\ status' = "stopNow" /\ ~stopped' => status = "stopNow" /\ ~stopped
  /\ \A t \in Threads : pc'[t] = "drained" => pc[t] = "drained"

LEMMA CalmStep ==
  ASSUME Calm, Places, Awake, Drains
  PROVE  Awake' /\ Drains'
BY DEF Calm, Places, Awake, SomeWorkerAwake, Drains, FinishDrains

(* Most steps are of this kind. *)
LEMMA Calms ==
  ASSUME Places, Control,
         \/ \E c \in Clients : \/ Stop(c) \/ Finish(c, TRUE) \/ Finish(c, FALSE)
                               \/ \E g \in Groups : SetPool(c, g)
                               \/ \E k \in Tasks,
                                     op \in {"spinForce", "yieldForce", "workForce"} :
                                    ForceTask(c, k, op)
         \/ \E t \in Threads :
              \/ Loop(t) \/ Run(t) \/ JobDone(t) \/ NotifyWaiters(t) \/ OwnDone(t)
              \/ ForceDone(t) \/ YieldForce(t) \/ YieldAgain(t) \/ WorkForce(t)
              \/ WorkPop(t) \/ Join(t) \/ SpuriousWakeup(t)
         \/ UNCHANGED vars
  PROVE  Calm
<1> USE DEF Calm, Control
<1>1. ASSUME NEW c \in Clients, Stop(c) PROVE Calm
  BY <1>1 DEF Stop, queue, AfterNotifyAll
<1>2. ASSUME NEW c \in Clients, NEW b \in BOOLEAN, Finish(c, b) PROVE Calm
  BY <1>2 DEF Finish, queue, AfterNotifyAll, Enter, Threads, Places
<1>3. ASSUME NEW c \in Clients, NEW k \in Tasks,
             NEW op \in {"spinForce", "yieldForce", "workForce"}, ForceTask(c, k, op)
      PROVE  Calm
  <2>1. head = Null => head' = Null BY <1>3, EmptyStaysEmpty DEF ForceTask, queue
  <2> QED BY <1>3, <2>1 DEF ForceTask, Enter, Threads
<1>4. ASSUME NEW t \in Threads, WorkPop(t) PROVE Calm
  BY <1>4 DEF WorkPop, Goto, Enter, queue
<1>5. ASSUME NEW t \in Threads,
             \/ Loop(t) \/ Run(t) \/ JobDone(t) \/ NotifyWaiters(t) \/ OwnDone(t)
             \/ ForceDone(t) \/ YieldForce(t) \/ YieldAgain(t) \/ WorkForce(t)
             \/ Join(t)
      PROVE  Calm
  BY <1>5 DEF Loop, LoopEnd, Run, JobDone, NotifyWaiters, OwnDone, ForceDone, YieldForce,
     YieldAgain, WorkForce, Join, Goto, queue
<1>6. ASSUME NEW t \in Threads, SpuriousWakeup(t) PROVE Calm
  BY <1>6 DEF SpuriousWakeup, queue
<1>7. CASE UNCHANGED vars BY <1>7 DEF vars, queue
<1>8. ASSUME NEW c \in Clients, NEW g \in Groups, SetPool(c, g) PROVE Calm
  BY <1>8 DEF SetPool, Goto, queue
<1> QED BY <1>1, <1>2, <1>3, <1>4, <1>5, <1>6, <1>7, <1>8

LEMMA StepAwake ==
  ASSUME Places, Control, Awake, Drains, [Next]_vars
  PROVE  Awake' /\ Drains'
<1>1. ASSUME NEW c \in Clients, Put(c) \/ PutGroup(c) PROVE Awake' /\ Drains'
  <2>1. /\ UNCHANGED <<status, stopped>>
        /\ \A t \in Threads : pc'[t] = "drained" => pc[t] = "drained"
    BY <1>1 DEF Put, PutGroup, PutNoSync, Goto, Control
  <2>2. CASE status = "running"
    <3>1. sleepers' \subseteq sleepers /\ (Workers # {} => ~(Workers \subseteq sleepers'))
      BY <1>1, <2>2 DEF Put, PutGroup, PutNoSync, AfterNotify, AfterNotifyAll, Awake
    <3> QED BY <2>1, <2>2, <3>1 DEF Awake, SomeWorkerAwake, Drains, FinishDrains
  <2>3. CASE status # "running"
    <3>1. UNCHANGED <<head, sleepers>> BY <1>1, <2>3 DEF Put, PutGroup, PutNoSync, queue
    <3> QED BY <2>1, <2>3, <3>1 DEF Awake, SomeWorkerAwake, Drains, FinishDrains
  <2> QED BY <2>2, <2>3
<1>2. ASSUME NEW t \in Threads, Pop(t) PROVE Awake' /\ Drains'
  <2>1. UNCHANGED <<status, stopped>> /\ (head = Null => head' = Null)
    BY <1>2 DEF Pop, queue
  <2>2. CASE head = Null /\ status = "running"
    <3>1. sleepers' = sleepers \cup {t} /\ pc' = pc BY <1>2, <2>2 DEF Pop, AfterWait
    <3>2. t \in Workers
      BY <1>2, <2>2 DEF Pop, At, Control, InLoop, Threads
    <3> QED BY <2>1, <2>2, <3>1, <3>2 DEF Awake, SomeWorkerAwake, Drains, FinishDrains
  <2>3. CASE ~(head = Null /\ status = "running")
    <3>1. sleepers' = sleepers BY <1>2, <2>3 DEF Pop
    <3>2. \A u \in Threads : pc'[u] = "drained" =>
            pc[u] = "drained" \/ (status # "running" /\ head = Null)
      BY <1>2, <2>3 DEF Pop, Goto, Control
    <3> QED BY <2>1, <3>1, <3>2 DEF Awake, SomeWorkerAwake, Drains, FinishDrains
  <2> QED BY <2>2, <2>3
<1>3. ASSUME NEW t \in Threads, Drained(t) PROVE Awake' /\ Drains'
  <2>1. status # "running" /\ head = Null BY <1>3 DEF Drained, At, Drains
  <2>2. UNCHANGED <<head, sleepers, stopped>> /\ status' # "running"
    BY <1>3, <2>1 DEF Drained, queue
  <2> QED BY <2>1, <2>2 DEF Awake, SomeWorkerAwake, Drains, FinishDrains
<1>4. CASE \/ \E c \in Clients :
                \/ Stop(c) \/ Finish(c, TRUE) \/ Finish(c, FALSE)
                \/ \E g \in Groups : SetPool(c, g)
                \/ \E k \in Tasks, op \in {"spinForce", "yieldForce", "workForce"} :
                     ForceTask(c, k, op)
           \/ \E t \in Threads :
                \/ Loop(t) \/ Run(t) \/ JobDone(t) \/ NotifyWaiters(t) \/ OwnDone(t)
                \/ ForceDone(t) \/ YieldForce(t) \/ YieldAgain(t) \/ WorkForce(t)
                \/ WorkPop(t) \/ Join(t) \/ SpuriousWakeup(t)
           \/ UNCHANGED vars
  BY <1>4, Calms, CalmStep
<1> QED
  <2>1. CASE \E c \in Clients : ClientCalls(c) BY <1>4, <2>1 DEF ClientCalls
  <2>2. CASE \E t \in Threads : Proceed(t) \/ SpuriousWakeup(t)
    BY <1>1, <1>2, <1>3, <1>4, <2>2 DEF Proceed
  <2> QED BY <1>4, <2>1, <2>2 DEF Next

LEMMA InitInv == Init => IInv
<1> SUFFICES ASSUME Init PROVE IInv OBVIOUS
<1> USE DEF Init
<1>1. TypeOK BY DEF TypeOK, At
<1>2. Control
  BY ThreadsAssumption DEF Control, WorkerAt, ClientAt, InLoop, Operations, Threads
<1>3. Jobs BY DEF Jobs, Active
<1>4. Listed
  <2>1. Chain(<<>>) BY DEF Chain, Distinct, Item, Range
  <2>2. Range(<<>>) = {} BY DEF Range
  <2> QED BY <2>1, <2>2 DEF Listed
<1>5. Awake /\ Drains BY DEF Awake, SomeWorkerAwake, Drains, FinishDrains
<1>6. InPut BY ThreadsAssumption DEF InPut, Range, Threads
<1> QED BY <1>1, <1>2, <1>3, <1>4, <1>5, <1>6 DEF IInv

LEMMA StepInv == IInv /\ [Next]_vars => IInv'
<1> SUFFICES ASSUME IInv, [Next]_vars PROVE IInv' OBVIOUS
<1>1. Pointers /\ Places BY TypeParts DEF IInv
<1>2. Effect BY Effects DEF IInv
<1>3. Control' /\ Places' BY StepControl DEF IInv
<1>4. Pointers' /\ Listed' BY <1>1, <1>2, StepListed DEF IInv
<1>5. Jobs' BY <1>1, <1>2, StepJobs DEF IInv
<1>6. Awake' /\ Drains' BY <1>1, StepAwake DEF IInv
<1>7. InPut' BY StepInPut DEF IInv
<1>8. TypeOK' BY <1>3, <1>4, <1>7 DEF TypeOK, Pointers, Places, InPut
<1> QED BY <1>3, <1>4, <1>5, <1>6, <1>7, <1>8 DEF IInv

THEOREM Invariance == Spec => []IInv
<1>1. Init => IInv BY InitInv
<1>2. IInv /\ [Next]_vars => IInv' BY StepInv
<1> QED BY <1>1, <1>2, PTL DEF Spec

-------------------------------------------------------------------------------
(* What follows from it.                                                   *)

(* The type of the state: only threads that are in pop sleep in            *)
(* workerCondition, only threads that are in waitUntilCompletion in        *)
(* waiterCondition, and the pointers of the queue are tasks or null.       *)
THEOREM TypeCorrect == Spec => []TypeOK
<1>1. IInv => TypeOK BY DEF IInv
<1> QED BY <1>1, Invariance, PTL

(* popNoSync, deleteItemNoSync, abstractPutNoSync and                      *)
(* abstractPutGroupNoSync keep one doubly linked list of tasks that are    *)
(* not started, tail is its last, and a task that has left it points       *)
(* nowhere: however many threads put, take and force tasks.                *)
THEOREM QueueAlwaysWellFormed == Spec => []QueueWellFormed
<1>1. IInv => QueueWellFormed
  <2> SUFFICES ASSUME IInv PROVE QueueWellFormed OBVIOUS
  <2>1. PICK q : /\ Chain(q)
                 /\ \A k \in Range(q) : k \in Submitted /\ taskStatus[k] = "notStarted"
    BY DEF IInv, Listed
  <2>2. Queue = q BY <2>1, QueueIsChain, TypeParts DEF IInv
  <2>3. /\ q \in Seq(Tasks) /\ Distinct(q) /\ head = Item(q, 1)
        /\ q # <<>> => tail = Item(q, Len(q))
        /\ \A i \in 1..Len(q) : next[q[i]] = Item(q, i + 1) /\ prev[q[i]] = Item(q, i - 1)
        /\ \A t \in Tasks \ Range(q) : next[t] = Null /\ prev[t] = Null
    BY <2>1 DEF Chain
  <2>4. Len(q) \in Nat /\ DOMAIN q = 1..Len(q) BY <2>3
  <2>5. \A i \in DOMAIN q : prev[q[i]] = IF i = 1 THEN Null ELSE q[i - 1]
    <3> SUFFICES ASSUME NEW i \in 1..Len(q)
                 PROVE  prev[q[i]] = IF i = 1 THEN Null ELSE q[i - 1]
      BY <2>4
    <3>1. i # 1 => i - 1 \in 1..Len(q) BY <2>4
    <3>2. i = 1 => i - 1 \notin 1..Len(q) BY <2>4
    <3> QED BY <2>3, <3>1, <3>2 DEF Item
  <2>6. head # Null => tail = Last(q) /\ next[tail] = Null
    <3> SUFFICES ASSUME head # Null PROVE tail = Last(q) /\ next[tail] = Null OBVIOUS
    <3>1. 1 \in 1..Len(q) BY <2>3 DEF Item
    <3>2. Len(q) \in 1..Len(q) /\ q # <<>> /\ Len(q) + 1 \notin 1..Len(q) BY <2>4, <3>1
    <3>3. tail = q[Len(q)] /\ next[tail] = Null BY <2>3, <3>2 DEF Item
    <3> QED BY <3>3 DEF Last
  <2> QED BY <2>1, <2>2, <2>3, <2>5, <2>6 DEF QueueWellFormed
<1> QED BY <1>1, Invariance, PTL

(* A task that a client forces while a worker is about to take it is run   *)
(* by one of the two, and taskStatus says "done" only after it has run.    *)
THEOREM RunAtMostOnce == Spec => []RunOnce
<1>1. IInv => RunOnce
  <2> SUFFICES ASSUME IInv, NEW t \in Tasks
               PROVE  (taskStatus[t] = "done" => runs[t] = 1) /\ runs[t] <= 1
    BY DEF RunOnce
  <2>1. runs[t] \in {0, 1} /\ (taskStatus[t] = "done" => runs[t] = 1)
    BY DEF IInv, Jobs
  <2>2. runs[t] <= 1 BY <2>1
  <2> QED BY <2>1, <2>2
<1> QED BY <1>1, Invariance, PTL

(* No task waits in the queue of a running pool while all workers sleep in *)
(* workerCondition: put wakes one, and one that is awake looks at the      *)
(* queue again before it sleeps.                                           *)
THEOREM NotAllAsleep == Spec => []SomeWorkerAwake
<1>1. IInv => SomeWorkerAwake BY DEF IInv, Awake
<1> QED BY <1>1, Invariance, PTL

(* finish stops the work loops when the queue has been drained, and not    *)
(* before: the thread that sets status to stopNow found it empty, and      *)
(* nobody can have put a task since.                                       *)
THEOREM FinishAlwaysDrains == Spec => []FinishDrains
<1>1. IInv => FinishDrains BY DEF IInv, Drains
<1> QED BY <1>1, Invariance, PTL

-------------------------------------------------------------------------------
(* The FIFO queue that the list implements.                                *)

Executing ==
  [t \in Threads |-> IF pc[t] \in {"own", "ownRun", "job", "jobRun"}
                     THEN job[t] ELSE Null]

Done == {k \in Tasks : taskStatus[k] = "done"}

(* QueueIsChain in the next state. *)
LEMMA QueueAfter == Pointers' => \A q : Chain(q)' => Queue' = q
<1>1. (Pointers => \A q : Chain(q) => Queue = q)' BY QueueIsChain, PTL
<1> QED BY <1>1

(* A task that is not started is executed by nobody. *)
LEMMA NotStartedIsFresh ==
  ASSUME Places, Control, Jobs, NEW k \in Tasks, taskStatus[k] = "notStarted"
  PROVE  k \in Tasks \ (Range(Executing) \cup Done)
<1>1. k \notin Done BY DEF Done
<1>2. ASSUME NEW t \in Threads, k = Executing[t] PROVE FALSE
  <2>1. pc[t] \in Active /\ k = job[t] BY <1>2, TasksAssumption DEF Executing, Active
  <2> QED BY <2>1 DEF Jobs
<1> QED BY <1>1, <1>2 DEF Range, Executing

LEMMA InitRefines == Init => Abstract!Init
<1> SUFFICES ASSUME Init PROVE Abstract!Init OBVIOUS
<1>1. Chain(<<>>) BY DEF Chain, Distinct, Item, Range, Init
<1>2. Queue = <<>> BY <1>1, InitInv, QueueIsChain, TypeParts DEF IInv
<1>3. Executing = [t \in Threads |-> Null] BY DEF Executing, Init
<1>4. Done = {} BY DEF Done, Init
<1> QED BY <1>2, <1>3, <1>4 DEF Abstract!Init, Executing, Done

(* A worker, or a client that helps, takes the oldest; a client that       *)
(* forces a task takes that one, out of the middle or from nowhere.        *)
LEMMA TakesRefines ==
  ASSUME IInv, NEW t \in Threads, NEW k \in Tasks, Takes(t, k)
  PROVE  Abstract!Next
<1>1. PICK q : /\ Chain(q)
               /\ \A u \in Range(q) : u \in Submitted /\ taskStatus[u] = "notStarted"
  BY DEF IInv, Listed
<1>2. Pointers /\ Places /\ Control /\ Jobs BY TypeParts DEF IInv
<1>3. Queue = q BY <1>1, <1>2, QueueIsChain
<1>4. q \in Seq(Tasks) /\ DOMAIN q = 1..Len(q) BY <1>1 DEF Chain
<1>5. Executing[t] = Null BY <1>2 DEF Takes, Executing, Active
<1>6. Executing' = [Executing EXCEPT ![t] = k]
  <2>1. /\ pc'[t] \in {"own", "job"} /\ job'[t] = k
        /\ \A u \in Threads \ {t} : pc'[u] = pc[u] /\ job'[u] = job[u]
    BY <1>2 DEF Takes, OthersStay, Control
  <2> QED BY <2>1 DEF Executing
<1>7. Done' = Done
  <2>1. /\ taskStatus'[k] = "inProgress" /\ taskStatus[k] = "notStarted"
        /\ \A u \in Tasks \ {k} : taskStatus'[u] = taskStatus[u]
    BY <1>2 DEF Takes, Mark, Places
  <2> QED BY <2>1 DEF Done
<1>8. CASE k = head
  <2>1. head # Null /\ PopNoSync BY <1>8, TasksAssumption DEF Takes, DeleteItemNoSync
  <2>2. q # <<>> /\ head = Head(q) /\ Pointers' /\ Chain(Tail(q))'
    BY <1>1, <1>2, <2>1, PopChain
  <2>3. Queue' = Tail(q) BY <2>2, QueueAfter
  <2>4. Abstract!TakeOldest(t)
    BY <1>3, <1>5, <1>6, <1>7, <1>8, <2>2, <2>3
    DEF Abstract!TakeOldest, Abstract!Start, Executing, Done
  <2> QED BY <2>4 DEF Abstract!Next
<1>9. CASE k # head
  <2>1. t \in Clients BY <1>9 DEF Takes
  <2>2. k \in Tasks \ (Range(Executing) \cup Done)
    BY <1>2, NotStartedIsFresh DEF Takes
  <2>3. /\ Pointers'
        /\ \/ \E n \in 1..Len(q) : q[n] = k /\ Chain(RemoveAt(q, n))'
           \/ k \notin Range(q) /\ Chain(q)'
    BY <1>1, <1>2, TakeChain DEF Takes
  <2>4. \/ k \notin Range(q) /\ Queue' = q
        \/ \E n \in DOMAIN q : q[n] = k /\ Queue' = RemoveAt(q, n)
    BY <1>4, <2>3, QueueAfter
  <2>5. Abstract!TakeForced(t, k)
    BY <1>3, <1>5, <1>6, <1>7, <2>2, <2>4
    DEF Abstract!TakeForced, Abstract!Start, Abstract!Fresh, Abstract!Range, Range,
        Abstract!RemoveAt, RemoveAt, Executing, Done
  <2> QED BY <2>1, <2>5 DEF Abstract!Next
<1> QED BY <1>8, <1>9

(* put of one task or of a group of two that are in no pool yet. *)
LEMMA PutsRefines ==
  ASSUME IInv, NEW g \in Groups, Puts(g)
  PROVE  Abstract!Next \/ UNCHANGED <<Queue, Executing, Done>>
<1>1. PICK q : /\ Chain(q)
               /\ \A u \in Range(q) : u \in Submitted /\ taskStatus[u] = "notStarted"
  BY DEF IInv, Listed
<1>2. /\ Pointers /\ Places /\ Control /\ Jobs
      /\ \A u \in Tasks \ Submitted : taskStatus[u] = "notStarted"
  BY TypeParts DEF IInv, Listed
<1>3. Queue = q BY <1>1, <1>2, QueueIsChain
<1>4. Executing' = Executing /\ Done' = Done BY DEF Puts, Executing, Done, Active
<1>5. CASE UNCHANGED queue BY <1>4, <1>5 DEF queue, Queue
<1>6. CASE Enqueue(g)
  <2>1. g \in Seq(Tasks) /\ g # <<>> /\ Distinct(g) /\ Range(g) \subseteq Tasks
    BY GroupFacts
  <2>2. Range(g) \cap Submitted = {} BY DEF Puts
  <2>3. Range(g) \cap Range(q) = {} BY <1>1, <2>2
  <2>4. Pointers' /\ Chain(q \o g)' BY <1>1, <1>2, <1>6, <2>1, <2>3, EnqueueChain
  <2>5. Queue' = Queue \o g BY <1>3, <2>4, QueueAfter
  <2>6. Range(g) \subseteq Tasks \ (Range(Executing) \cup Done)
    BY <1>2, <2>1, <2>2, NotStartedIsFresh
  <2>7. Abstract!Put(g)
    <3>1. Range(g) \subseteq (Tasks \ (Range(Executing) \cup Done)) \ Range(Queue)
      BY <1>3, <2>3, <2>6
    <3> QED
      BY <1>4, <2>5, <3>1
      DEF Abstract!Put, Abstract!Fresh, Abstract!Range, Range, Executing, Done
  <2>8. \E k, u \in Tasks : g = <<k>> \/ (k # u /\ g = <<k, u>>)
    <3>1. CASE \E k \in Tasks : g = <<k>> BY <3>1
    <3>2. CASE g \in {h \in Tasks \X Tasks : h[1] # h[2]} BY <3>2
    <3> QED BY <3>1, <3>2 DEF Groups
  <2> QED BY <2>7, <2>8 DEF Abstract!Next
<1> QED BY <1>5, <1>6 DEF Puts

(* taskStatus is set to done by the thread that has run the task. *)
LEMMA EndsRefines ==
  ASSUME IInv, NEW t \in Threads, Ends(t)
  PROVE  Abstract!Complete(t)
<1>1. Places /\ Control /\ Jobs BY TypeParts DEF IInv
<1>2. /\ pc[t] \in {"ownRun", "jobRun"} /\ pc'[t] \notin Active
      /\ \A u \in Threads \ {t} : pc'[u] = pc[u] /\ job'[u] = job[u]
  BY DEF Ends, OthersStay
<1>3. job[t] \in Tasks /\ Executing[t] = job[t]
  BY <1>1, <1>2 DEF Jobs, Executing, Active
<1>4. Executing[t] # Null BY <1>3, TasksAssumption
<1>5. Executing' = [Executing EXCEPT ![t] = Null] BY <1>2 DEF Executing, Active
<1>6. Done' = Done \cup {Executing[t]} BY <1>1, <1>3 DEF Ends, Mark, Done, Places
<1>7. Queue' = Queue BY DEF Ends, queue, Queue
<1> QED BY <1>4, <1>5, <1>6, <1>7 DEF Abstract!Complete, Executing, Done

LEMMA StepRefines == IInv /\ [Next]_vars => [Abstract!Next]_Abstract!vars
<1> SUFFICES ASSUME IInv, [Next]_vars
             PROVE  Abstract!Next \/ UNCHANGED <<Queue, Executing, Done>>
  BY DEF Abstract!vars, Executing, Done
<1>1. Effect /\ Control BY Effects DEF IInv
<1>2. CASE Same
  <2>1. Queue' = Queue BY <1>2 DEF Same, queue, Queue
  <2>2. Done' = Done BY <1>2 DEF Same, Done
  <2>3. Executing' = Executing BY <1>2 DEF Same, Executing, Active
  <2> QED BY <2>1, <2>2, <2>3
<1>3. ASSUME NEW t \in Threads, NEW k \in Tasks, Takes(t, k) PROVE Abstract!Next
  BY <1>3, TakesRefines
<1>4. ASSUME NEW t \in Threads, Run(t) PROVE UNCHANGED <<Queue, Executing, Done>>
  <2>1. UNCHANGED <<head, tail, next, prev, taskStatus, job>> BY <1>4 DEF Run, queue
  <2>2. Queue' = Queue /\ Done' = Done BY <2>1 DEF Queue, Done
  <2>3. /\ pc[t] \in Active /\ pc'[t] \in Active
        /\ \A u \in Threads \ {t} : pc'[u] = pc[u]
    BY <1>1, <1>4 DEF Run, At, Goto, Control, Active
  <2>4. Executing' = Executing BY <2>1, <2>3 DEF Executing, Active
  <2> QED BY <2>2, <2>4
<1>5. ASSUME NEW t \in Threads, Ends(t) PROVE Abstract!Next
  BY <1>5, EndsRefines DEF Abstract!Next
<1>6. ASSUME NEW g \in Groups, Puts(g)
      PROVE  Abstract!Next \/ UNCHANGED <<Queue, Executing, Done>>
  BY <1>6, PutsRefines
<1> QED BY <1>1, <1>2, <1>3, <1>4, <1>5, <1>6 DEF Effect

(* The pool's linked list is a FIFO queue: tasks are put at its end, alone *)
(* or as a group that stays together, a worker takes the oldest, a client  *)
(* that forces a task takes that one, and a task is executed by one thread *)
(* until taskStatus says that it is done.                                  *)
THEOREM ImplementsQueue == Spec => ImplementsTaskQueue
<1>1. Spec => Abstract!Init /\ [][Abstract!Next]_Abstract!vars
  BY InitRefines, StepRefines, Invariance, PTL DEF Spec
<1> QED BY <1>1 DEF ImplementsTaskQueue, Abstract!Spec
===============================================================================
