-------------------------- MODULE ConcurrencyProofs ---------------------------
(***************************************************************************)
(* std.concurrency: MessageBox for every set of peers, every kind and      *)
(* number of messages and every limit; Registry for all sets of threads    *)
(* and names and arrays of any length (no name leads to a thread that has  *)
(* left).                                                                  *)
(***************************************************************************)
EXTENDS MessageBox, Registry, FiniteSetTheorems, SequenceTheorems, WellFoundedInduction, TLAPS

-------------------------------------------------------------------------------
(* Lists.                                                                  *)

(* Every nonempty set of numbers has a least element: the library states   *)
(* that < is well founded as a fact about a set of pairs.                  *)
LEMMA LeastElement ==
  ASSUME NEW T \in SUBSET Nat, T # {}
  PROVE  Min(T) \in T /\ \A n \in T : Min(T) <= n
<1> DEFINE R == OpToRel(<, Nat)
<1>1. \A x, y \in Nat : x < y => <<x, y>> \in R BY DEF OpToRel
<1>2. IsWellFoundedOn(R, Nat) BY NatLessThanWellFounded
<1> HIDE DEF R
<1>3. PICK x \in T : \A y \in T : <<y, x>> \notin R BY <1>2, WFMin
<1>4. \A y \in T : ~(y < x) BY <1>1, <1>3
<1>5. \E n \in T : \A y \in T : n <= y BY <1>4
<1> QED BY <1>5 DEF Min

LEMMA RangeAppend ==
  ASSUME NEW S, NEW q \in Seq(S), NEW x \in S
  PROVE  Range(Append(q, x)) = Range(q) \cup {x}
<1>1. Len(q) \in Nat /\ DOMAIN q = 1..Len(q) OBVIOUS
<1>2. /\ DOMAIN Append(q, x) = 1..(Len(q) + 1)
      /\ Append(q, x)[Len(q) + 1] = x
      /\ \A i \in 1..Len(q) : Append(q, x)[i] = q[i]
  OBVIOUS
<1>3. 1..(Len(q) + 1) = 1..Len(q) \cup {Len(q) + 1} BY <1>1
<1> QED BY <1>1, <1>2, <1>3 DEF Range

LEMMA RangeEmpty == Range(<<>>) = {}
BY DEF Range

LEMMA RangeMembers ==
  ASSUME NEW S, NEW q \in Seq(S)
  PROVE  Range(q) \subseteq S /\ \A m \in Range(q) : \E i \in 1..Len(q) : m = q[i]
<1>1. DOMAIN q = 1..Len(q) /\ \A i \in 1..Len(q) : q[i] \in S OBVIOUS
<1>2. \A m \in Range(q) : \E i \in 1..Len(q) : m = q[i] BY <1>1 DEF Range
<1>3. Range(q) \subseteq S BY <1>1 DEF Range
<1> QED BY <1>2, <1>3

LEMMA RemoveAtSeq ==
  ASSUME NEW S, NEW q \in Seq(S), NEW n \in 1..Len(q)
  PROVE  /\ RemoveAt(q, n) \in Seq(S)
         /\ Len(RemoveAt(q, n)) = Len(q) - 1
         /\ \A i \in 1..(Len(q) - 1) :
              RemoveAt(q, n)[i] = IF i < n THEN q[i] ELSE q[i + 1]
<1> DEFINE a == SubSeq(q, 1, n - 1)
           b == SubSeq(q, n + 1, Len(q))
<1>1. Len(q) \in Nat /\ n \in Nat /\ n >= 1 /\ n <= Len(q) OBVIOUS
<1>2. a \in Seq(S) /\ Len(a) = n - 1 /\ \A i \in 1..(n - 1) : a[i] = q[i]
  BY <1>1
<1>3. b \in Seq(S) /\ Len(b) = Len(q) - n
      /\ \A i \in 1..(Len(q) - n) : b[i] = q[n + i]
  BY <1>1
<1>4. RemoveAt(q, n) = a \o b BY DEF RemoveAt
<1> HIDE DEF a, b
<1>5. a \o b \in Seq(S) /\ Len(a \o b) = Len(q) - 1
  <2>1. a \o b \in Seq(S) BY <1>2, <1>3
  <2>2. Len(a \o b) = Len(a) + Len(b)
    <3>1. a \in Seq(S) /\ b \in Seq(S) BY <1>2, <1>3
    <3> QED BY <3>1
  <2> QED BY <1>1, <1>2, <1>3, <2>1, <2>2
<1>6. \A i \in 1..(Len(q) - 1) : i < n => (a \o b)[i] = q[i]
  BY <1>1, <1>2, <1>3
<1>7. ASSUME NEW i \in 1..(Len(q) - 1), ~(i < n) PROVE (a \o b)[i] = q[i + 1]
  <2>1. i - (n - 1) \in 1..Len(b) /\ i > Len(a) /\ i <= Len(a) + Len(b)
    BY <1>1, <1>2, <1>3, <1>7
  <2>2. (a \o b)[i] = b[i - Len(a)] BY <1>2, <1>3, <2>1
  <2>3. b[i - (n - 1)] = q[n + (i - (n - 1))] BY <1>3, <2>1
  <2>4. n + (i - (n - 1)) = i + 1 BY <1>1
  <2> QED BY <1>2, <2>2, <2>3, <2>4
<1> QED BY <1>4, <1>5, <1>6, <1>7

(* A list in the order of acceptance. *)
Ordered(q) == \A i, j \in DOMAIN q : i < j => q[i].id < q[j].id

Before(P, Q) == \A m \in P, n \in Q : m.id < n.id
Apart(P, Q) == \A m \in P, n \in Q : m.id # n.id

LEMMA OrderedAppend ==
  ASSUME NEW q \in Seq(Message), NEW x \in Message, Ordered(q), Before(Range(q), {x})
  PROVE  Ordered(Append(q, x))
<1>1. Len(q) \in Nat /\ DOMAIN q = 1..Len(q) OBVIOUS
<1>2. /\ DOMAIN Append(q, x) = 1..(Len(q) + 1)
      /\ Append(q, x)[Len(q) + 1] = x
      /\ \A i \in 1..Len(q) : Append(q, x)[i] = q[i]
  OBVIOUS
<1>3. \A i \in 1..Len(q) : q[i].id < x.id BY <1>1 DEF Before, Range
<1> SUFFICES ASSUME NEW i \in 1..(Len(q) + 1), NEW j \in 1..(Len(q) + 1), i < j
             PROVE  Append(q, x)[i].id < Append(q, x)[j].id
  BY <1>2 DEF Ordered
<1>4. i \in 1..Len(q) BY <1>1
<1>5. CASE j = Len(q) + 1 BY <1>2, <1>3, <1>4, <1>5
<1>6. CASE j \in 1..Len(q) BY <1>1, <1>2, <1>4, <1>6 DEF Ordered
<1> QED BY <1>1, <1>5, <1>6

LEMMA OrderedConcat ==
  ASSUME NEW q \in Seq(Message), NEW r \in Seq(Message),
         Ordered(q), Ordered(r), Before(Range(q), Range(r))
  PROVE  Ordered(q \o r)
<1>1. Len(q) \in Nat /\ DOMAIN q = 1..Len(q) /\ Len(r) \in Nat /\ DOMAIN r = 1..Len(r)
  OBVIOUS
<1>2. /\ DOMAIN (q \o r) = 1..(Len(q) + Len(r))
      /\ \A i \in 1..Len(q) : (q \o r)[i] = q[i]
      /\ \A i \in 1..(Len(q) + Len(r)) : i > Len(q) =>
           (q \o r)[i] = r[i - Len(q)] /\ i - Len(q) \in 1..Len(r)
  OBVIOUS
<1>3. \A i \in 1..Len(q), j \in 1..Len(r) : q[i].id < r[j].id
  BY <1>1 DEF Before, Range
<1> SUFFICES ASSUME NEW i \in 1..(Len(q) + Len(r)), NEW j \in 1..(Len(q) + Len(r)), i < j
             PROVE  (q \o r)[i].id < (q \o r)[j].id
  BY <1>2 DEF Ordered
<1>4. CASE j <= Len(q)
  <2>1. i \in 1..Len(q) /\ j \in 1..Len(q) BY <1>1, <1>4
  <2> QED BY <1>1, <1>2, <2>1 DEF Ordered
<1>5. CASE i <= Len(q) /\ j > Len(q)
  <2>1. i \in 1..Len(q) BY <1>1, <1>5
  <2> QED BY <1>2, <1>3, <1>5, <2>1
<1>6. CASE i > Len(q)
  <2>1. j > Len(q) /\ i - Len(q) < j - Len(q) BY <1>1, <1>6
  <2> QED BY <1>1, <1>2, <1>6, <2>1 DEF Ordered
<1> QED BY <1>1, <1>4, <1>5, <1>6

(* What is left when an element is removed: the others, in their order.    *)
LEMMA RemoveAtOrdered ==
  ASSUME NEW q \in Seq(Message), NEW n \in 1..Len(q), Ordered(q)
  PROVE  /\ Ordered(RemoveAt(q, n))
         /\ Range(RemoveAt(q, n)) = Range(q) \ {q[n]}
         /\ \A m \in Range(RemoveAt(q, n)) : m.id # q[n].id
<1> DEFINE r == RemoveAt(q, n)
<1>1. Len(q) \in Nat /\ DOMAIN q = 1..Len(q) OBVIOUS
<1>2. /\ r \in Seq(Message) /\ Len(r) = Len(q) - 1 /\ DOMAIN r = 1..(Len(q) - 1)
      /\ \A i \in 1..(Len(q) - 1) : r[i] = IF i < n THEN q[i] ELSE q[i + 1]
  <2>1. /\ r \in Seq(Message) /\ Len(r) = Len(q) - 1
        /\ \A i \in 1..(Len(q) - 1) : r[i] = IF i < n THEN q[i] ELSE q[i + 1]
    BY RemoveAtSeq
  <2> HIDE DEF r
  <2>2. DOMAIN r = 1..(Len(q) - 1) BY <2>1
  <2> QED BY <2>1, <2>2
<1> HIDE DEF r
<1>3. \A i, j \in 1..Len(q) : /\ q[i].id \in Nat
                              /\ i < j => q[i].id < q[j].id
                              /\ i # j => q[i].id # q[j].id
  <2>1. \A i \in 1..Len(q) : q[i].id \in Nat BY DEF Message
  <2>2. \A i, j \in 1..Len(q) : i < j => q[i].id < q[j].id BY <1>1 DEF Ordered
  <2>3. \A i, j \in 1..Len(q) : i # j => i < j \/ j < i BY <1>1
  <2> QED BY <2>1, <2>2, <2>3
<1>4. \A i \in 1..(Len(q) - 1) : \E k \in 1..Len(q) : k # n /\ r[i] = q[k]
  <2> TAKE i \in 1..(Len(q) - 1)
  <2>1. i \in 1..Len(q) /\ i + 1 \in 1..Len(q) BY <1>1
  <2>2. CASE i < n BY <1>2, <2>1, <2>2
  <2>3. CASE ~(i < n) BY <1>2, <2>1, <2>3
  <2> QED BY <2>2, <2>3
<1>5. \A k \in 1..Len(q) : k # n => \E i \in 1..(Len(q) - 1) : r[i] = q[k]
  <2> SUFFICES ASSUME NEW k \in 1..Len(q), k # n
               PROVE  \E i \in 1..(Len(q) - 1) : r[i] = q[k]
    OBVIOUS
  <2>1. CASE k < n
    <3>1. k \in 1..(Len(q) - 1) BY <1>1, <2>1
    <3> QED BY <1>2, <2>1, <3>1
  <2>2. CASE k > n
    <3>1. k - 1 \in 1..(Len(q) - 1) /\ ~(k - 1 < n) /\ (k - 1) + 1 = k BY <1>1, <2>2
    <3> QED BY <1>2, <3>1
  <2> QED BY <1>1, <2>1, <2>2
<1>6. Range(r) = Range(q) \ {q[n]}
  <2>1. Range(q) = {q[k] : k \in 1..Len(q)} /\ Range(r) = {r[i] : i \in 1..(Len(q) - 1)}
    BY <1>1, <1>2 DEF Range
  <2>2. \A k \in 1..Len(q) : k # n => q[k] # q[n] BY <1>3
  <2>3. \A m \in Range(r) : m \in Range(q) /\ m # q[n] BY <2>1, <2>2, <1>4
  <2>4. \A m \in Range(q) : m # q[n] => m \in Range(r) BY <2>1, <1>5
  <2> QED BY <2>3, <2>4
<1>7. Ordered(r)
  <2> SUFFICES ASSUME NEW i \in 1..(Len(q) - 1), NEW j \in 1..(Len(q) - 1), i < j
               PROVE  r[i].id < r[j].id
    BY <1>2 DEF Ordered
  <2>1. /\ i \in 1..Len(q) /\ i + 1 \in 1..Len(q) /\ j \in 1..Len(q) /\ j + 1 \in 1..Len(q)
        /\ i < j + 1 /\ i + 1 < j + 1
    BY <1>1
  <2>2. CASE j < n BY <1>2, <1>3, <2>1, <2>2
  <2>3. CASE i < n /\ ~(j < n) BY <1>2, <1>3, <2>1, <2>3
  <2>4. CASE ~(i < n) BY <1>2, <1>3, <2>1, <2>4
  <2> QED BY <2>2, <2>3, <2>4
<1>8. \A m \in Range(r) : m.id # q[n].id
  <2>1. \A m \in Range(r) : \E k \in 1..Len(q) : k # n /\ m = q[k]
    BY <1>2, <1>4 DEF Range
  <2> QED BY <2>1, <1>3
<1> QED BY <1>6, <1>7, <1>8 DEF r

-------------------------------------------------------------------------------
(* What scan does with a list.                                             *)

BoxMessage == {m \in Message : m.type # "priority"}
PtyMessage == {m \in Message : m.type = "priority"}

LEMMA Fields ==
  /\ BoxMessage \subseteq Message /\ PtyMessage \subseteq Message
  /\ \A m \in Message : /\ m.id \in 1..MaxAccepted /\ m.id \in Nat
                        /\ m.type = "linkDead" => m.kind \in Peers
                        /\ m.type # "linkDead" => m.kind \in Kinds
<1>1. MaxAccepted \in Nat BY SendAssumption
<1> QED BY <1>1 DEF BoxMessage, PtyMessage, Message, UserTypes

(* The message stays where it is: it is no notice that ends the call, and  *)
(* an operation that wants it has declined it, which makes it one of D.    *)
Stays(m, W, D) == ~Reported(m) /\ (Wanted(m, W) => m.kind \in Choosy /\ m.id \in D)

LEMMA StopsAtFirst ==
  ASSUME NEW list \in Seq(BoxMessage), NEW W, NEW k \in StopsAt(list, W)
  PROVE  /\ Passed(list, k) \subseteq Range(list) /\ Seen(list, k) \subseteq Range(list)
         /\ \A m \in Passed(list, k) : ~Stops(m, W)
         /\ \/ k = 0 /\ Passed(list, k) = Range(list)
            \/ /\ k \in 1..Len(list) /\ list[k] \in Range(list)
               /\ Passed(list, k) = {list[i] : i \in 1..(k - 1)}
               /\ Wanted(list[k], W) \/ Reported(list[k])
<1>1. /\ k \in 0..Len(list) /\ Len(list) \in Nat /\ DOMAIN list = 1..Len(list)
      /\ k > 0 => Wanted(list[k], W) \/ Reported(list[k])
      /\ \A m \in Passed(list, k) : ~Stops(m, W)
  BY DEF StopsAt
<1>2. CASE k = 0
  <2>1. Passed(list, k) = Range(list) /\ Seen(list, k) = Range(list)
    BY <1>2 DEF Passed, Seen, Range
  <2> QED BY <1>1, <1>2, <2>1
<1>3. CASE k # 0
  <2>1. k \in 1..Len(list) /\ \A i \in 1..(k - 1) : i \in DOMAIN list BY <1>1, <1>3
  <2>2. Passed(list, k) = {list[i] : i \in 1..(k - 1)} BY <1>3 DEF Passed
  <2>3. Passed(list, k) \subseteq Range(list) /\ list[k] \in Range(list)
    BY <1>1, <2>1, <2>2 DEF Range
  <2>4. Seen(list, k) \subseteq Range(list) BY <1>3, <2>3 DEF Seen
  <2> QED BY <1>1, <1>3, <2>1, <2>2, <2>3, <2>4
<1> QED BY <1>2, <1>3

(* The list that is left. *)
LEMMA AfterScanKeeps ==
  ASSUME NEW list \in Seq(BoxMessage), NEW W, NEW k \in StopsAt(list, W), Ordered(list)
  PROVE  /\ AfterScan(list, k) \in Seq(BoxMessage)
         /\ Ordered(AfterScan(list, k))
         /\ Range(AfterScan(list, k)) \subseteq Range(list)
         /\ k = 0 => AfterScan(list, k) = list
         /\ k # 0 => \A m \in Range(AfterScan(list, k)) : m.id # list[k].id
<1>1. list \in Seq(Message) BY Fields
<1>2. CASE k = 0 BY <1>2 DEF AfterScan
<1>3. CASE k # 0
  <2>1. k \in 1..Len(list) BY <1>3, StopsAtFirst
  <2>2. AfterScan(list, k) = RemoveAt(list, k) BY <1>3 DEF AfterScan
  <2>3. RemoveAt(list, k) \in Seq(BoxMessage) BY <2>1, RemoveAtSeq
  <2> QED BY <1>1, <1>3, <2>1, <2>2, <2>3, RemoveAtOrdered
<1> QED BY <1>2, <1>3

(* An operation takes no message, or the one that scan stops at and        *)
(* removes.                                                                *)
LEMMA ScanDelivers ==
  ASSUME NEW list \in Seq(BoxMessage), NEW W, NEW k \in StopsAt(list, W), NEW E,
         Ordered(list), Scan(list, W, k, E)
  PROVE  \/ delivered' = delivered
         \/ \E m \in Range(list) : /\ delivered' = delivered \cup {m.id}
                                   /\ \A n \in Range(AfterScan(list, k)) : n.id # m.id
<1>1. delivered' = IF k > 0 /\ Wanted(list[k], W) THEN delivered \cup {list[k].id}
                                                   ELSE delivered
  BY DEF Scan
<1>2. CASE k > 0
  <2>1. list[k] \in Range(list) BY <1>2, StopsAtFirst
  <2>2. \A n \in Range(AfterScan(list, k)) : n.id # list[k].id BY <1>2, AfterScanKeeps
  <2> QED BY <1>1, <2>1, <2>2
<1>3. CASE ~(k > 0) BY <1>1, <1>3
<1> QED BY <1>2, <1>3

(* The messages that scan goes past stay, those that operations decline    *)
(* are remembered.                                                         *)
LEMMA ScanDeclines ==
  ASSUME NEW list \in Seq(BoxMessage), NEW W, NEW k \in StopsAt(list, W),
         NEW E \in SUBSET (1..MaxAccepted), Scan(list, W, k, E)
  PROVE  /\ declined' \subseteq 1..MaxAccepted /\ E \subseteq declined'
         /\ \A m \in Passed(list, k) : Stays(m, W, declined')
         /\ k = 0 => \A m \in Range(list) : Stays(m, W, declined')
<1> DEFINE D == {m.id : m \in {n \in Passed(list, k) : Wanted(n, W)}}
<1>1. declined' = E \cup D BY DEF Scan
<1>2. /\ Passed(list, k) \subseteq Range(list) /\ (k = 0 => Passed(list, k) = Range(list))
      /\ \A m \in Passed(list, k) : ~Stops(m, W)
  <2>1. Len(list) \in Nat OBVIOUS
  <2> QED BY <2>1, StopsAtFirst
<1>3. Range(list) \subseteq Message BY RangeMembers, Fields
<1>4. D \subseteq 1..MaxAccepted
  <2>1. \A m \in Passed(list, k) : m.id \in 1..MaxAccepted BY <1>2, <1>3, Fields
  <2> QED BY <2>1
<1>5. \A m \in Passed(list, k) : Stays(m, W, declined')
  <2>1. \A m \in Passed(list, k) : Wanted(m, W) => m.id \in D OBVIOUS
  <2> QED BY <1>1, <1>2, <2>1 DEF Stays, Stops
<1> QED BY <1>1, <1>2, <1>4, <1>5

(* onLinkDeadMsg never makes a notice one that ends a call. *)
LEMMA UnlinkForgets ==
  ASSUME links \in [Peers -> {"none", "linked", "spawned"}], owner \in Peers \cup {NoTid},
         NEW seen \in SUBSET Message, Unlink(seen)
  PROVE  /\ links' \in [Peers -> {"none", "linked", "spawned"}]
         /\ owner' \in Peers \cup {NoTid}
         /\ \A m \in Message : Reported(m)' => Reported(m)
<1> DEFINE dead == {m.kind : m \in {n \in seen : n.type = "linkDead"}}
<1>1. /\ links' = [p \in Peers |-> IF p \in dead THEN "none" ELSE links[p]]
      /\ owner' = IF owner \in dead THEN NoTid ELSE owner
  BY DEF Unlink
<1> HIDE DEF dead
<1>2. NoTid \notin Peers BY PeersAssumption
<1>3. ASSUME NEW m \in Message, Reported(m)' PROVE Reported(m)
  <2>1. m.type = "linkDead" /\ m.kind \in Peers BY <1>3, Fields DEF Reported
  <2>2. links'[m.kind] = "linked" \/ owner' = m.kind BY <1>3 DEF Reported
  <2> QED BY <1>1, <1>2, <2>1, <2>2 DEF Reported
<1> QED BY <1>1, <1>3

-------------------------------------------------------------------------------
(* What the peers do to the receiver.                                      *)

(* m has been accepted. *)
Added(m) ==
  /\ m.id = accepted + 1
  /\ m.type # "priority" => sharedBox' = Append(sharedBox, m) /\ UNCHANGED sharedPty
  /\ m.type = "priority" => sharedPty' = Append(sharedPty, m) /\ UNCHANGED sharedBox
  /\ accepted' = accepted + 1 /\ accepted' <= MaxAccepted
  /\ putMsg' = {}
  /\ m.type = "standard" => ~MboxFull(localMsgs)

(* A step of another thread: a message is accepted or none is. *)
Outside ==
  /\ UNCHANGED <<local, localMsgs, closed, receiver>>
  /\ \/ UNCHANGED <<sharedBox, sharedPty, putMsg, accepted>>
     \/ \E m \in Message : Added(m)

LEMMA DeliverAdds ==
  ASSUME accepted \in 0..MaxAccepted, accepted < MaxAccepted, putMsg \subseteq {Self},
         NEW type, NEW kind, Deliver(type, kind), ~Crowds(type),
         (type \in UserTypes /\ kind \in Kinds) \/ (type = "linkDead" /\ kind \in Peers)
  PROVE  \E m \in Message : Added(m)
<1> DEFINE m == Numbered(type, kind)
<1>1. MaxAccepted \in Nat BY SendAssumption
<1>2. m = [type |-> type, kind |-> kind, id |-> accepted + 1] BY DEF Numbered
<1>3. accepted + 1 \in 1..MaxAccepted BY <1>1
<1>4. m \in Message BY <1>2, <1>3 DEF Message
<1>5. m.type = type /\ m.id = accepted + 1 BY <1>2
<1>6. putMsg' = {}
  <2>1. putMsg' \in AfterNotify(putMsg) BY DEF Deliver
  <2>2. putMsg = {} \/ putMsg = {Self} BY DEF Self
  <2>3. CASE putMsg = {} BY <2>1, <2>3 DEF AfterNotify
  <2>4. CASE putMsg = {Self}
    <3>1. putMsg # {} /\ \A t \in putMsg : putMsg \ {t} = {} BY <2>4
    <3> QED BY <2>1, <3>1 DEF AfterNotify
  <2> QED BY <2>2, <2>3, <2>4
<1> HIDE DEF m
<1>7. accepted' = accepted + 1 /\ accepted' <= MaxAccepted BY <1>3 DEF Deliver
<1>8. /\ type = "priority" => sharedPty' = Append(sharedPty, m) /\ UNCHANGED sharedBox
      /\ type # "priority" => sharedBox' = Append(sharedBox, m) /\ UNCHANGED sharedPty
  BY DEF Deliver, m
<1>9. type = "standard" => ~MboxFull(localMsgs) BY DEF Crowds
<1>10. Added(m) BY <1>4, <1>5, <1>6, <1>7, <1>8, <1>9 DEF Added
<1> QED BY <1>4, <1>10

(* m_putQueue counts the senders that wait, and there is a number left for *)
(* each of them.                                                           *)
Blocked == {p \in Peers : sender[p] = "blocked"}
Counting == PutQueueCounts /\ accepted + putQueue <= MaxAccepted

PeersOK ==
  /\ putQueue \in Nat /\ notFull \subseteq Peers /\ putMsg \subseteq {Self}
  /\ sender \in [Peers -> {"idle", "blocked", "terminated"}]
  /\ outbox \in [Peers -> Kinds]
  /\ accepted \in 0..MaxAccepted

Places(s) == IF s = "blocked" THEN 1 ELSE 0

LEMMA CountBlocked ==
  ASSUME PeersOK, PutQueueCounts, NEW p \in Peers, NEW to,
         sender' = [sender EXCEPT ![p] = to]
  PROVE  Cardinality(Blocked') = putQueue - Places(sender[p]) + Places(to)
<1>1. IsFiniteSet(Blocked) BY PeersAssumption, FS_Subset DEF Blocked
<1>2. putQueue = Cardinality(Blocked) BY DEF PutQueueCounts, Blocked
<1>3. Cardinality(Blocked) \in Nat BY <1>1, FS_CardinalityType
<1>4. \A q \in Peers : sender'[q] = IF q = p THEN to ELSE sender[q] BY DEF PeersOK
<1>5. Blocked' = {q \in Peers : sender'[q] = "blocked"} BY DEF Blocked
<1>6. p \in Blocked <=> sender[p] = "blocked" BY DEF Blocked
<1>7. to = "blocked" => Blocked' = Blocked \cup {p} BY <1>4, <1>5 DEF Blocked
<1>8. to # "blocked" => Blocked' = Blocked \ {p} BY <1>4, <1>5 DEF Blocked
<1>9. Cardinality(Blocked \cup {p}) =
        IF p \in Blocked THEN Cardinality(Blocked) ELSE Cardinality(Blocked) + 1
  BY <1>1, FS_AddElement
<1>10. Cardinality(Blocked \ {p}) =
         IF p \in Blocked THEN Cardinality(Blocked) - 1 ELSE Cardinality(Blocked)
  BY <1>1, FS_RemoveElement
<1>11. putQueue \in Nat BY DEF PeersOK
<1>12. Places(sender[p]) = IF p \in Blocked THEN 1 ELSE 0 BY <1>6 DEF Places
<1>13. CASE to = "blocked" BY <1>2, <1>7, <1>9, <1>11, <1>12, <1>13 DEF Places
<1>14. CASE to # "blocked"
  <2>1. Places(to) = 0 BY <1>14 DEF Places
  <2>2. Cardinality(Blocked') = putQueue - Places(sender[p])
    BY <1>2, <1>8, <1>10, <1>11, <1>12, <1>14
  <2> QED BY <1>11, <1>12, <2>1, <2>2
<1> QED BY <1>13, <1>14

(* A turn of put, the first one or one after a wait. *)
LEMMA TurnEffect ==
  ASSUME PeersOK, Counting, NEW p \in Peers, NEW type \in UserTypes, NEW kind \in Kinds,
         NEW waited \in {0, 1}, PutTurn(p, type, kind, waited),
         \/ waited = 0 /\ sender[p] # "blocked" /\ accepted + putQueue < MaxAccepted
         \/ waited = 1 /\ sender[p] = "blocked"
  PROVE  /\ PeersOK' /\ Counting'
         /\ \/ UNCHANGED <<sharedBox, sharedPty, putMsg, accepted>>
            \/ \E m \in Message : Added(m)
<1>0. MaxAccepted \in Nat BY SendAssumption
<1>1. /\ putQueue \in Nat /\ accepted \in 0..MaxAccepted /\ accepted \in Nat
      /\ accepted + putQueue <= MaxAccepted
      /\ PutQueueCounts /\ putMsg \subseteq {Self}
  BY <1>0 DEF PeersOK, Counting
<1>2. PutQueueCounts' <=> putQueue' = Cardinality(Blocked')
  BY DEF PutQueueCounts, Blocked
<1>3. sender[p] = "blocked" => putQueue > 0
  <2>2. IsFiniteSet(Blocked) BY PeersAssumption, FS_Subset DEF Blocked
  <2>3. sender[p] = "blocked" => Blocked # {} BY DEF Blocked
  <2>4. putQueue = Cardinality(Blocked) BY <1>1 DEF PutQueueCounts, Blocked
  <2>5. Blocked # {} => Cardinality(Blocked) # 0 BY <2>2, FS_EmptySet
  <2> QED BY <1>1, <2>3, <2>4, <2>5
<1>4. accepted < MaxAccepted BY <1>0, <1>1, <1>3
<1>5. CASE ~Crowds(type) /\ Deliver(type, kind)
           /\ sender' = [sender EXCEPT ![p] = "idle"] /\ putQueue' = putQueue - waited
           /\ UNCHANGED <<notFull, outbox>>
  <2>1. \E m \in Message : Added(m)
    <3>1. Deliver(type, kind) /\ ~Crowds(type) BY <1>5
    <3> QED BY <1>1, <1>4, <3>1, DeliverAdds
  <2>2. accepted' = accepted + 1 /\ putMsg' = {} BY <2>1 DEF Added
  <2>3. putQueue' \in Nat /\ putQueue' = Cardinality(Blocked')
    <3>1. sender' = [sender EXCEPT ![p] = "idle"] BY <1>5
    <3>2. Cardinality(Blocked') = putQueue - Places(sender[p]) + Places("idle")
      BY <1>1, <3>1, CountBlocked
    <3> QED BY <1>1, <1>3, <1>5, <3>2 DEF Places
  <2>4. accepted' + putQueue' <= MaxAccepted /\ accepted' \in 0..MaxAccepted
    BY <1>0, <1>1, <1>3, <1>4, <1>5, <2>2
  <2>5. sender' \in [Peers -> {"idle", "blocked", "terminated"}] BY <1>5 DEF PeersOK
  <2>6. PeersOK' BY <1>5, <2>2, <2>3, <2>4, <2>5 DEF PeersOK
  <2> QED BY <1>2, <2>1, <2>3, <2>4, <2>6 DEF Counting
<1>6. CASE /\ sender' = [sender EXCEPT ![p] = "idle"] /\ putQueue' = putQueue - waited
           /\ UNCHANGED <<notFull, outbox, sharedBox, sharedPty, putMsg, accepted>>
  <2>1. putQueue' \in Nat /\ putQueue' = Cardinality(Blocked')
    <3>1. sender' = [sender EXCEPT ![p] = "idle"] BY <1>6
    <3>2. Cardinality(Blocked') = putQueue - Places(sender[p]) + Places("idle")
      BY <1>1, <3>1, CountBlocked
    <3> QED BY <1>1, <1>3, <1>6, <3>2 DEF Places
  <2>2. accepted' + putQueue' <= MaxAccepted BY <1>0, <1>1, <1>6
  <2>3. sender' \in [Peers -> {"idle", "blocked", "terminated"}] BY <1>6 DEF PeersOK
  <2>4. PeersOK' BY <1>6, <2>1, <2>3 DEF PeersOK
  <2> QED BY <1>2, <1>6, <2>1, <2>2, <2>4 DEF Counting
<1>7. CASE /\ sender' = [sender EXCEPT ![p] = "blocked"]
           /\ outbox' = [outbox EXCEPT ![p] = kind]
           /\ putQueue' = putQueue - waited + 1 /\ notFull' = AfterWait(notFull, p)
           /\ UNCHANGED <<sharedBox, sharedPty, putMsg, accepted>>
  <2>1. putQueue' \in Nat /\ putQueue' = Cardinality(Blocked')
    <3>1. sender' = [sender EXCEPT ![p] = "blocked"] BY <1>7
    <3>2. Cardinality(Blocked') = putQueue - Places(sender[p]) + Places("blocked")
      BY <1>1, <3>1, CountBlocked
    <3> QED BY <1>1, <1>3, <1>7, <3>2 DEF Places
  <2>2. accepted' + putQueue' <= MaxAccepted BY <1>0, <1>1, <1>7
  <2>3. sender' \in [Peers -> {"idle", "blocked", "terminated"}] BY <1>7 DEF PeersOK
  <2>4. outbox' \in [Peers -> Kinds] BY <1>7 DEF PeersOK
  <2>5. notFull' \subseteq Peers BY <1>7 DEF PeersOK, AfterWait
  <2>6. PeersOK' BY <1>7, <2>1, <2>3, <2>4, <2>5 DEF PeersOK
  <2> QED BY <1>2, <1>7, <2>1, <2>2, <2>6 DEF Counting
<1> QED BY <1>5, <1>6, <1>7 DEF PutTurn

(* The parts of TypeOK. *)
ListsOK ==
  /\ sharedBox \in Seq(BoxMessage) /\ localBox \in Seq(BoxMessage)
  /\ arrived \in Seq(BoxMessage)
  /\ sharedPty \in Seq(PtyMessage) /\ localPty \in Seq(PtyMessage)
OwnOK ==
  /\ localMsgs \in Nat /\ closed \in BOOLEAN /\ timed \in BOOLEAN
  /\ receiver \in {"running", "looking", "fetching", "waiting", "sorting",
                   "terminated"}
  /\ ops \subseteq Kinds
  /\ links \in [Peers -> {"none", "linked", "spawned"}]
  /\ owner \in Peers \cup {NoTid}
  /\ declined \subseteq 1..MaxAccepted /\ delivered \subseteq 1..MaxAccepted
LimitOK == limit \in Limits /\ onLimit \in Crowding

LEMMA TypeParts == TypeOK <=> ListsOK /\ PeersOK /\ OwnOK /\ LimitOK
<1>1. ListsOK <=> /\ \A list \in {sharedBox, localBox, arrived} :
                       list \in Seq({m \in Message : m.type # "priority"})
                  /\ \A list \in {sharedPty, localPty} :
                       list \in Seq({m \in Message : m.type = "priority"})
  BY DEF ListsOK, BoxMessage, PtyMessage
<1> QED BY <1>1 DEF TypeOK, PeersOK, OwnOK, LimitOK

(* The same in the next state. *)
LEMMA TypePartsNext == ListsOK' /\ PeersOK' /\ OwnOK' /\ LimitOK' => TypeOK'
BY TypeParts, PTL

LEMMA PeerStep ==
  ASSUME TypeOK, Counting, NEW p \in Peers,
         Send(p) \/ SendAgain(p) \/ SpuriousWakeup(p) \/ Terminate(p)
  PROVE  Outside /\ PeersOK' /\ Counting' /\ UNCHANGED limits
<1>1. PeersOK BY TypeParts
<1>2. /\ MaxAccepted \in Nat /\ putQueue \in Nat /\ accepted \in 0..MaxAccepted
      /\ accepted + putQueue <= MaxAccepted /\ putMsg \subseteq {Self}
  BY <1>1, SendAssumption DEF PeersOK, Counting
<1>3. CASE Send(p)
  <2>1. PICK type \in SendTypes, kind \in Kinds : PutTurn(p, type, kind, 0)
    BY <1>3 DEF Send
  <2>2. type \in UserTypes BY SendAssumption DEF UserTypes
  <2>3. sender[p] # "blocked" /\ accepted + putQueue < MaxAccepted
    BY <1>3 DEF Send, WithinBound
  <2>4. /\ PeersOK' /\ Counting'
        /\ \/ UNCHANGED <<sharedBox, sharedPty, putMsg, accepted>>
           \/ \E m \in Message : Added(m)
    BY <1>1, <2>1, <2>2, <2>3, TurnEffect
  <2>5. UNCHANGED <<local, limits, localMsgs, closed, receiver>> BY <1>3 DEF Send
  <2> QED BY <2>4, <2>5 DEF Outside
<1>4. CASE SendAgain(p)
  <2>1. PutTurn(p, "standard", outbox[p], 1) /\ sender[p] = "blocked"
    BY <1>4 DEF SendAgain
  <2>2. outbox[p] \in Kinds BY <1>1 DEF PeersOK
  <2>3. /\ PeersOK' /\ Counting'
        /\ \/ UNCHANGED <<sharedBox, sharedPty, putMsg, accepted>>
           \/ \E m \in Message : Added(m)
    BY <1>1, <2>1, <2>2, TurnEffect DEF UserTypes
  <2>4. UNCHANGED <<local, limits, localMsgs, closed, receiver>> BY <1>4 DEF SendAgain
  <2> QED BY <2>3, <2>4 DEF Outside
<1>5. CASE SpuriousWakeup(p)
  <2>1. /\ notFull' = notFull \ {p}
        /\ UNCHANGED <<sharedBox, sharedPty, localMsgs, putQueue, closed, putMsg,
                       local, limits, sender, outbox, receiver, accepted>>
    BY <1>5 DEF SpuriousWakeup, peers
  <2>2. PeersOK' BY <1>1, <2>1 DEF PeersOK
  <2>3. Counting' BY <2>1 DEF Counting, PutQueueCounts
  <2> QED BY <2>1, <2>2, <2>3 DEF Outside
<1>6. CASE Terminate(p)
  <2>1. /\ sender[p] = "idle" /\ accepted + putQueue < MaxAccepted
        /\ sender' = [sender EXCEPT ![p] = "terminated"]
        /\ UNCHANGED <<local, limits, localMsgs, putQueue, closed, notFull,
                       receiver, outbox>>
    BY <1>6 DEF Terminate, WithinBound
  <2>2. \/ UNCHANGED <<sharedBox, sharedPty, putMsg, accepted>>
        \/ \E m \in Message : Added(m)
    <3>1. CASE closed BY <1>6, <3>1 DEF Terminate
    <3>2. CASE ~closed
      <4>1. Deliver("linkDead", p) BY <1>6, <3>2 DEF Terminate
      <4>2. accepted < MaxAccepted /\ ~Crowds("linkDead") BY <1>2, <2>1 DEF Crowds
      <4> QED BY <1>2, <4>1, <4>2, DeliverAdds
    <3> QED BY <3>1, <3>2
  <2>3. PeersOK' /\ Counting'
    <3>1. Cardinality(Blocked') = putQueue - Places(sender[p]) + Places("terminated")
      BY <1>1, <2>1, CountBlocked DEF Counting
    <3>2. PutQueueCounts' BY <1>2, <2>1, <3>1 DEF PutQueueCounts, Blocked, Places
    <3>3. accepted' \in 0..MaxAccepted /\ accepted' + putQueue <= MaxAccepted
          /\ putMsg' \subseteq {Self}
      <4>1. CASE UNCHANGED <<putMsg, accepted>> BY <1>2, <4>1
      <4>2. CASE \E m \in Message : Added(m)
        <5>1. accepted' = accepted + 1 /\ putMsg' = {} BY <4>2 DEF Added
        <5> QED BY <1>2, <2>1, <5>1
      <4> QED BY <2>2, <4>1, <4>2
    <3>4. sender' \in [Peers -> {"idle", "blocked", "terminated"}]
      BY <1>1, <2>1 DEF PeersOK
    <3> QED BY <1>1, <2>1, <3>2, <3>3, <3>4 DEF PeersOK, Counting
  <2> QED BY <2>1, <2>2, <2>3 DEF Outside
<1> QED BY <1>3, <1>4, <1>5, <1>6

-------------------------------------------------------------------------------
(* What the receiver does with what it has fetched.                        *)

Fetched == Range(localBox) \cup Range(arrived) \cup Range(localPty)
Shared == Range(sharedBox) \cup Range(sharedPty)

(* Nothing in the messages that the receive that is under way has been     *)
(* through ends it, and it sleeps only when nothing has come.              *)
Sleeping ==
  /\ putMsg # {} => receiver = "waiting" /\ sharedBox = <<>> /\ sharedPty = <<>>
  /\ receiver \in {"looking", "fetching", "waiting"} => localPty = <<>>
  /\ receiver # "sorting" => arrived = <<>>
  /\ receiver \notin {"running", "terminated"} =>
       \A m \in Range(localBox) : Stays(m, ops, declined)

(* The numbers tell which messages are in which list, and which are gone.  *)
Numbers ==
  /\ \A m \in Fetched \cup Shared : m.id <= accepted
  /\ delivered \subseteq 1..accepted
  /\ Ordered(localBox) /\ Ordered(arrived) /\ Ordered(sharedBox)
  /\ Before(Range(localBox), Range(arrived))
  /\ Before(Fetched, Shared)
  /\ Apart(Range(localPty), Range(localBox) \cup Range(arrived))
  /\ Apart(Range(sharedPty), Range(sharedBox))
  /\ \A m \in Range(localBox) \cup Range(arrived) \cup Range(sharedBox) :
       m.id \notin delivered

(* A part of get that goes through what has been fetched: at most one      *)
(* message is taken by an operation, a standard one only when no priority  *)
(* message has been fetched.                                               *)
Handled ==
  /\ UNCHANGED <<sharedBox, sharedPty, accepted>>
  /\ arrived' = <<>> /\ Ordered(localBox')
  /\ Range(localBox') \subseteq Range(localBox) \cup Range(arrived)
  /\ Range(localPty') \subseteq Range(localPty)
  /\ \/ delivered' = delivered
     \/ \E m \in Fetched : /\ delivered' = delivered \cup {m.id}
                           /\ \A n \in Range(localBox') : n.id # m.id
                           /\ m \in Range(localPty) \/ localPty = <<>>

(* links and owner, after some notices have been through onLinkDeadMsg. *)
Forgets ==
  /\ links' \in [Peers -> {"none", "linked", "spawned"}]
  /\ owner' \in Peers \cup {NoTid}
  /\ \A m \in Message : Reported(m)' => Reported(m)

LEMMA TailKeeps ==
  ASSUME NEW S, NEW q \in Seq(S), q # <<>>
  PROVE  /\ Tail(q) \in Seq(S) /\ Range(Tail(q)) \subseteq Range(q)
         /\ Head(q) \in Range(q)
<1>1. Len(q) \in Nat /\ DOMAIN q = 1..Len(q) OBVIOUS
<1>2. /\ Tail(q) \in Seq(S) /\ Len(Tail(q)) = Len(q) - 1 /\ Len(q) > 0
      /\ DOMAIN Tail(q) = 1..(Len(q) - 1)
      /\ \A i \in 1..(Len(q) - 1) : Tail(q)[i] = q[i + 1] /\ i + 1 \in 1..Len(q)
      /\ Head(q) = q[1] /\ 1 \in 1..Len(q)
  OBVIOUS
<1>3. Range(Tail(q)) \subseteq Range(q) BY <1>1, <1>2 DEF Range
<1>4. Head(q) \in Range(q) BY <1>1, <1>2 DEF Range
<1> QED BY <1>2, <1>3, <1>4

LEMMA PtyHandles ==
  ASSUME ListsOK, OwnOK, localPty # <<>>, NEW W, Pty(localPty, W)
  PROVE  /\ localPty' \in Seq(PtyMessage) /\ Range(localPty') \subseteq Range(localPty)
         /\ \/ delivered' = delivered
            \/ \E m \in Range(localPty) : delivered' = delivered \cup {m.id}
         /\ Forgets
<1>1. localPty \in Seq(PtyMessage) BY DEF ListsOK
<1>2. /\ Tail(localPty) \in Seq(PtyMessage) /\ Range(Tail(localPty)) \subseteq Range(localPty)
      /\ Head(localPty) \in Range(localPty)
  BY <1>1, TailKeeps
<1>3. localPty' \in {Tail(localPty), localPty} BY DEF Pty
<1>4. \/ delivered' = delivered
      \/ \E m \in Range(localPty) : delivered' = delivered \cup {m.id}
  BY <1>2 DEF Pty
<1>5. Forgets
  <2>1. UNCHANGED <<links, owner>> BY DEF Pty
  <2> QED BY <2>1 DEF Forgets, OwnOK, Reported
<1> QED BY <1>1, <1>2, <1>3, <1>4, <1>5

LEMMA ScanForgets ==
  ASSUME OwnOK, NEW list \in Seq(BoxMessage), NEW W, NEW k \in StopsAt(list, W), NEW E,
         Scan(list, W, k, E)
  PROVE  Forgets
<1>1. Seen(list, k) \subseteq Range(list) BY StopsAtFirst
<1>2. Range(list) \subseteq BoxMessage BY RangeMembers
<1>3. Seen(list, k) \subseteq Message BY <1>1, <1>2, Fields
<1> QED BY <1>3, UnlinkForgets DEF Scan, OwnOK, Forgets

(* The head of get's loop. *)
LEMMA LookHandles ==
  ASSUME ListsOK, OwnOK, Numbers, arrived = <<>>, NEW W,
         NEW E \in SUBSET (1..MaxAccepted), LookLocally(W, E),
         UNCHANGED <<sharedBox, sharedPty, accepted, arrived>>
  PROVE  /\ Handled /\ Forgets /\ ListsOK' /\ declined' \subseteq 1..MaxAccepted
         /\ receiver' \in {"fetching", "running"}
         /\ receiver' = "fetching" =>
              /\ localPty' = <<>> /\ localBox' = localBox
              /\ \A m \in Range(localBox) : Stays(m, W, declined')
<1>1. /\ localBox \in Seq(BoxMessage) /\ localPty \in Seq(PtyMessage)
      /\ sharedBox' \in Seq(BoxMessage) /\ sharedPty' \in Seq(PtyMessage)
      /\ arrived' \in Seq(BoxMessage)
  BY DEF ListsOK
<1>2. Ordered(localBox) BY DEF Numbers
<1>3. CASE localPty # <<>> /\ Pty(localPty, W) /\ receiver' = "running"
           /\ declined' = E /\ UNCHANGED localBox
  <2>1. /\ localPty' \in Seq(PtyMessage) /\ Range(localPty') \subseteq Range(localPty)
        /\ \/ delivered' = delivered
           \/ \E m \in Range(localPty) : delivered' = delivered \cup {m.id}
        /\ Forgets
    BY <1>3, PtyHandles
  <2>2. \A m \in Range(localPty), n \in Range(localBox) : n.id # m.id
    BY DEF Numbers, Apart
  <2>3. Handled BY <1>2, <1>3, <2>1, <2>2 DEF Handled, Fetched
  <2> QED BY <1>1, <1>3, <2>1, <2>3 DEF ListsOK
<1>4. ASSUME NEW k \in StopsAt(localBox, W), localPty = <<>>, UNCHANGED localPty,
             Scan(localBox, W, k, E), localBox' = AfterScan(localBox, k),
             receiver' = IF k = 0 THEN "fetching" ELSE "running"
      PROVE  /\ Handled /\ Forgets /\ ListsOK' /\ declined' \subseteq 1..MaxAccepted
             /\ receiver' \in {"fetching", "running"}
             /\ receiver' = "fetching" =>
                  /\ localPty' = <<>> /\ localBox' = localBox
                  /\ \A m \in Range(localBox) : Stays(m, W, declined')
  <2>1. Forgets BY <1>1, <1>4, ScanForgets
  <2>2. /\ localBox' \in Seq(BoxMessage) /\ Ordered(localBox')
        /\ Range(localBox') \subseteq Range(localBox)
        /\ k = 0 => localBox' = localBox
    BY <1>1, <1>2, <1>4, AfterScanKeeps
  <2>3. \/ delivered' = delivered
        \/ \E m \in Range(localBox) : /\ delivered' = delivered \cup {m.id}
                                      /\ \A n \in Range(localBox') : n.id # m.id
    BY <1>1, <1>2, <1>4, ScanDelivers
  <2>4. Handled BY <1>4, <2>2, <2>3 DEF Handled, Fetched
  <2>5. /\ declined' \subseteq 1..MaxAccepted
        /\ k = 0 => \A m \in Range(localBox) : Stays(m, W, declined')
    BY <1>1, <1>4, ScanDeclines
  <2>6. ListsOK' BY <1>1, <1>4, <2>2 DEF ListsOK
  <2> QED BY <1>4, <2>1, <2>2, <2>4, <2>5, <2>6
<1> QED BY <1>3, <1>4 DEF LookLocally

(* get after its critical section. *)
LEMMA SortHandles ==
  ASSUME ListsOK, OwnOK, Numbers, Sleeping, Sort
  PROVE  /\ Handled /\ Forgets /\ ListsOK' /\ declined' \subseteq 1..MaxAccepted
         /\ receiver' \in {"looking", "running"}
         /\ receiver' = "looking" =>
              localPty' = <<>> /\ \A m \in Range(localBox') : Stays(m, ops, declined')
<1>1. /\ localBox \in Seq(BoxMessage) /\ localPty \in Seq(PtyMessage)
      /\ arrived \in Seq(BoxMessage)
  BY DEF ListsOK
<1>2. /\ Ordered(localBox) /\ Ordered(arrived) /\ Before(Range(localBox), Range(arrived))
      /\ \A m \in Range(localPty), n \in Range(localBox) \cup Range(arrived) : n.id # m.id
  BY DEF Numbers, Apart
<1>3. /\ arrived' = <<>> /\ UNCHANGED <<sharedBox, sharedPty, accepted>>
      /\ receiver = "sorting" /\ declined \in SUBSET (1..MaxAccepted)
  BY DEF Sort, shared, OwnOK
<1>4. /\ sharedBox' \in Seq(BoxMessage) /\ sharedPty' \in Seq(PtyMessage)
      /\ arrived' \in Seq(BoxMessage)
  BY <1>3 DEF ListsOK
<1>5. ASSUME NEW r \in Seq(BoxMessage), Range(r) \subseteq Range(arrived), Ordered(r),
             localBox' = localBox \o r
      PROVE  /\ localBox' \in Seq(BoxMessage) /\ Ordered(localBox')
             /\ Range(localBox') = Range(localBox) \cup Range(r)
  <2>1. localBox \in Seq(Message) /\ r \in Seq(Message) BY <1>1, Fields
  <2>2. Before(Range(localBox), Range(r)) BY <1>2, <1>5 DEF Before
  <2>3. Ordered(localBox \o r) BY <1>2, <1>5, <2>1, <2>2, OrderedConcat
  <2>4. Range(localBox \o r) = Range(localBox) \cup Range(r) BY <2>1, RangeConcatenation
  <2>5. localBox \o r \in Seq(BoxMessage) BY <1>1
  <2> QED BY <1>5, <2>3, <2>4, <2>5
<1>6. ASSUME NEW k \in StopsAt(arrived, ops), localPty = <<>>, UNCHANGED localPty,
             Scan(arrived, ops, k, declined), localBox' = localBox \o AfterScan(arrived, k),
             receiver' = IF k = 0 THEN "looking" ELSE "running"
      PROVE  /\ Handled /\ Forgets /\ ListsOK' /\ declined' \subseteq 1..MaxAccepted
             /\ receiver' \in {"looking", "running"}
             /\ receiver' = "looking" =>
                  localPty' = <<>> /\ \A m \in Range(localBox') : Stays(m, ops, declined')
  <2>1. Forgets BY <1>1, <1>6, ScanForgets
  <2>2. /\ AfterScan(arrived, k) \in Seq(BoxMessage) /\ Ordered(AfterScan(arrived, k))
        /\ Range(AfterScan(arrived, k)) \subseteq Range(arrived)
        /\ k = 0 => AfterScan(arrived, k) = arrived
    BY <1>1, <1>2, AfterScanKeeps
  <2>3. /\ localBox' \in Seq(BoxMessage) /\ Ordered(localBox')
        /\ Range(localBox') = Range(localBox) \cup Range(AfterScan(arrived, k))
    BY <1>5, <1>6, <2>2
  <2>4. \/ delivered' = delivered
        \/ \E m \in Range(arrived) :
             /\ delivered' = delivered \cup {m.id}
             /\ \A n \in Range(AfterScan(arrived, k)) : n.id # m.id
    BY <1>1, <1>2, <1>6, ScanDelivers
  <2>5. \A m \in Range(arrived), n \in Range(localBox) : n.id # m.id
    <3>1. \A m \in Range(arrived) \cup Range(localBox) : m.id \in Nat
      BY <1>1, RangeMembers, Fields
    <3> QED BY <1>2, <3>1 DEF Before
  <2>6. Handled BY <1>3, <1>6, <2>2, <2>3, <2>4, <2>5 DEF Handled, Fetched
  <2>7. /\ declined' \subseteq 1..MaxAccepted
        /\ k = 0 => \A m \in Range(localBox') : Stays(m, ops, declined')
    <3>1. /\ declined' \subseteq 1..MaxAccepted /\ declined \subseteq declined'
          /\ k = 0 => \A m \in Range(arrived) : Stays(m, ops, declined')
      BY <1>1, <1>3, <1>6, ScanDeclines
    <3>2. \A m \in Range(localBox) : Stays(m, ops, declined) BY <1>3 DEF Sleeping
    <3>3. \A m \in Range(localBox) : Stays(m, ops, declined') BY <3>1, <3>2 DEF Stays
    <3> QED BY <2>2, <2>3, <3>1, <3>3
  <2>8. ListsOK' BY <1>1, <1>4, <1>6, <2>3 DEF ListsOK
  <2> QED BY <1>6, <2>1, <2>6, <2>7, <2>8
<1>7. CASE /\ localPty # <<>> /\ localBox' = localBox \o arrived
           /\ Pty(localPty, ops) /\ receiver' = "running" /\ UNCHANGED declined
  <2>1. /\ localPty' \in Seq(PtyMessage) /\ Range(localPty') \subseteq Range(localPty)
        /\ \/ delivered' = delivered
           \/ \E m \in Range(localPty) : delivered' = delivered \cup {m.id}
        /\ Forgets
    BY <1>7, PtyHandles
  <2>2. /\ localBox' \in Seq(BoxMessage) /\ Ordered(localBox')
        /\ Range(localBox') = Range(localBox) \cup Range(arrived)
    BY <1>1, <1>2, <1>5, <1>7
  <2>3. Handled BY <1>2, <1>3, <2>1, <2>2 DEF Handled, Fetched
  <2> QED BY <1>3, <1>4, <1>7, <2>1, <2>2, <2>3 DEF ListsOK
<1> QED BY <1>6, <1>7 DEF Sort

(* Handling keeps the numbers in order. *)
LEMMA NumbersHandled ==
  ASSUME ListsOK, accepted \in Nat, Numbers, Handled
  PROVE  Numbers'
<1>1. \A m \in Fetched \cup Shared : m.id \in Nat /\ m.id >= 1
  <2>1. Fetched \cup Shared \subseteq Message
    BY RangeMembers, Fields DEF ListsOK, Fetched, Shared
  <2> QED BY <2>1, Fields, SendAssumption
<1>2. Range(arrived') = {} BY RangeEmpty DEF Handled
<1>3. Fetched' = Range(localBox') \cup Range(localPty') BY <1>2 DEF Fetched
<1>4. Fetched' \subseteq Fetched /\ Shared' = Shared
  BY <1>3 DEF Handled, Fetched, Shared
<1>5. \A m \in Fetched' \cup Shared' : m.id <= accepted' BY <1>4 DEF Numbers, Handled
<1>6. delivered' \subseteq 1..accepted'
  <2>1. \A m \in Fetched : m.id \in 1..accepted BY <1>1 DEF Numbers
  <2> QED BY <2>1 DEF Numbers, Handled
<1>7. Ordered(localBox') /\ Ordered(arrived') /\ Ordered(sharedBox')
  BY DEF Numbers, Handled, Ordered
<1>8. Before(Range(localBox'), Range(arrived')) BY <1>2 DEF Before
<1>9. Before(Fetched', Shared') BY <1>4 DEF Numbers, Before
<1>10. Apart(Range(localPty'), Range(localBox') \cup Range(arrived'))
  BY <1>2 DEF Numbers, Handled, Apart
<1>11. Apart(Range(sharedPty'), Range(sharedBox')) BY DEF Numbers, Handled
<1>12. \A m \in Range(localBox') \cup Range(arrived') \cup Range(sharedBox') :
         m.id \notin delivered'
  <2>1. \A m \in Range(localBox') \cup Range(sharedBox') : m.id \notin delivered
    BY DEF Numbers, Handled
  <2>2. \A m \in Fetched, n \in Range(sharedBox') : n.id # m.id
    <3>1. \A m \in Fetched, n \in Range(sharedBox') : m.id < n.id /\ n \in Shared
      BY DEF Numbers, Before, Handled, Shared
    <3> QED BY <1>1, <3>1
  <2>3. CASE delivered' = delivered
    <3>1. \A n \in Range(localBox') \cup Range(sharedBox') : n.id \notin delivered'
      BY <2>1, <2>3
    <3> QED BY <1>2, <3>1
  <2>4. ASSUME NEW m \in Fetched, delivered' = delivered \cup {m.id},
               \A n \in Range(localBox') : n.id # m.id
        PROVE  \A n \in Range(localBox') \cup Range(arrived') \cup Range(sharedBox') :
                 n.id \notin delivered'
    <3>1. \A n \in Range(localBox') \cup Range(sharedBox') : n.id \notin delivered'
      BY <2>1, <2>2, <2>4
    <3> QED BY <1>2, <3>1
  <2>5. CASE delivered' # delivered
    <3>1. PICK m \in Fetched : /\ delivered' = delivered \cup {m.id}
                               /\ \A n \in Range(localBox') : n.id # m.id
      BY <2>5 DEF Handled
    <3> QED BY <2>4, <3>1
  <2> QED BY <2>3, <2>5
<1> QED BY <1>5, <1>6, <1>7, <1>8, <1>9, <1>10, <1>11, <1>12 DEF Numbers

(* A message that is accepted gets the next number. *)
LEMMA NumbersAdded ==
  ASSUME ListsOK, accepted \in Nat, Numbers, NEW x \in Message, Added(x),
         UNCHANGED <<localBox, localPty, arrived, delivered>>
  PROVE  Numbers' /\ ListsOK'
<1>1. \A m \in Fetched \cup Shared : m.id \in Nat /\ m.id <= accepted
  <2>1. Fetched \cup Shared \subseteq Message
    BY RangeMembers, Fields DEF ListsOK, Fetched, Shared
  <2> QED BY <2>1, Fields DEF Numbers
<1>2. /\ x.id = accepted + 1 /\ accepted' = accepted + 1
      /\ sharedBox \in Seq(Message) /\ sharedPty \in Seq(Message)
  BY Fields DEF Added, ListsOK
<1>3. Fetched' = Fetched BY DEF Fetched
<1>4. /\ x.type = "priority" => /\ Range(sharedPty') = Range(sharedPty) \cup {x}
                                /\ sharedBox' = sharedBox
      /\ x.type # "priority" => /\ Range(sharedBox') = Range(sharedBox) \cup {x}
                                /\ sharedPty' = sharedPty
  <2>1. /\ Range(Append(sharedPty, x)) = Range(sharedPty) \cup {x}
        /\ Range(Append(sharedBox, x)) = Range(sharedBox) \cup {x}
    BY <1>2, RangeAppend
  <2> QED BY <2>1 DEF Added
<1>5. Shared' = Shared \cup {x} BY <1>4 DEF Shared
<1>6. \A m \in Fetched \cup Shared : m.id < x.id BY <1>1, <1>2
<1>7. \A m \in Fetched' \cup Shared' : m.id <= accepted' BY <1>1, <1>2, <1>3, <1>5
<1>8. delivered' \subseteq 1..accepted' BY <1>2 DEF Numbers
<1>9. Ordered(sharedBox')
  <2>1. CASE x.type = "priority" BY <1>4, <2>1 DEF Numbers
  <2>2. CASE x.type # "priority"
    <3>1. Before(Range(sharedBox), {x}) BY <1>6 DEF Before, Shared
    <3>2. Ordered(sharedBox) BY DEF Numbers
    <3>3. Ordered(Append(sharedBox, x)) BY <1>2, <3>1, <3>2, OrderedAppend
    <3> QED BY <2>2, <3>3 DEF Added
  <2> QED BY <2>1, <2>2
<1>10. Ordered(localBox') /\ Ordered(arrived') /\ Before(Range(localBox'), Range(arrived'))
       /\ Apart(Range(localPty'), Range(localBox') \cup Range(arrived'))
  BY DEF Numbers
<1>11. Before(Fetched', Shared') BY <1>3, <1>5, <1>6 DEF Numbers, Before
<1>12. Apart(Range(sharedPty'), Range(sharedBox'))
  <2>1. \A m \in Shared : m.id # x.id /\ x.id # m.id BY <1>1, <1>2
  <2> QED BY <1>4, <2>1 DEF Numbers, Apart, Shared
<1>13. \A m \in Range(localBox') \cup Range(arrived') \cup Range(sharedBox') :
         m.id \notin delivered'
  <2>1. x.id \notin delivered BY <1>2 DEF Numbers
  <2> QED BY <1>4, <2>1 DEF Numbers
<1>14. ListsOK'
  <2>1. /\ x.type = "priority" => sharedPty' \in Seq(PtyMessage) /\ sharedBox' = sharedBox
        /\ x.type # "priority" => sharedBox' \in Seq(BoxMessage) /\ sharedPty' = sharedPty
    <3>1. /\ x.type = "priority" => x \in PtyMessage
          /\ x.type # "priority" => x \in BoxMessage
      BY DEF PtyMessage, BoxMessage
    <3>2. /\ x \in PtyMessage => Append(sharedPty, x) \in Seq(PtyMessage)
          /\ x \in BoxMessage => Append(sharedBox, x) \in Seq(BoxMessage)
      BY DEF ListsOK
    <3> QED BY <3>1, <3>2 DEF Added
  <2> QED BY <2>1 DEF ListsOK
<1> QED BY <1>7, <1>8, <1>9, <1>10, <1>11, <1>12, <1>13, <1>14 DEF Numbers

(* What was sent is fetched. *)
LEMMA NumbersFetched ==
  ASSUME ListsOK, accepted \in Nat, Numbers, arrived = <<>>, Fetch
  PROVE  Numbers' /\ ListsOK'
<1>1. /\ localPty' = localPty \o sharedPty /\ sharedPty' = <<>>
      /\ arrived' = sharedBox /\ sharedBox' = <<>>
      /\ UNCHANGED <<localBox, delivered, accepted>>
  BY DEF Fetch
<1>2. ListsOK' BY <1>1 DEF ListsOK
<1>3. /\ Range(localPty') = Range(localPty) \cup Range(sharedPty)
      /\ Range(sharedPty') = {} /\ Range(sharedBox') = {} /\ Range(arrived) = {}
      /\ Range(arrived') = Range(sharedBox)
  <2>1. localPty \in Seq(PtyMessage) /\ sharedPty \in Seq(PtyMessage) BY DEF ListsOK
  <2>2. Range(localPty \o sharedPty) = Range(localPty) \cup Range(sharedPty)
    BY <2>1, RangeConcatenation
  <2> QED BY <1>1, <2>2, RangeEmpty
<1>4. Fetched' = Fetched \cup Shared /\ Shared' = {} BY <1>1, <1>3 DEF Fetched, Shared
<1>5. \A m \in Fetched \cup Shared : m.id \in Nat
  <2>1. Fetched \cup Shared \subseteq Message
    BY RangeMembers, Fields DEF ListsOK, Fetched, Shared
  <2> QED BY <2>1, Fields
<1>6. /\ \A m \in Fetched' \cup Shared' : m.id <= accepted'
      /\ delivered' \subseteq 1..accepted'
  BY <1>1, <1>4 DEF Numbers
<1>7. Ordered(sharedBox') BY <1>1 DEF Ordered
<1>8. Ordered(localBox') /\ Ordered(arrived') BY <1>1 DEF Numbers
<1>9. Before(Range(localBox'), Range(arrived'))
  BY <1>1, <1>3 DEF Numbers, Before, Fetched, Shared
<1>10. Before(Fetched', Shared') BY <1>4 DEF Before
<1>11. Apart(Range(localPty'), Range(localBox') \cup Range(arrived'))
  <2>1. \A m \in Fetched, n \in Shared : m.id # n.id /\ n.id # m.id
    BY <1>5 DEF Numbers, Before
  <2> QED BY <1>1, <1>3, <2>1 DEF Numbers, Apart, Fetched, Shared
<1>12. Apart(Range(sharedPty'), Range(sharedBox')) BY <1>3 DEF Apart
<1>13. \A m \in Range(localBox') \cup Range(arrived') \cup Range(sharedBox') :
         m.id \notin delivered'
  BY <1>1, <1>3 DEF Numbers
<1> QED BY <1>2, <1>6, <1>7, <1>8, <1>9, <1>10, <1>11, <1>12, <1>13 DEF Numbers

LEMMA NumbersClosed ==
  ASSUME ListsOK, OwnOK, accepted \in Nat, Numbers, arrived = <<>>, Close
  PROVE  Numbers' /\ ListsOK' /\ Forgets
<1>1. /\ localBox' = <<>> /\ sharedBox' = <<>>
      /\ UNCHANGED <<sharedPty, localPty, arrived, delivered, accepted>>
  BY DEF Close
<1>2. ListsOK' BY <1>1 DEF ListsOK
<1>3. Range(localBox') = {} /\ Range(sharedBox') = {} /\ Range(arrived') = {}
  BY <1>1, RangeEmpty
<1>4. Fetched' \subseteq Fetched /\ Shared' \subseteq Shared
  BY <1>1, <1>3 DEF Fetched, Shared
<1>5. Ordered(localBox') /\ Ordered(arrived') /\ Ordered(sharedBox') BY <1>1 DEF Ordered
<1>6. Before(Fetched', Shared') BY <1>4 DEF Numbers, Before
<1>7. Forgets
  <2>1. Range(localBox) \cup Range(sharedBox) \subseteq Message
    BY RangeMembers, Fields DEF ListsOK
  <2>2. Unlink(Range(localBox) \cup Range(sharedBox)) BY DEF Close
  <2> QED BY <2>1, <2>2, UnlinkForgets DEF OwnOK, Forgets
<1> QED BY <1>1, <1>2, <1>3, <1>4, <1>5, <1>6, <1>7 DEF Numbers, Before, Apart

-------------------------------------------------------------------------------
(* The invariant.                                                          *)

IInv == TypeOK /\ Counting /\ Sleeping /\ Numbers

LEMMA InitIInv == Init => IInv
<1> SUFFICES ASSUME Init PROVE IInv OBVIOUS
<1>1. /\ sharedBox = <<>> /\ sharedPty = <<>> /\ localBox = <<>> /\ localPty = <<>>
      /\ arrived = <<>> /\ putQueue = 0 /\ putMsg = {} /\ notFull = {}
      /\ receiver = "running" /\ accepted = 0 /\ declined = {} /\ delivered = {}
      /\ sender = [p \in Peers |-> "idle"] /\ localMsgs = 0 /\ ops = {}
      /\ closed = FALSE /\ timed = FALSE /\ limit \in Limits /\ onLimit \in Crowding
  BY DEF Init
<1>2. MaxAccepted \in Nat BY SendAssumption
<1>3. LimitOK /\ ListsOK BY <1>1 DEF LimitOK, ListsOK
<1>4. PeersOK
  <2>1. outbox \in [Peers -> Kinds]
    <3>1. outbox = [p \in Peers |-> CHOOSE k \in Kinds : TRUE] BY DEF Init
    <3>2. (CHOOSE k \in Kinds : TRUE) \in Kinds BY KindsAssumption
    <3> QED BY <3>1, <3>2
  <2> QED BY <1>1, <1>2, <2>1 DEF PeersOK
<1>5. OwnOK
  <2>1. links \in [Peers -> {"none", "linked", "spawned"}] BY DEF Init
  <2>2. owner \in Peers \cup {NoTid} BY DEF Init
  <2> QED BY <1>1, <2>1, <2>2 DEF OwnOK
<1>6. Counting
  <2>1. Blocked = {} BY <1>1 DEF Blocked
  <2>2. putQueue = Cardinality(Blocked) BY <1>1, <2>1, FS_EmptySet
  <2> QED BY <1>1, <1>2, <2>2 DEF Counting, PutQueueCounts, Blocked
<1>7. Sleeping BY <1>1 DEF Sleeping
<1>8. Numbers
  <2>1. Fetched = {} /\ Shared = {} BY <1>1, RangeEmpty DEF Fetched, Shared
  <2> QED BY <1>1, <2>1, RangeEmpty DEF Numbers, Ordered, Before, Apart
<1>9. TypeOK BY <1>3, <1>4, <1>5, TypeParts
<1> QED BY <1>6, <1>7, <1>8, <1>9 DEF IInv

LEMMA Parts ==
  ASSUME IInv
  PROVE  /\ ListsOK /\ PeersOK /\ OwnOK /\ LimitOK /\ Counting /\ Sleeping /\ Numbers
         /\ accepted \in Nat
<1>1. ListsOK /\ PeersOK /\ OwnOK /\ LimitOK BY TypeParts DEF IInv
<1> QED BY <1>1, SendAssumption DEF IInv, PeersOK

(* A step that leaves the peers as they are, but may wake them. *)
LEMMA PeersStay ==
  ASSUME PeersOK, Counting, notFull' \subseteq Peers, putMsg' \subseteq {Self},
         UNCHANGED <<sender, outbox, putQueue, accepted>>
  PROVE  PeersOK' /\ Counting'
BY DEF PeersOK, Counting, PutQueueCounts

(* Nothing that did not end the call before ends it now. *)
LEMMA StillUnmatched ==
  ASSUME Forgets, NEW P \in SUBSET Message, \A m \in P : Stays(m, ops', declined'),
         NEW Q, Q \subseteq P
  PROVE  \A m \in Q : Stays(m, ops, declined)'
BY DEF Forgets, Stays, Wanted

LEMMA OutsideKeeps ==
  ASSUME IInv, Outside, PeersOK', Counting', LimitOK'
  PROVE  IInv'
<1>1. /\ ListsOK /\ OwnOK /\ Sleeping /\ Numbers /\ accepted \in Nat BY Parts
<1>2. /\ UNCHANGED <<localBox, localPty, arrived, ops, timed, links, owner, declined,
                     delivered, localMsgs, closed, receiver>>
  BY DEF Outside, local
<1>3. OwnOK' BY <1>1, <1>2 DEF OwnOK
<1>4. \A m \in Range(localBox) : Stays(m, ops, declined)' <=> Stays(m, ops, declined)
  BY <1>2 DEF Stays, Wanted, Reported
<1>5. CASE UNCHANGED <<sharedBox, sharedPty, putMsg, accepted>>
  <2>1. ListsOK' BY <1>1, <1>2, <1>5 DEF ListsOK
  <2>2. Numbers' BY <1>1, <1>2, <1>5 DEF Numbers, Fetched, Shared, Ordered
  <2>3. Sleeping' BY <1>1, <1>2, <1>4, <1>5 DEF Sleeping
  <2> QED BY <1>3, <2>1, <2>2, <2>3, TypePartsNext DEF IInv
<1>6. CASE \E m \in Message : Added(m)
  <2>1. PICK x \in Message : Added(x) BY <1>6
  <2>2. Numbers' /\ ListsOK' BY <1>1, <1>2, <2>1, NumbersAdded
  <2>3. putMsg' = {} BY <2>1 DEF Added
  <2>4. Sleeping' BY <1>1, <1>2, <1>4, <2>3 DEF Sleeping
  <2> QED BY <1>3, <2>2, <2>4, TypePartsNext DEF IInv
<1> QED BY <1>5, <1>6 DEF Outside

LEMMA PeersKeep ==
  ASSUME IInv, \/ \E p \in Peers :
                    Send(p) \/ SendAgain(p) \/ SpuriousWakeup(p) \/ Terminate(p)
               \/ SetMaxMsgs
  PROVE  IInv'
<1>1. PeersOK /\ Counting /\ LimitOK /\ TypeOK BY Parts DEF IInv
<1>2. ASSUME NEW p \in Peers,
             Send(p) \/ SendAgain(p) \/ SpuriousWakeup(p) \/ Terminate(p)
      PROVE  IInv'
  <2>1. Outside /\ PeersOK' /\ Counting' /\ UNCHANGED limits BY <1>1, <1>2, PeerStep
  <2>2. LimitOK' BY <1>1, <2>1 DEF LimitOK, limits
  <2> QED BY <2>1, <2>2, OutsideKeeps
<1>3. CASE SetMaxMsgs
  <2>1. /\ LimitOK' /\ UNCHANGED <<shared, local, peers, receiver, accepted>>
    BY <1>3 DEF SetMaxMsgs, LimitOK
  <2>2. Outside BY <2>1 DEF Outside, shared
  <2>3. PeersOK' /\ Counting'
    <3>1. UNCHANGED <<sender, outbox, putQueue, accepted, notFull, putMsg>>
      BY <2>1 DEF shared, peers
    <3> QED BY <1>1, <3>1, PeersStay DEF PeersOK
  <2> QED BY <2>1, <2>2, <2>3, OutsideKeeps
<1> QED BY <1>2, <1>3

(* The receiver goes through its own lists. *)
LEMMA LookKeeps ==
  ASSUME IInv, NEW W \in SUBSET Kinds, ops' = W,
         NEW E \in SUBSET (1..MaxAccepted), LookLocally(W, E),
         arrived = <<>>, putMsg = {}, timed' \in BOOLEAN,
         UNCHANGED <<shared, arrived, limits, peers, accepted>>
  PROVE  IInv'
<1>1. /\ ListsOK /\ PeersOK /\ OwnOK /\ LimitOK /\ Counting /\ Numbers
      /\ accepted \in Nat
  BY Parts
<1>2. UNCHANGED <<sharedBox, sharedPty, accepted, arrived, localMsgs, putQueue, closed,
                  putMsg, notFull, sender, outbox, limit, onLimit>>
  BY DEF shared, limits, peers
<1>3. /\ Handled /\ Forgets /\ ListsOK' /\ declined' \subseteq 1..MaxAccepted
      /\ receiver' \in {"fetching", "running"}
      /\ receiver' = "fetching" => /\ localPty' = <<>> /\ localBox' = localBox
                                   /\ \A m \in Range(localBox) : Stays(m, W, declined')
  BY <1>1, <1>2, LookHandles
<1>4. Numbers' BY <1>1, <1>3, NumbersHandled
<1>5. PeersOK' /\ Counting' BY <1>1, <1>2, PeersStay DEF PeersOK
<1>6. delivered' \subseteq 1..MaxAccepted
  <2>1. delivered' \subseteq 1..accepted' BY <1>4 DEF Numbers
  <2>2. accepted' \in 0..MaxAccepted BY <1>5 DEF PeersOK
  <2> QED BY <2>1, <2>2, SendAssumption
<1>7. OwnOK' /\ LimitOK' BY <1>1, <1>2, <1>3, <1>6 DEF OwnOK, LimitOK, Forgets
<1>8. Sleeping'
  <2>1. CASE receiver' = "running" BY <1>2, <2>1 DEF Sleeping
  <2>2. CASE receiver' = "fetching"
    <3>1. Range(localBox) \subseteq Message BY <1>1, RangeMembers, Fields DEF ListsOK
    <3>2. \A m \in Range(localBox') : Stays(m, ops, declined)'
      BY <1>3, <2>2, <3>1, StillUnmatched
    <3> QED BY <1>2, <1>3, <2>2, <3>2 DEF Sleeping
  <2> QED BY <1>3, <2>1, <2>2
<1> QED BY <1>3, <1>4, <1>5, <1>7, <1>8, TypePartsNext DEF IInv

LEMMA SortKeeps ==
  ASSUME IInv, Sort
  PROVE  IInv'
<1>1. /\ ListsOK /\ PeersOK /\ OwnOK /\ LimitOK /\ Counting /\ Sleeping /\ Numbers
      /\ accepted \in Nat
  BY Parts
<1>2. /\ UNCHANGED <<sharedBox, sharedPty, accepted, localMsgs, putQueue, closed, putMsg,
                     notFull, sender, outbox, limit, onLimit, ops, timed>>
      /\ receiver = "sorting"
  BY DEF Sort, shared, limits, peers
<1>3. /\ Handled /\ Forgets /\ ListsOK' /\ declined' \subseteq 1..MaxAccepted
      /\ receiver' \in {"looking", "running"}
      /\ receiver' = "looking" =>
           localPty' = <<>> /\ \A m \in Range(localBox') : Stays(m, ops, declined')
  BY <1>1, SortHandles
<1>4. Numbers' BY <1>1, <1>3, NumbersHandled
<1>5. PeersOK' /\ Counting' BY <1>1, <1>2, PeersStay DEF PeersOK
<1>6. delivered' \subseteq 1..MaxAccepted
  <2>1. delivered' \subseteq 1..accepted' BY <1>4 DEF Numbers
  <2>2. accepted' \in 0..MaxAccepted BY <1>5 DEF PeersOK
  <2> QED BY <2>1, <2>2, SendAssumption
<1>7. OwnOK' /\ LimitOK' BY <1>1, <1>2, <1>3, <1>6 DEF OwnOK, LimitOK, Forgets
<1>8. Sleeping'
  <2>1. putMsg' = {} /\ arrived' = <<>> BY <1>1, <1>2, <1>3 DEF Sleeping, Handled
  <2>2. CASE receiver' = "running" BY <2>1, <2>2 DEF Sleeping
  <2>3. CASE receiver' = "looking"
    <3>1. Range(localBox') \subseteq Message
      BY <1>3, RangeMembers, Fields DEF ListsOK
    <3>2. \A m \in Range(localBox') : Stays(m, ops, declined)'
      BY <1>2, <1>3, <2>3, <3>1, StillUnmatched
    <3> QED BY <1>3, <2>1, <2>3, <3>2 DEF Sleeping
  <2> QED BY <1>3, <2>2, <2>3
<1> QED BY <1>3, <1>4, <1>5, <1>7, <1>8, TypePartsNext DEF IInv

(* The receiver waits, or is woken. *)
LEMMA WaitKeeps ==
  ASSUME IInv, Wait \/ Timeout \/ SpuriousWakeupOfReceiver
  PROVE  IInv'
<1>1. /\ ListsOK /\ PeersOK /\ OwnOK /\ LimitOK /\ Counting /\ Sleeping /\ Numbers
  BY Parts
<1>2. /\ UNCHANGED <<sharedBox, sharedPty, putQueue, closed, localBox, localPty, arrived,
                     ops, timed, links, owner, declined, delivered, limit, onLimit,
                     sender, outbox, accepted>>
      /\ notFull' \subseteq Peers /\ putMsg' \subseteq {Self}
      /\ receiver' \in {"waiting", "running"} /\ localMsgs' \in Nat
      /\ receiver \in {"fetching", "waiting"}
      /\ putMsg' # {} => receiver' = "waiting" /\ sharedBox = <<>> /\ sharedPty = <<>>
  <2>1. CASE Wait
    <3>1. /\ UNCHANGED <<sharedBox, sharedPty, putQueue, closed, local, limits, peers,
                         accepted>>
          /\ sharedBox = <<>> /\ sharedPty = <<>> /\ receiver' = "waiting"
          /\ receiver \in {"fetching", "waiting"} /\ notFull' \in {{}, notFull}
          /\ putMsg' = putMsg \cup {Self} /\ localMsgs' \in {Len(localBox), localMsgs}
      BY <2>1 DEF Wait, AfterWait, AfterNotifyAll
    <3>2. Len(localBox) \in Nat /\ localMsgs \in Nat BY <1>1 DEF ListsOK, OwnOK
    <3> QED BY <1>1, <3>1, <3>2 DEF local, limits, peers, PeersOK
  <2>2. CASE Timeout
    <3>1. /\ UNCHANGED <<sharedBox, sharedPty, localMsgs, putQueue, closed, notFull,
                         local, limits, peers, accepted>>
          /\ putMsg' = {} /\ receiver = "waiting" /\ receiver' = "running"
      BY <2>2 DEF Timeout
    <3> QED BY <1>1, <3>1 DEF local, limits, peers, PeersOK, OwnOK
  <2>3. CASE SpuriousWakeupOfReceiver
    <3>1. /\ UNCHANGED <<sharedBox, sharedPty, localMsgs, putQueue, closed, notFull,
                         local, limits, peers, receiver, accepted>>
          /\ putMsg' = {} /\ receiver = "waiting"
      BY <2>3 DEF SpuriousWakeupOfReceiver
    <3> QED BY <1>1, <3>1 DEF local, limits, peers, PeersOK, OwnOK
  <2> QED BY <2>1, <2>2, <2>3
<1>3. PeersOK' /\ Counting' BY <1>1, <1>2, PeersStay
<1>4. ListsOK' /\ OwnOK' /\ LimitOK' BY <1>1, <1>2 DEF ListsOK, OwnOK, LimitOK
<1>5. Numbers' BY <1>1, <1>2 DEF Numbers, Fetched, Shared, Ordered
<1>6. Sleeping'
  <2>1. \A m \in Range(localBox) :
          Stays(m, ops, declined)' <=> Stays(m, ops, declined)
    BY <1>2 DEF Stays, Wanted, Reported
  <2>2. CASE receiver' = "running" BY <1>1, <1>2, <2>2 DEF Sleeping
  <2>3. CASE receiver' = "waiting" BY <1>1, <1>2, <2>1, <2>3 DEF Sleeping
  <2> QED BY <1>2, <2>2, <2>3
<1> QED BY <1>3, <1>4, <1>5, <1>6, TypePartsNext DEF IInv

LEMMA FetchKeeps ==
  ASSUME IInv, Fetch
  PROVE  IInv'
<1>1. /\ ListsOK /\ PeersOK /\ OwnOK /\ LimitOK /\ Counting /\ Sleeping /\ Numbers
      /\ accepted \in Nat
  BY Parts
<1>2. /\ UNCHANGED <<localBox, putQueue, closed, putMsg, notFull, ops, timed, links,
                     owner, declined, delivered, limit, onLimit, sender, outbox, accepted>>
      /\ receiver \in {"fetching", "waiting"} /\ receiver' = "sorting"
      /\ localMsgs' \in {Len(localBox), localMsgs}
      /\ sharedPty # <<>> \/ sharedBox # <<>>
  BY DEF Fetch, limits, peers
<1>3. arrived = <<>> /\ putMsg = {} BY <1>1, <1>2 DEF Sleeping
<1>4. Numbers' /\ ListsOK' BY <1>1, <1>3, NumbersFetched
<1>5. PeersOK' /\ Counting' BY <1>1, <1>2, PeersStay DEF PeersOK
<1>6. OwnOK' /\ LimitOK'
  <2>1. Len(localBox) \in Nat /\ localMsgs \in Nat BY <1>1 DEF ListsOK, OwnOK
  <2> QED BY <1>1, <1>2, <2>1 DEF OwnOK, LimitOK
<1>7. Sleeping'
  <2>1. \A m \in Range(localBox) :
          Stays(m, ops, declined)' <=> Stays(m, ops, declined)
    BY <1>2 DEF Stays, Wanted, Reported
  <2> QED BY <1>1, <1>2, <1>3, <2>1 DEF Sleeping
<1> QED BY <1>4, <1>5, <1>6, <1>7, TypePartsNext DEF IInv

LEMMA CloseKeeps ==
  ASSUME IInv, Close
  PROVE  IInv'
<1>1. /\ ListsOK /\ PeersOK /\ OwnOK /\ LimitOK /\ Counting /\ Sleeping /\ Numbers
      /\ accepted \in Nat
  BY Parts
<1>2. /\ UNCHANGED <<sharedPty, localMsgs, putQueue, putMsg, notFull, localPty, arrived,
                     ops, timed, declined, delivered, limit, onLimit, sender, outbox,
                     accepted>>
      /\ receiver = "running" /\ receiver' = "terminated" /\ closed' = TRUE
  BY DEF Close, limits, peers
<1>3. arrived = <<>> /\ putMsg = {} BY <1>1, <1>2 DEF Sleeping
<1>4. Numbers' /\ ListsOK' /\ Forgets BY <1>1, <1>3, NumbersClosed
<1>5. PeersOK' /\ Counting' BY <1>1, <1>2, PeersStay DEF PeersOK
<1>6. OwnOK' /\ LimitOK' BY <1>1, <1>2, <1>4 DEF OwnOK, LimitOK, Forgets
<1>7. Sleeping' BY <1>2, <1>3 DEF Sleeping
<1> QED BY <1>4, <1>5, <1>6, <1>7, TypePartsNext DEF IInv

LEMMA NextIInv == IInv /\ [Next]_vars => IInv'
<1> SUFFICES ASSUME IInv, [Next]_vars PROVE IInv' OBVIOUS
<1>1. OwnOK /\ Sleeping BY Parts
<1>2. CASE \/ \E p \in Peers :
                Send(p) \/ SendAgain(p) \/ SpuriousWakeup(p) \/ Terminate(p)
           \/ SetMaxMsgs
  BY <1>2, PeersKeep
<1>3. CASE Receive
  <2>1. PICK W \in OpSets : ops' = W /\ LookLocally(W, {}) BY <1>3 DEF Receive
  <2>2. W \in SUBSET Kinds BY SendAssumption
  <2>3. arrived = <<>> /\ putMsg = {} BY <1>1, <1>3 DEF Receive, Sleeping
  <2>4. timed' \in BOOLEAN /\ UNCHANGED <<shared, arrived, limits, peers, accepted>>
    BY <1>3 DEF Receive
  <2> QED BY <2>1, <2>2, <2>3, <2>4, LookKeeps
<1>4. CASE LookAgain
  <2>1. /\ ops' = ops /\ LookLocally(ops, declined) /\ ops \in SUBSET Kinds
        /\ declined \in SUBSET (1..MaxAccepted)
    BY <1>1, <1>4 DEF LookAgain, OwnOK
  <2>2. arrived = <<>> /\ putMsg = {} BY <1>1, <1>4 DEF LookAgain, Sleeping
  <2>3. timed' \in BOOLEAN /\ UNCHANGED <<shared, arrived, limits, peers, accepted>>
    BY <1>1, <1>4 DEF LookAgain, OwnOK
  <2> QED BY <2>1, <2>2, <2>3, LookKeeps
<1>5. CASE Fetch BY <1>5, FetchKeeps
<1>6. CASE Wait \/ Timeout \/ SpuriousWakeupOfReceiver BY <1>6, WaitKeeps
<1>7. CASE Sort BY <1>7, SortKeeps
<1>8. CASE Close BY <1>8, CloseKeeps
<1>9. CASE UNCHANGED vars
  BY <1>9 DEF vars, shared, local, limits, peers, IInv, TypeOK, Counting, PutQueueCounts,
     Sleeping, Stays, Wanted, Reported, Numbers, Fetched, Shared, Ordered
<1> QED BY <1>2, <1>3, <1>4, <1>5, <1>6, <1>7, <1>8, <1>9 DEF Next

LEMMA Invariance == Spec => []IInv
<1> QED BY InitIInv, NextIInv, PTL DEF Spec

-------------------------------------------------------------------------------
(* The state has its type in every mailbox. *)
THEOREM TypeCorrect == Spec => []TypeOK
<1>1. IInv => TypeOK BY DEF IInv
<1> QED BY <1>1, Invariance, PTL

(* m_putQueue is the number of senders in m_notFull or on their way out of *)
(* it, whatever they do when they are woken: the count on which get decides *)
(* to notify them is never short and never left over.                      *)
THEOREM PutQueueExact == Spec => []PutQueueCounts
<1>1. IInv => PutQueueCounts BY DEF IInv, Counting
<1> QED BY <1>1, Invariance, PTL

(* However many threads send and terminate while get has let go of the     *)
(* lock, the receiver never sleeps on a message that its receive matches   *)
(* and has not declined, on the end of its owner or of a linked thread, or *)
(* on a priority message.                                                  *)
THEOREM NoLostWakeup == Spec => []SleepsOnlyWithoutMatch
<1>1. IInv => SleepsOnlyWithoutMatch
  <2> SUFFICES ASSUME IInv, putMsg # {}
               PROVE  /\ Urgent = <<>>
                      /\ \A m \in Pending : Stays(m, ops, declined)
    BY DEF SleepsOnlyWithoutMatch, Stays
  <2>1. ListsOK /\ Sleeping BY Parts
  <2>2. /\ localPty = <<>> /\ sharedPty = <<>> /\ arrived = <<>> /\ sharedBox = <<>>
        /\ \A m \in Range(localBox) : Stays(m, ops, declined)
    BY <2>1 DEF Sleeping
  <2>3. Queue = localBox /\ Urgent = <<>> BY <2>1, <2>2 DEF Queue, Urgent, ListsOK
  <2> QED BY <2>2, <2>3 DEF Pending
<1> QED BY <1>1, Invariance, PTL

(* The messages of the mailbox that are not urgent. *)
LEMMA PendingParts ==
  ASSUME ListsOK
  PROVE  /\ Queue \in Seq(BoxMessage) /\ Urgent \in Seq(PtyMessage)
         /\ Pending = Range(localBox) \cup Range(arrived) \cup Range(sharedBox)
         /\ Range(Urgent) = Range(localPty) \cup Range(sharedPty)
<1>1. /\ localBox \in Seq(BoxMessage) /\ arrived \in Seq(BoxMessage)
      /\ sharedBox \in Seq(BoxMessage) /\ localPty \in Seq(PtyMessage)
      /\ sharedPty \in Seq(PtyMessage)
  BY DEF ListsOK
<1>2. localBox \o arrived \in Seq(BoxMessage) BY <1>1, ConcatProperties
<1>3. (localBox \o arrived) \o sharedBox \in Seq(BoxMessage) BY <1>1, <1>2, ConcatProperties
<1>4. localPty \o sharedPty \in Seq(PtyMessage) BY <1>1, ConcatProperties
<1>5. Range(localBox \o arrived) = Range(localBox) \cup Range(arrived)
  BY <1>1, RangeConcatenation
<1>6. Range((localBox \o arrived) \o sharedBox)
        = Range(localBox \o arrived) \cup Range(sharedBox)
  <2> DEFINE p == localBox \o arrived
  <2> HIDE DEF p
  <2>1. p \in Seq(BoxMessage) BY <1>2 DEF p
  <2>2. Range(p \o sharedBox) = Range(p) \cup Range(sharedBox)
    BY <1>1, <2>1, RangeConcatenation
  <2> QED BY <2>2 DEF p
<1>7. Range(localPty \o sharedPty) = Range(localPty) \cup Range(sharedPty)
  BY <1>1, RangeConcatenation
<1> QED BY <1>3, <1>4, <1>5, <1>6, <1>7 DEF Queue, Urgent, Pending

(* A standard message that an operation has taken is in no list, while one *)
(* that operations have declined stays to be tried again: however often    *)
(* operations are run on it, in this receive and the next ones, one takes  *)
(* it at most.  Priority messages, which stay in their list when their     *)
(* operation throws, are not covered.                                      *)
THEOREM EachDeliveredOnce == Spec => []DeliveredOnce
<1>1. IInv => DeliveredOnce
  <2> SUFFICES ASSUME IInv PROVE DeliveredOnce OBVIOUS
  <2>1. ListsOK /\ Numbers BY Parts
  <2> QED BY <2>1, PendingParts DEF Numbers, DeliveredOnce
<1> QED BY <1>1, Invariance, PTL

(* Only in get's three visits to the fetched lists is a message taken. *)
LEMMA DeliversInHandled ==
  ASSUME IInv, [Next]_vars
  PROVE  delivered' = delivered \/ Handled
<1>1. ListsOK /\ OwnOK /\ Sleeping /\ Numbers BY Parts
<1>2. CASE Receive
  <2>1. PICK W \in OpSets : LookLocally(W, {}) BY <1>2 DEF Receive
  <2>2. arrived = <<>> BY <1>1, <1>2 DEF Receive, Sleeping
  <2>3. UNCHANGED <<sharedBox, sharedPty, accepted, arrived>>
    BY <1>2 DEF Receive, shared
  <2> QED BY <1>1, <2>1, <2>2, <2>3, LookHandles
<1>3. CASE LookAgain
  <2>1. LookLocally(ops, declined) /\ declined \in SUBSET (1..MaxAccepted)
    BY <1>1, <1>3 DEF LookAgain, OwnOK
  <2>2. arrived = <<>> BY <1>1, <1>3 DEF LookAgain, Sleeping
  <2>3. UNCHANGED <<sharedBox, sharedPty, accepted, arrived>>
    BY <1>3 DEF LookAgain, shared
  <2> QED BY <1>1, <2>1, <2>2, <2>3, LookHandles
<1>4. CASE Sort BY <1>1, <1>4, SortHandles
<1>5. CASE \E p \in Peers :
             Send(p) \/ SendAgain(p) \/ SpuriousWakeup(p) \/ Terminate(p)
  <2>1. UNCHANGED local BY <1>5 DEF Send, SendAgain, SpuriousWakeup, Terminate
  <2> QED BY <2>1 DEF local
<1>6. CASE SetMaxMsgs \/ Fetch \/ Wait \/ Timeout \/ Close \/ SpuriousWakeupOfReceiver
           \/ UNCHANGED vars
  BY <1>6 DEF SetMaxMsgs, Fetch, Wait, Timeout, Close, SpuriousWakeupOfReceiver, vars,
     local
<1> QED BY <1>2, <1>3, <1>4, <1>5, <1>6 DEF Next

(* No operation takes a standard message while a priority message that was *)
(* accepted before it waits, in whichever list either of them is.          *)
THEOREM PriorityFirst == Spec => PriorityNotOvertaken
<1> DEFINE A == \A m \in Pending : m.id \in delivered' =>
                  \A n \in Range(Urgent) : n.id > m.id
<1>1. IInv /\ [Next]_vars => A
  <2> SUFFICES ASSUME IInv, [Next]_vars, NEW m \in Pending, m.id \in delivered',
                      NEW n \in Range(Urgent)
               PROVE  n.id > m.id
    OBVIOUS
  <2>1. ListsOK /\ Numbers BY Parts
  <2>2. /\ m \in Range(localBox) \cup Range(arrived) \cup Range(sharedBox)
        /\ n \in Range(localPty) \cup Range(sharedPty)
    BY <2>1, PendingParts
  <2>3. m.id \notin delivered BY <2>1, <2>2 DEF Numbers
  <2>4. Handled BY <2>3, DeliversInHandled
  <2>5. PICK x \in Fetched : /\ delivered' = delivered \cup {x.id}
                             /\ x \in Range(localPty) \/ localPty = <<>>
    BY <2>3, <2>4 DEF Handled
  <2>6. x.id = m.id BY <2>3, <2>5
  <2>7. \A y \in Fetched \cup Shared : y.id \in Nat
    <3>1. Fetched \cup Shared \subseteq Message
      BY <2>1, RangeMembers, Fields DEF ListsOK, Fetched, Shared
    <3> QED BY <3>1, Fields
  <2>8. Before(Fetched, Shared) /\ Apart(Range(localPty), Range(localBox) \cup Range(arrived))
    BY <2>1 DEF Numbers
  <2>9. m \in Fetched \cup Shared /\ n \in Fetched \cup Shared
    BY <2>2 DEF Fetched, Shared
  <2>10. m \notin Range(sharedBox)
    <3>1. m \in Range(sharedBox) => x.id < m.id BY <2>8 DEF Before, Shared
    <3> QED BY <2>6, <2>7, <3>1
  <2>11. x \notin Range(localPty) BY <2>2, <2>6, <2>8, <2>10 DEF Apart
  <2>12. n \in Shared BY <2>2, <2>5, <2>11, RangeEmpty DEF Shared
  <2>13. m.id < n.id BY <2>2, <2>8, <2>10, <2>12 DEF Before, Fetched
  <2> QED BY <2>7, <2>9, <2>13
<1>2. IInv /\ [Next]_vars => [A]_vars BY <1>1
<1>3. PriorityNotOvertaken <=> [][A]_vars BY DEF PriorityNotOvertaken
<1> HIDE DEF A
<1> QED BY <1>2, <1>3, Invariance, PTL DEF Spec

-------------------------------------------------------------------------------
(* Who sleeps in m_notFull, and when.                                      *)

Sleepers == notFull \subseteq Blocked

LEMMA PeerWaits ==
  ASSUME TypeOK, Sleepers, NEW p \in Peers,
         Send(p) \/ SendAgain(p) \/ SpuriousWakeup(p) \/ Terminate(p)
  PROVE  Sleepers' /\ (notFull' \subseteq notFull \/ MboxFull(localMsgs))
<1>1. sender \in [Peers -> {"idle", "blocked", "terminated"}] /\ notFull \subseteq Peers
  BY TypeParts DEF PeersOK
<1>2. ASSUME NEW to, sender' = [sender EXCEPT ![p] = to], p \notin notFull,
             \/ notFull' \subseteq notFull
             \/ notFull' = notFull \cup {p} /\ to = "blocked"
      PROVE  Sleepers'
    BY <1>1, <1>2 DEF Sleepers, Blocked
<1>3. ASSUME NEW type, NEW kind, NEW waited, PutTurn(p, type, kind, waited), p \notin notFull
      PROVE  Sleepers' /\ (notFull' \subseteq notFull \/ MboxFull(localMsgs))
  <2>1. CASE sender' = [sender EXCEPT ![p] = "idle"] /\ notFull' = notFull
    BY <1>2, <1>3, <2>1
  <2>2. CASE /\ Crowds(type) /\ sender' = [sender EXCEPT ![p] = "blocked"]
             /\ notFull' = AfterWait(notFull, p)
    BY <1>2, <1>3, <2>2 DEF AfterWait, Crowds
  <2> QED BY <1>3, <2>1, <2>2 DEF PutTurn
<1>4. CASE Send(p)
  <2>1. p \notin notFull BY <1>4 DEF Send, Sleepers, Blocked
  <2> QED BY <1>3, <1>4, <2>1 DEF Send
<1>5. CASE SendAgain(p) BY <1>3, <1>5 DEF SendAgain
<1>6. CASE SpuriousWakeup(p)
  <2>1. notFull' = notFull \ {p} /\ UNCHANGED sender BY <1>6 DEF SpuriousWakeup, peers
  <2> QED BY <2>1 DEF Sleepers, Blocked
<1>7. CASE Terminate(p)
  <2>1. /\ sender[p] = "idle" /\ sender' = [sender EXCEPT ![p] = "terminated"]
        /\ notFull' = notFull
    BY <1>7 DEF Terminate
  <2>2. p \notin notFull BY <2>1 DEF Sleepers, Blocked
  <2> QED BY <1>2, <2>1, <2>2
<1> QED BY <1>4, <1>5, <1>6, <1>7

LEMMA NextSleepers ==
  ASSUME IInv, Sleepers, [Next]_vars
  PROVE  /\ Sleepers'
         /\ SendersSleepOnlyWhenFull /\ limit' = limit => SendersSleepOnlyWhenFull'
<1>1. /\ TypeOK /\ ListsOK /\ PeersOK /\ OwnOK /\ Sleeping /\ Counting
  BY Parts DEF IInv
<1>2. ASSUME UNCHANGED <<putMsg, notFull, sharedBox, localMsgs, limit>>,
             SendersSleepOnlyWhenFull
      PROVE  SendersSleepOnlyWhenFull'
  BY <1>2 DEF SendersSleepOnlyWhenFull, MboxFull
<1>3. CASE \E p \in Peers :
             Send(p) \/ SendAgain(p) \/ SpuriousWakeup(p) \/ Terminate(p)
  <2>1. PICK p \in Peers : Send(p) \/ SendAgain(p) \/ SpuriousWakeup(p) \/ Terminate(p)
    BY <1>3
  <2>2. Sleepers' /\ (notFull' \subseteq notFull \/ MboxFull(localMsgs))
    BY <1>1, <2>1, PeerWaits
  <2>3. Outside BY <1>1, <2>1, PeerStep
  <2>4. CASE UNCHANGED <<sharedBox, sharedPty, putMsg, accepted>>
    <3>1. UNCHANGED localMsgs BY <2>3 DEF Outside
    <3> QED BY <2>2, <2>4, <3>1 DEF SendersSleepOnlyWhenFull, MboxFull
  <2>5. CASE \E m \in Message : Added(m)
    <3>1. putMsg' = {} BY <2>5 DEF Added
    <3> QED BY <2>2, <3>1 DEF SendersSleepOnlyWhenFull
  <2> QED BY <2>3, <2>4, <2>5 DEF Outside
<1>4. CASE SetMaxMsgs
  <2>1. UNCHANGED <<shared, peers>> BY <1>4 DEF SetMaxMsgs
  <2> QED BY <1>2, <2>1 DEF shared, peers, Sleepers, Blocked
<1>5. CASE Receive \/ LookAgain \/ Sort
  <2>1. UNCHANGED <<shared, peers, limits>> BY <1>5 DEF Receive, LookAgain, Sort
  <2> QED BY <1>2, <2>1 DEF shared, peers, limits, Sleepers, Blocked
<1>6. CASE Fetch \/ Close
  <2>1. UNCHANGED <<putMsg, notFull, sender>> BY <1>6 DEF Fetch, Close, peers
  <2>2. putMsg = {} BY <1>1, <1>6 DEF Fetch, Close, Sleeping
  <2> QED BY <2>1, <2>2 DEF SendersSleepOnlyWhenFull, Sleepers, Blocked
<1>7. CASE Timeout \/ SpuriousWakeupOfReceiver
  <2>1. putMsg' = {} /\ UNCHANGED <<notFull, sender>>
    BY <1>7 DEF Timeout, SpuriousWakeupOfReceiver, peers
  <2> QED BY <2>1 DEF SendersSleepOnlyWhenFull, Sleepers, Blocked
<1>8. CASE Wait
  <2>1. /\ UNCHANGED <<sender, putQueue, sharedBox, limit>>
        /\ notFull' = IF putQueue > 0 /\ ~MboxFull(localMsgs') THEN {} ELSE notFull
    BY <1>8 DEF Wait, peers, limits, AfterNotifyAll
  <2>2. Sleepers' BY <2>1 DEF Sleepers, Blocked
  <2>3. notFull # {} => putQueue > 0
    <3>1. notFull # {} => Blocked # {} BY DEF Sleepers
    <3>2. IsFiniteSet(Blocked) BY PeersAssumption, FS_Subset DEF Blocked
    <3>3. putQueue = Cardinality(Blocked) /\ putQueue \in Nat
      BY <1>1 DEF Counting, PutQueueCounts, Blocked, PeersOK
    <3>4. Blocked # {} => Cardinality(Blocked) # 0 BY <3>2, FS_EmptySet
    <3> QED BY <3>1, <3>3, <3>4
  <2>4. MboxFull(localMsgs') => MboxFull(localMsgs)' BY <2>1 DEF MboxFull
  <2> QED BY <2>1, <2>2, <2>3, <2>4 DEF SendersSleepOnlyWhenFull
<1>9. CASE UNCHANGED vars
  <2>1. UNCHANGED <<putMsg, notFull, sharedBox, localMsgs, limit, sender>>
    BY <1>9 DEF vars, shared, limits, peers
  <2> QED BY <1>2, <2>1 DEF Sleepers, Blocked
<1> QED BY <1>3, <1>4, <1>5, <1>6, <1>7, <1>8, <1>9 DEF Next

(* As long as nobody calls setMaxMsgs, a sender sleeps in m_notFull while  *)
(* the receiver sleeps in m_putMsg only if the mailbox is full: get        *)
(* notifies whenever it finds room, although it looks at m_putQueue and    *)
(* at a number of messages that it counted before.                         *)
THEOREM SendersWokenWhenRoom ==
  Spec /\ [][UNCHANGED limit]_vars => []SendersSleepOnlyWhenFull
<1>1. Init => Sleepers /\ SendersSleepOnlyWhenFull
  BY DEF Init, Sleepers, SendersSleepOnlyWhenFull
<1>2. IInv /\ Sleepers /\ [Next]_vars => Sleepers' BY NextSleepers
<1>3. IInv /\ Sleepers /\ SendersSleepOnlyWhenFull /\ [Next]_vars /\ [UNCHANGED limit]_vars
        => SendersSleepOnlyWhenFull'
  <2>1. [UNCHANGED limit]_vars => limit' = limit BY DEF vars, limits
  <2> QED BY <2>1, NextSleepers
<1> QED BY <1>1, <1>2, <1>3, Invariance, PTL DEF Spec

-------------------------------------------------------------------------------
(* How many messages a mailbox with a limit can hold.                      *)

LEMMA BoundOfFinite ==
  ASSUME NEW S \in SUBSET Nat, IsFiniteSet(S)
  PROVE  \E b \in Nat : \A k \in S : k <= b
<1>1. PICK n \in Nat : ExistsBijection(1..n, S) BY FS_CardinalityType
<1>2. PICK f : f \in [1..n -> S] /\ \A k \in S : \E i \in 1..n : f[i] = k
  BY <1>1 DEF ExistsBijection, Bijection, Surjection
<1>0. \A i \in 1..n : f[i] \in Nat BY <1>2
<1> DEFINE T == {m \in 0..n : ~\E b \in Nat : \A i \in 1..m : f[i] <= b}
<1>3. T = {}
  <2> SUFFICES ASSUME T # {} PROVE FALSE OBVIOUS
  <2>1. T \in SUBSET Nat OBVIOUS
  <2>2. PICK m \in T : \A k \in T : m <= k BY <2>1, LeastElement
  <2>3. m \in 0..n /\ ~\E b \in Nat : \A i \in 1..m : f[i] <= b OBVIOUS
  <2>4. m # 0 BY <2>3
  <2>5. m - 1 \in 0..n /\ m - 1 \notin T
    <3>1. m - 1 \in 0..n /\ ~(m <= m - 1) BY <2>3, <2>4
    <3> QED BY <2>2, <3>1
  <2>6. PICK b \in Nat : \A i \in 1..(m - 1) : f[i] <= b BY <2>5
  <2>7. m \in 1..n /\ f[m] \in Nat BY <1>0, <2>3, <2>4
  <2>8. \A i \in 1..m : f[i] <= b + f[m]
    <3> TAKE i \in 1..m
    <3>1. i \in 1..n /\ f[i] \in Nat BY <1>0, <2>3
    <3>2. i = m \/ i \in 1..(m - 1) BY <2>7
    <3> QED BY <2>6, <2>7, <3>1, <3>2
  <2>9. b + f[m] \in Nat BY <2>7
  <2> QED BY <2>3, <2>8, <2>9
<1>4. n \in 0..n BY <1>1
<1>5. PICK b \in Nat : \A i \in 1..n : f[i] <= b BY <1>3, <1>4
<1> QED BY <1>2, <1>5

LEMMA LargestLimitIsLargest ==
  ASSUME Limits # {}
  PROVE  LargestLimit \in Limits /\ LargestLimit \in Nat
         /\ \A k \in Limits : k <= LargestLimit
<1> DEFINE T == {b \in Nat : \A k \in Limits : k <= b}
<1>1. Limits \in SUBSET Nat BY LimitsAssumption
<1>2. T # {} BY <1>1, LimitsAssumption, BoundOfFinite
<1>3. PICK b \in T : \A c \in T : b <= c
  <2>1. T \in SUBSET Nat OBVIOUS
  <2> QED BY <1>2, <2>1, LeastElement
<1>4. b \in Limits
  <2> SUFFICES ASSUME b \notin Limits PROVE FALSE OBVIOUS
  <2>1. \A k \in Limits : k \in Nat /\ k <= b /\ k # b BY <1>1
  <2>2. \A k \in Limits : k <= b - 1 BY <2>1
  <2>3. b - 1 \in Nat BY <2>1
  <2>4. b - 1 \in T BY <2>2, <2>3
  <2> QED BY <1>3, <2>4
<1>5. \E n \in Limits : \A k \in Limits : k <= n BY <1>4
<1> QED BY <1>1, <1>5 DEF LargestLimit

(* The user messages among P. *)
Users(P) == {m \in P : m.type = "standard"}

LEMMA UsersOfList ==
  ASSUME NEW q \in Seq(BoxMessage), Ordered(q)
  PROVE  /\ IsFiniteSet(Users(Range(q)))
         /\ UserMessages(q) = Cardinality(Users(Range(q)))
         /\ Cardinality(Users(Range(q))) <= Len(q)
<1> DEFINE I == {i \in DOMAIN q : q[i].type = "standard"}
           f == [i \in I |-> q[i]]
<1>1. Len(q) \in Nat /\ DOMAIN q = 1..Len(q) OBVIOUS
<1>2. I \in SUBSET (1..Len(q)) BY <1>1
<1>3. IsFiniteSet(1..Len(q)) /\ Cardinality(1..Len(q)) = Len(q)
  <2>1. 1 > Len(q) => Len(q) = 0 BY <1>1
  <2> QED BY <1>1, <2>1, FS_Interval
<1>4. IsFiniteSet(I) /\ Cardinality(I) <= Len(q) BY <1>2, <1>3, FS_Subset
<1>5. f \in Bijection(I, Users(Range(q)))
  <2>1. f \in [I -> Users(Range(q))] BY DEF Users, Range
  <2>2. \A i, j \in I : f[i] = f[j] => i = j
    <3> SUFFICES ASSUME NEW i \in I, NEW j \in I, i # j PROVE f[i] # f[j] OBVIOUS
    <3>1. i \in 1..Len(q) /\ j \in 1..Len(q) /\ (i < j \/ j < i) BY <1>1
    <3>2. q[i].id \in Nat /\ q[j].id \in Nat BY <3>1, Fields
    <3>3. q[i].id < q[j].id \/ q[j].id < q[i].id BY <1>1, <3>1 DEF Ordered
    <3> QED BY <3>2, <3>3
  <2>3. \A m \in Users(Range(q)) : \E i \in I : f[i] = m BY DEF Users, Range
  <2> HIDE DEF f, I
  <2>4. DOMAIN f = I BY <2>1
  <2> QED BY <2>1, <2>2, <2>3, <2>4 DEF Bijection, Injection, Surjection, IsInjective
<1>6. UserMessages(q) = Cardinality(I) BY DEF UserMessages
<1> HIDE DEF I, f
<1>7. IsFiniteSet(Users(Range(q))) /\ Cardinality(Users(Range(q))) = Cardinality(I)
  BY <1>4, <1>5, FS_Bijection DEF ExistsBijection
<1> QED BY <1>4, <1>6, <1>7

Count(P) == Cardinality(Users(P))

LEMMA CountLaws ==
  ASSUME NEW P, NEW Q, IsFiniteSet(Users(P)), IsFiniteSet(Users(Q))
  PROVE  /\ IsFiniteSet(Users(P \cup Q)) /\ Count(P) \in Nat
         /\ Count(P \cup Q) \in Nat /\ Count(P \cup Q) <= Count(P) + Count(Q)
         /\ \A R \in SUBSET P : Count(R) \in Nat /\ Count(R) <= Count(P)
<1>1. Users(P \cup Q) = Users(P) \cup Users(Q) BY DEF Users
<1>2. /\ IsFiniteSet(Users(P) \cup Users(Q))
      /\ Cardinality(Users(P) \cup Users(Q)) =
           Cardinality(Users(P)) + Cardinality(Users(Q)) - Cardinality(Users(P) \cap Users(Q))
  BY FS_Union
<1>3. IsFiniteSet(Users(P) \cap Users(Q)) BY FS_Intersection
<1>4. /\ Cardinality(Users(P)) \in Nat /\ Cardinality(Users(Q)) \in Nat
      /\ Cardinality(Users(P) \cap Users(Q)) \in Nat
  BY <1>3, FS_CardinalityType
<1>5. ASSUME NEW R \in SUBSET P PROVE Count(R) \in Nat /\ Count(R) <= Count(P)
  <2>1. Users(R) \in SUBSET Users(P) BY DEF Users
  <2>2. IsFiniteSet(Users(R)) /\ Cardinality(Users(R)) <= Cardinality(Users(P))
    BY <2>1, FS_Subset
  <2> QED BY <2>2, FS_CardinalityType DEF Count
<1>6. IsFiniteSet(Users(P \cup Q)) /\ Count(P \cup Q) \in Nat
  BY <1>1, <1>2, FS_CardinalityType DEF Count
<1>7. Count(P) \in Nat BY <1>4 DEF Count
<1>8. Count(P \cup Q) = Count(P) + Count(Q) - Cardinality(Users(P) \cap Users(Q))
  BY <1>1, <1>2 DEF Count
<1>9. Count(P) + Count(Q) - Cardinality(Users(P) \cap Users(Q)) <= Count(P) + Count(Q)
  BY <1>4 DEF Count
<1> QED BY <1>5, <1>6, <1>7, <1>8, <1>9

LEMMA FiniteLists ==
  ASSUME ListsOK, Numbers
  PROVE  /\ IsFiniteSet(Users(Range(localBox))) /\ IsFiniteSet(Users(Range(arrived)))
         /\ IsFiniteSet(Users(Range(sharedBox)))
         /\ IsFiniteSet(Users(Range(localBox) \cup Range(arrived)))
         /\ Count(Range(localBox)) <= Len(localBox)
         /\ Count(Range(sharedBox)) <= Len(sharedBox)
         /\ Count(Range(localBox)) \in Nat /\ Count(Range(sharedBox)) \in Nat
         /\ Count(Range(localBox) \cup Range(arrived)) \in Nat
         /\ Len(localBox) \in Nat /\ Len(sharedBox) \in Nat
<1>1. /\ localBox \in Seq(BoxMessage) /\ arrived \in Seq(BoxMessage)
      /\ sharedBox \in Seq(BoxMessage)
      /\ Ordered(localBox) /\ Ordered(arrived) /\ Ordered(sharedBox)
  BY DEF ListsOK, Numbers
<1>2. /\ IsFiniteSet(Users(Range(localBox))) /\ IsFiniteSet(Users(Range(arrived)))
      /\ IsFiniteSet(Users(Range(sharedBox)))
      /\ Count(Range(localBox)) <= Len(localBox)
      /\ Count(Range(sharedBox)) <= Len(sharedBox)
  BY <1>1, UsersOfList DEF Count
<1>3. /\ IsFiniteSet(Users(Range(localBox) \cup Range(arrived)))
      /\ Count(Range(localBox)) \in Nat
      /\ Count(Range(localBox) \cup Range(arrived)) \in Nat
  BY <1>2, CountLaws
<1>4. Count(Range(sharedBox)) \in Nat BY <1>2, CountLaws
<1>5. Len(localBox) \in Nat /\ Len(sharedBox) \in Nat BY <1>1
<1> QED BY <1>2, <1>3, <1>4, <1>5

(* The lists, one by one, while the mailbox is open.  What put compares    *)
(* with the limit is what is shared and what had been fetched when         *)
(* m_localMsgs was set.                                                    *)
Bounded ==
  0 \notin Limits /\ ~closed =>
    /\ Count(Range(sharedBox)) <= LargestLimit
    /\ Count(Range(localBox) \cup Range(arrived)) <= localMsgs + LargestLimit
    /\ Count(Range(localBox) \cup Range(arrived) \cup Range(sharedBox)) <= 2 * LargestLimit
    /\ receiver = "waiting" => localMsgs = Len(localBox)

LEMMA AddedBounded ==
  ASSUME IInv, Bounded, Outside, ~closed, 0 \notin Limits
  PROVE  Bounded'
<1>1. /\ ListsOK /\ OwnOK /\ LimitOK /\ Numbers BY Parts
<1>2. UNCHANGED <<localBox, arrived, localMsgs, closed, receiver>> BY DEF Outside, local
<1>3. CASE UNCHANGED sharedBox BY <1>2, <1>3 DEF Bounded, Count, Users
<1>4. CASE ~UNCHANGED sharedBox
  <2>1. PICK x \in Message : Added(x) BY <1>4 DEF Outside
  <2>2. x.type # "priority" /\ sharedBox' = Append(sharedBox, x) BY <1>4, <2>1 DEF Added
  <2>3. x \in BoxMessage /\ sharedBox \in Seq(BoxMessage) BY <1>1, <2>2 DEF BoxMessage, ListsOK
  <2>4. Range(sharedBox') = Range(sharedBox) \cup {x} BY <2>2, <2>3, RangeAppend
  <2>5. CASE x.type # "standard"
    <3>1. /\ Users(Range(sharedBox')) = Users(Range(sharedBox))
          /\ Users(Range(localBox) \cup Range(arrived) \cup Range(sharedBox'))
               = Users(Range(localBox) \cup Range(arrived) \cup Range(sharedBox))
      BY <2>4, <2>5 DEF Users
    <3> QED BY <1>2, <3>1 DEF Bounded, Count
  <2>6. CASE x.type = "standard"
    <3> DEFINE F == Range(localBox) \cup Range(arrived)
               S == Range(sharedBox)
               L == LargestLimit
    <3>1. limit \in Limits /\ limit \in Nat /\ limit # 0
      BY <1>1, LimitsAssumption DEF LimitOK
    <3>2. L \in Nat /\ limit <= L BY <3>1, LargestLimitIsLargest
    <3>3. localMsgs \in Nat /\ Len(sharedBox) \in Nat BY <1>1, <2>3 DEF OwnOK
    <3>4. localMsgs + Len(sharedBox) < limit
      BY <2>1, <2>6, <3>1, <3>3 DEF Added, MboxFull
    <3>5. /\ IsFiniteSet(Users(F)) /\ IsFiniteSet(Users(S)) /\ Count(S) <= Len(sharedBox)
          /\ Count(F) \in Nat /\ Count(S) \in Nat
      BY <1>1, FiniteLists
    <3>6. IsFiniteSet(Users({x})) /\ Count({x}) = 1
      <4>1. Users({x}) = {x} BY <2>6 DEF Users
      <4> QED BY <4>1, FS_Singleton DEF Count
    <3> HIDE DEF F, S, L
    <3>7. /\ IsFiniteSet(Users(S \cup {x})) /\ Count(S \cup {x}) <= Count(S) + 1
          /\ Count(S \cup {x}) \in Nat
      BY <3>5, <3>6, CountLaws
    <3>8. /\ Count(F \cup (S \cup {x})) <= Count(F) + Count(S \cup {x})
          /\ Count(F \cup (S \cup {x})) \in Nat
      BY <3>5, <3>7, CountLaws
    <3>9. Count(F) <= localMsgs + L BY DEF Bounded, F, L
    <3>10. Count(S \cup {x}) <= L BY <3>1, <3>2, <3>3, <3>4, <3>5, <3>7
    <3>11. Count(F \cup (S \cup {x})) <= 2 * L
      BY <3>1, <3>2, <3>3, <3>4, <3>5, <3>7, <3>8, <3>9
    <3>12. receiver = "waiting" => localMsgs = Len(localBox) BY DEF Bounded
    <3>13. LargestLimit' = LargestLimit BY DEF LargestLimit
    <3> QED BY <1>2, <2>4, <3>9, <3>10, <3>11, <3>12, <3>13 DEF Bounded, F, S, L
  <2> QED BY <2>5, <2>6
<1> QED BY <1>3, <1>4

LEMMA NextBounded ==
  ASSUME IInv, Bounded, [Next]_vars
  PROVE  Bounded'
<1>1. /\ TypeOK /\ ListsOK /\ OwnOK /\ LimitOK /\ Counting /\ Sleeping /\ Numbers
  BY Parts DEF IInv
<1> SUFFICES ASSUME 0 \notin Limits, ~closed' PROVE Bounded' BY DEF Bounded
<1> DEFINE B == Range(localBox)
           A == Range(arrived)
           S == Range(sharedBox)
           L == LargestLimit
<1>2. L \in Nat /\ LargestLimit' = L
  <2>1. L \in Nat BY <1>1, LargestLimitIsLargest DEF LimitOK
  <2> QED BY <2>1 DEF LargestLimit
<1>3. /\ IsFiniteSet(Users(B)) /\ IsFiniteSet(Users(A)) /\ IsFiniteSet(Users(S))
      /\ IsFiniteSet(Users(B \cup A))
      /\ Count(B) <= Len(localBox) /\ Count(S) <= Len(sharedBox)
      /\ Count(B) \in Nat /\ Count(S) \in Nat /\ Count(B \cup A) \in Nat
      /\ Len(localBox) \in Nat /\ Len(sharedBox) \in Nat
      /\ localMsgs \in Nat
  BY <1>1, FiniteLists DEF OwnOK
<1>4. IsFiniteSet(Users(B \cup A \cup S)) /\ Count(B \cup A \cup S) \in Nat
  BY <1>3, CountLaws
<1>5. ~closed
  <2>1. closed => closed'
    <3>1. CASE Close BY <3>1 DEF Close
    <3>2. CASE Receive \/ LookAgain \/ Sort \/ SetMaxMsgs
      BY <3>2 DEF Receive, LookAgain, Sort, SetMaxMsgs, shared
    <3>3. CASE Fetch \/ Wait \/ Timeout \/ SpuriousWakeupOfReceiver \/ UNCHANGED vars
      BY <3>3 DEF Fetch, Wait, Timeout, SpuriousWakeupOfReceiver, vars, shared
    <3>4. CASE \E p \in Peers :
                 Send(p) \/ SendAgain(p) \/ SpuriousWakeup(p) \/ Terminate(p)
      BY <3>4 DEF Send, SendAgain, SpuriousWakeup, Terminate
    <3> QED BY <3>1, <3>2, <3>3, <3>4 DEF Next
  <2> QED BY <2>1
<1>6. /\ Count(S) <= L /\ Count(B \cup A) <= localMsgs + L
      /\ Count(B \cup A \cup S) <= 2 * L
      /\ receiver = "waiting" => localMsgs = Len(localBox)
  BY <1>5 DEF Bounded
<1>7. ASSUME UNCHANGED <<sharedBox, localMsgs>>, receiver' # "waiting",
             Range(localBox') \cup Range(arrived') \subseteq B \cup A
      PROVE  Bounded'
  <2>1. Count(Range(localBox') \cup Range(arrived')) <= Count(B \cup A)
        /\ Count(Range(localBox') \cup Range(arrived')) \in Nat
    BY <1>3, <1>7, CountLaws
  <2>2. Range(localBox') \cup Range(arrived') \cup S \subseteq B \cup A \cup S BY <1>7
  <2>3. /\ Count(Range(localBox') \cup Range(arrived') \cup S) <= Count(B \cup A \cup S)
        /\ Count(Range(localBox') \cup Range(arrived') \cup S) \in Nat
    BY <1>3, <1>4, <2>2, CountLaws
  <2> HIDE DEF B, A, L
  <2>4. /\ Count(Range(localBox') \cup Range(arrived')) <= localMsgs + L
        /\ Count(Range(localBox') \cup Range(arrived') \cup S) <= 2 * L
    BY <1>2, <1>3, <1>4, <1>6, <2>1, <2>3
  <2> QED BY <1>2, <1>6, <1>7, <2>4 DEF Bounded
<1>8. CASE \/ \E p \in Peers :
                Send(p) \/ SendAgain(p) \/ SpuriousWakeup(p) \/ Terminate(p)
           \/ SetMaxMsgs
  <2>1. Outside
    <3>1. CASE SetMaxMsgs BY <3>1 DEF SetMaxMsgs, Outside, shared
    <3> QED BY <1>1, <1>8, <3>1, PeerStep
  <2> QED BY <1>5, <2>1, AddedBounded
<1>9. CASE Receive \/ LookAgain \/ Sort
  <2>1. Handled /\ receiver' # "waiting"
    <3>1. UNCHANGED <<sharedBox, sharedPty, accepted>>
      BY <1>9 DEF Receive, LookAgain, Sort, shared
    <3>2. CASE Sort
      <4>1. Handled /\ receiver' \in {"looking", "running"} BY <1>1, <3>2, SortHandles
      <4> QED BY <4>1
    <3>3. CASE Receive \/ LookAgain
      <4>1. PICK W : \E E \in SUBSET (1..MaxAccepted) : LookLocally(W, E)
        BY <1>1, <3>3 DEF Receive, LookAgain, OwnOK
      <4>2. arrived = <<>> /\ arrived' = arrived
        BY <1>1, <3>3 DEF Receive, LookAgain, Sleeping
      <4>3. Handled /\ receiver' \in {"fetching", "running"}
        BY <1>1, <3>1, <4>1, <4>2, LookHandles
      <4> QED BY <4>3
    <3> QED BY <1>9, <3>2, <3>3
  <2>2. UNCHANGED localMsgs BY <1>9 DEF Receive, LookAgain, Sort, shared
  <2>3. Range(arrived') = {} /\ Range(localBox') \subseteq B \cup A
    BY <2>1, RangeEmpty DEF Handled
  <2> QED BY <1>7, <2>1, <2>2, <2>3 DEF Handled
<1>10. CASE Fetch
  <2>1. /\ arrived' = sharedBox /\ sharedBox' = <<>> /\ localBox' = localBox
        /\ receiver' = "sorting" /\ receiver \in {"fetching", "waiting"}
        /\ localMsgs' = IF receiver = "fetching" THEN Len(localBox) ELSE localMsgs
    BY <1>10 DEF Fetch
  <2>2. arrived = <<>> BY <1>1, <2>1 DEF Sleeping
  <2>3. localMsgs' = Len(localBox) BY <1>6, <2>1
  <2>4. Count(B \cup S) <= Count(B) + Count(S) /\ Count(B \cup S) \in Nat
    BY <1>3, CountLaws
  <2>5. B \cup A \cup S = B \cup S BY <2>2, RangeEmpty
  <2>6. Range(sharedBox') = {} /\ Count({}) = 0
    <3>1. Users({}) = {} BY DEF Users
    <3> QED BY <2>1, <3>1, RangeEmpty, FS_EmptySet DEF Count
  <2>7. /\ Range(localBox') \cup Range(arrived') = B \cup S
        /\ Range(localBox') \cup Range(arrived') \cup Range(sharedBox') = B \cup S
    BY <2>1, <2>6
  <2> HIDE DEF B, A, S, L
  <2>8. Count(B \cup S) <= localMsgs' + L BY <1>2, <1>3, <1>6, <2>3, <2>4
  <2>9. Count(B \cup S) <= 2 * L BY <1>6, <2>5
  <2>10. Count(Range(sharedBox')) <= L BY <1>2, <2>6
  <2> QED BY <1>2, <2>1, <2>7, <2>8, <2>9, <2>10 DEF Bounded
<1>11. CASE Wait
  <2>1. /\ UNCHANGED <<localBox, arrived, sharedBox>> /\ receiver \in {"fetching", "waiting"}
        /\ localMsgs' = IF receiver = "fetching" THEN Len(localBox) ELSE localMsgs
    BY <1>11 DEF Wait, local
  <2>2. arrived = <<>> BY <1>1, <2>1 DEF Sleeping
  <2>3. localMsgs' = Len(localBox) BY <1>6, <2>1
  <2>4. B \cup A = B BY <2>2, RangeEmpty
  <2>5. Count(B \cup A) <= localMsgs' + L
    <3> HIDE DEF A, B, L
    <3>1. Count(B \cup A) = Count(B) BY <2>4
    <3>2. Count(B) <= localMsgs' + L BY <1>2, <1>3, <2>3
    <3> QED BY <3>1, <3>2
  <2> QED BY <1>2, <1>6, <2>1, <2>3, <2>5 DEF Bounded
<1>12. CASE Timeout
  <2>1. UNCHANGED <<localBox, arrived, sharedBox, localMsgs>> /\ receiver' = "running"
    BY <1>12 DEF Timeout, local
  <2> QED BY <1>7, <2>1
<1>13. CASE SpuriousWakeupOfReceiver \/ UNCHANGED vars
  <2>1. UNCHANGED <<localBox, arrived, sharedBox, localMsgs, receiver>>
    BY <1>13 DEF SpuriousWakeupOfReceiver, local, vars, shared
  <2> QED BY <1>2, <1>6, <2>1 DEF Bounded
<1>14. CASE Close BY <1>14 DEF Close
<1> QED BY <1>8, <1>9, <1>10, <1>11, <1>12, <1>13, <1>14 DEF Next

(* A mailbox whose limits are not zero never holds more than twice the     *)
(* largest of them in user messages, whatever the receives between two     *)
(* counts of the fetched ones took or left: the limit is not respected,    *)
(* but by no more than that.                                               *)
THEOREM BoundedTwice == Spec => []UserMessagesBounded
<1>1. Init => Bounded
  <2> SUFFICES ASSUME Init, 0 \notin Limits PROVE Bounded BY DEF Bounded
  <2>1. /\ sharedBox = <<>> /\ localBox = <<>> /\ arrived = <<>> /\ localMsgs = 0
        /\ receiver = "running" /\ limit \in Limits
    BY DEF Init
  <2>2. LargestLimit \in Nat BY <2>1, LargestLimitIsLargest
  <2>3. Users({}) = {} BY DEF Users
  <2>4. Count({}) = 0 BY <2>3, FS_EmptySet DEF Count
  <2>5. /\ Range(sharedBox) = {} /\ Range(localBox) \cup Range(arrived) = {}
        /\ Range(localBox) \cup Range(arrived) \cup Range(sharedBox) = {}
    BY <2>1, RangeEmpty
  <2>6. 0 <= LargestLimit /\ 0 <= localMsgs + LargestLimit /\ 0 <= 2 * LargestLimit
    BY <2>1, <2>2
  <2>7. /\ Count(Range(sharedBox)) = 0 /\ Count(Range(localBox) \cup Range(arrived)) = 0
        /\ Count(Range(localBox) \cup Range(arrived) \cup Range(sharedBox)) = 0
    BY <2>4, <2>5
  <2> QED BY <2>1, <2>6, <2>7 DEF Bounded
<1>2. IInv /\ Bounded /\ [Next]_vars => Bounded' BY NextBounded
<1>3. IInv /\ Bounded => UserMessagesBounded
  <2> SUFFICES ASSUME IInv, Bounded, 0 \notin Limits, ~closed
               PROVE  UserMessages(Queue) <= 2 * LargestLimit
    BY DEF UserMessagesBounded
  <2>1. ListsOK /\ Numbers BY Parts
  <2>2. /\ localBox \in Seq(Message) /\ arrived \in Seq(Message)
        /\ sharedBox \in Seq(Message)
    BY <2>1, Fields DEF ListsOK
  <2>3. /\ Ordered(localBox) /\ Ordered(arrived) /\ Ordered(sharedBox)
        /\ Before(Range(localBox), Range(arrived)) /\ Before(Fetched, Shared)
    BY <2>1 DEF Numbers
  <2>4. Ordered(localBox \o arrived) /\ localBox \o arrived \in Seq(Message)
    BY <2>2, <2>3, OrderedConcat, ConcatProperties
  <2>5. Range(localBox \o arrived) = Range(localBox) \cup Range(arrived)
    BY <2>2, RangeConcatenation
  <2>6. Before(Range(localBox \o arrived), Range(sharedBox))
    BY <2>3, <2>5 DEF Before, Fetched, Shared
  <2>7. Ordered(Queue) BY <2>2, <2>3, <2>4, <2>6, OrderedConcat DEF Queue
  <2>8. UserMessages(Queue) = Count(Range(Queue))
    BY <2>1, <2>7, PendingParts, UsersOfList DEF Count
  <2> QED BY <2>1, <2>8, PendingParts DEF Bounded, Pending
<1> QED BY <1>1, <1>2, <1>3, Invariance, PTL DEF Spec

-------------------------------------------------------------------------------
(* The mailbox as one queue and one queue of priority messages.            *)

LEMMA AppendOfConcat ==
  ASSUME NEW S, NEW q \in Seq(S), NEW r \in Seq(S), NEW e \in S
  PROVE  q \o Append(r, e) = Append(q \o r, e)
<1>1. q \o r \in Seq(S) /\ <<e>> \in Seq(S) BY ConcatProperties
<1>2. Append(r, e) = r \o <<e>> /\ Append(q \o r, e) = (q \o r) \o <<e>>
  BY <1>1, AppendIsConcat
<1> QED BY <1>1, <1>2, ConcatAssociative

LEMMA RemoveAtLeft ==
  ASSUME NEW S, NEW q \in Seq(S), NEW r \in Seq(S), NEW n \in 1..Len(q)
  PROVE  RemoveAt(q, n) \o r = RemoveAt(q \o r, n)
<1>0. /\ q \o r \in Seq(S) /\ Len(q \o r) = Len(q) + Len(r)
      /\ Len(q) \in Nat /\ Len(r) \in Nat
      /\ \A i \in 1..(Len(q) + Len(r)) :
           (q \o r)[i] = IF i <= Len(q) THEN q[i] ELSE r[i - Len(q)]
  BY ConcatProperties, LenProperties
<1> DEFINE a == RemoveAt(q, n)
           b == RemoveAt(q \o r, n)
<1>1. /\ a \in Seq(S) /\ Len(a) = Len(q) - 1
      /\ \A i \in 1..(Len(q) - 1) : a[i] = IF i < n THEN q[i] ELSE q[i + 1]
  BY RemoveAtSeq
<1>2. n \in 1..Len(q \o r) BY <1>0
<1>3. /\ b \in Seq(S) /\ Len(b) = Len(q \o r) - 1
      /\ \A i \in 1..(Len(q \o r) - 1) :
           b[i] = IF i < n THEN (q \o r)[i] ELSE (q \o r)[i + 1]
  BY <1>0, <1>2, RemoveAtSeq
<1> HIDE DEF a, b
<1>4. /\ a \o r \in Seq(S) /\ Len(a \o r) = Len(a) + Len(r)
      /\ \A i \in 1..(Len(a) + Len(r)) :
           (a \o r)[i] = IF i <= Len(a) THEN a[i] ELSE r[i - Len(a)]
  BY <1>1, ConcatProperties
<1>5. Len(a \o r) = Len(b) /\ Len(b) = Len(q) - 1 + Len(r) BY <1>0, <1>1, <1>3, <1>4
<1>6. ASSUME NEW i \in 1..Len(b) PROVE (a \o r)[i] = b[i]
  <2>1. i \in 1..(Len(q) - 1 + Len(r)) /\ i \in Nat /\ n \in 1..Len(q)
    BY <1>0, <1>5, <1>6
  <2>2. CASE i < n
    <3>1. /\ i \in 1..(Len(q) - 1) /\ i <= Len(a) /\ i <= Len(q)
          /\ i \in 1..(Len(q) + Len(r))
      BY <1>0, <1>1, <2>1, <2>2
    <3>2. (a \o r)[i] = q[i] BY <1>0, <1>1, <1>4, <2>1, <2>2, <3>1
    <3>3. b[i] = q[i] BY <1>0, <1>3, <2>1, <2>2, <3>1
    <3> QED BY <3>2, <3>3
  <2>3. CASE i >= n /\ i <= Len(q) - 1
    <3>1. i \in 1..(Len(q) - 1) /\ i + 1 <= Len(q) /\ i + 1 \in 1..(Len(q) + Len(r))
      BY <1>0, <2>1, <2>3
    <3>2. (a \o r)[i] = q[i + 1] BY <1>0, <1>1, <1>4, <2>1, <2>3, <3>1
    <3>3. b[i] = q[i + 1] BY <1>0, <1>3, <2>1, <2>3, <3>1
    <3> QED BY <3>2, <3>3
  <2>4. CASE i > Len(q) - 1
    <3>1. i + 1 \in 1..(Len(q) + Len(r)) /\ ~(i + 1 <= Len(q)) /\ ~(i < n)
          /\ ~(i <= Len(a)) /\ i - Len(a) = i + 1 - Len(q)
      BY <1>0, <1>1, <2>1, <2>4
    <3>2. (a \o r)[i] = r[i + 1 - Len(q)] BY <1>1, <1>4, <2>1, <3>1
    <3>3. b[i] = r[i + 1 - Len(q)] BY <1>0, <1>3, <2>1, <3>1
    <3> QED BY <3>2, <3>3
  <2>5. n \in Int /\ i \in Int /\ Len(q) \in Int BY <1>0
  <2>6. i < n \/ (i >= n /\ i <= Len(q) - 1) \/ i > Len(q) - 1 BY <2>5
  <2> QED BY <2>2, <2>3, <2>4, <2>6
<1>7. a \o r = b BY <1>3, <1>4, <1>5, <1>6, SeqEqual
<1> QED BY <1>7 DEF a, b

LEMMA RemoveAtRight ==
  ASSUME NEW S, NEW q \in Seq(S), NEW r \in Seq(S), NEW n \in 1..Len(r)
  PROVE  q \o RemoveAt(r, n) = RemoveAt(q \o r, Len(q) + n)
<1>0. /\ q \o r \in Seq(S) /\ Len(q \o r) = Len(q) + Len(r)
      /\ Len(q) \in Nat /\ Len(r) \in Nat
      /\ \A i \in 1..(Len(q) + Len(r)) :
           (q \o r)[i] = IF i <= Len(q) THEN q[i] ELSE r[i - Len(q)]
  BY ConcatProperties, LenProperties
<1> DEFINE a == RemoveAt(r, n)
           b == RemoveAt(q \o r, Len(q) + n)
<1>1. /\ a \in Seq(S) /\ Len(a) = Len(r) - 1
      /\ \A i \in 1..(Len(r) - 1) : a[i] = IF i < n THEN r[i] ELSE r[i + 1]
  BY RemoveAtSeq
<1>2. Len(q) + n \in 1..Len(q \o r) BY <1>0
<1>3. /\ b \in Seq(S) /\ Len(b) = Len(q \o r) - 1
      /\ \A i \in 1..(Len(q \o r) - 1) :
           b[i] = IF i < Len(q) + n THEN (q \o r)[i] ELSE (q \o r)[i + 1]
  BY <1>0, <1>2, RemoveAtSeq
<1> HIDE DEF a, b
<1>4. /\ q \o a \in Seq(S) /\ Len(q \o a) = Len(q) + Len(a)
      /\ \A i \in 1..(Len(q) + Len(a)) :
           (q \o a)[i] = IF i <= Len(q) THEN q[i] ELSE a[i - Len(q)]
  BY <1>1, ConcatProperties
<1>5. Len(q \o a) = Len(b) /\ Len(b) = Len(q) + Len(r) - 1 BY <1>0, <1>1, <1>3, <1>4
<1>6. ASSUME NEW i \in 1..Len(b) PROVE (q \o a)[i] = b[i]
  <2>1. i \in 1..(Len(q) + Len(r) - 1) /\ i \in Nat /\ n \in 1..Len(r)
    BY <1>0, <1>5, <1>6
  <2>2. CASE i <= Len(q)
    <3>1. /\ i \in 1..(Len(q) + Len(r)) /\ i < Len(q) + n
          /\ i \in 1..(Len(q) + Len(a))
      BY <1>0, <1>1, <2>1, <2>2
    <3>2. (q \o a)[i] = q[i] BY <1>4, <2>2, <3>1
    <3>3. b[i] = q[i] BY <1>0, <1>3, <2>1, <2>2, <3>1
    <3> QED BY <3>2, <3>3
  <2>3. CASE i > Len(q) /\ i < Len(q) + n
    <3>1. /\ i - Len(q) \in 1..(Len(r) - 1) /\ i - Len(q) < n
          /\ i \in 1..(Len(q) + Len(r)) /\ ~(i <= Len(q))
      BY <1>0, <2>1, <2>3
    <3>2. (q \o a)[i] = r[i - Len(q)] BY <1>1, <1>4, <2>1, <3>1
    <3>3. b[i] = r[i - Len(q)] BY <1>0, <1>3, <2>1, <2>3, <3>1
    <3> QED BY <3>2, <3>3
  <2>4. CASE i >= Len(q) + n
    <3>1. /\ i - Len(q) \in 1..(Len(r) - 1) /\ ~(i - Len(q) < n) /\ ~(i <= Len(q))
          /\ i + 1 \in 1..(Len(q) + Len(r)) /\ ~(i + 1 <= Len(q))
          /\ i - Len(q) + 1 = i + 1 - Len(q) /\ ~(i < Len(q) + n)
      BY <1>0, <2>1, <2>4
    <3>2. (q \o a)[i] = r[i + 1 - Len(q)] BY <1>1, <1>4, <2>1, <3>1
    <3>3. b[i] = r[i + 1 - Len(q)] BY <1>0, <1>3, <2>1, <3>1
    <3> QED BY <3>2, <3>3
  <2>5. n \in Int /\ i \in Int /\ Len(q) \in Int BY <1>0
  <2>6. \/ i <= Len(q)
        \/ i > Len(q) /\ i < Len(q) + n
        \/ i >= Len(q) + n
    BY <2>5
  <2> QED BY <2>2, <2>3, <2>4, <2>6
<1>7. q \o a = b BY <1>3, <1>4, <1>5, <1>6, SeqEqual
<1> QED BY <1>7 DEF a, b

LEMMA TailOfConcat ==
  ASSUME NEW S, NEW q \in Seq(S), NEW r \in Seq(S), q # <<>>
  PROVE  Tail(q) \o r = Tail(q \o r) /\ q \o r # <<>>
<1>1. /\ q \o r \in Seq(S) /\ Len(q \o r) = Len(q) + Len(r)
      /\ Len(q) \in Nat /\ Len(r) \in Nat /\ Len(q) # 0
      /\ \A i \in 1..(Len(q) + Len(r)) :
           (q \o r)[i] = IF i <= Len(q) THEN q[i] ELSE r[i - Len(q)]
  BY ConcatProperties, LenProperties, EmptySeq
<1>2. q \o r # <<>> BY <1>1
<1>3. /\ Tail(q) \in Seq(S) /\ Len(Tail(q)) = Len(q) - 1
      /\ \A i \in 1..Len(Tail(q)) : Tail(q)[i] = q[i + 1]
  BY HeadTailProperties
<1>4. /\ Tail(q \o r) \in Seq(S) /\ Len(Tail(q \o r)) = Len(q \o r) - 1
      /\ \A i \in 1..Len(Tail(q \o r)) : Tail(q \o r)[i] = (q \o r)[i + 1]
  BY <1>1, <1>2, HeadTailProperties
<1>5. /\ Tail(q) \o r \in Seq(S) /\ Len(Tail(q) \o r) = Len(Tail(q)) + Len(r)
      /\ \A i \in 1..(Len(Tail(q)) + Len(r)) :
           (Tail(q) \o r)[i] = IF i <= Len(Tail(q)) THEN Tail(q)[i] ELSE r[i - Len(Tail(q))]
  BY <1>3, ConcatProperties
<1> DEFINE t == Tail(q)
           u == Tail(q \o r)
<1> HIDE DEF t, u
<1>6. ASSUME NEW i \in 1..(Len(q) + Len(r) - 1) PROVE (t \o r)[i] = u[i]
  <2>1. u[i] = (q \o r)[i + 1] BY <1>1, <1>4 DEF u
  <2>2. i + 1 \in 1..(Len(q) + Len(r)) BY <1>1
  <2>3. CASE i <= Len(q) - 1
    <3>1. i \in 1..Len(t) /\ i \in 1..(Len(t) + Len(r)) /\ i + 1 <= Len(q)
      BY <1>1, <1>3, <2>3 DEF t
    <3>2. (t \o r)[i] = q[i + 1] BY <1>3, <1>5, <3>1 DEF t
    <3> QED BY <1>1, <2>1, <2>2, <3>1, <3>2
  <2>4. CASE ~(i <= Len(q) - 1)
    <3>1. /\ ~(i <= Len(t)) /\ i \in 1..(Len(t) + Len(r)) /\ ~(i + 1 <= Len(q))
          /\ i - Len(t) = i + 1 - Len(q)
      BY <1>1, <1>3, <2>4 DEF t
    <3>2. (t \o r)[i] = r[i + 1 - Len(q)] BY <1>5, <3>1 DEF t
    <3> QED BY <1>1, <2>1, <2>2, <3>1, <3>2
  <2> QED BY <2>3, <2>4
<1>7. t \o r = u
  <2>1. /\ t \o r \in Seq(S) /\ u \in Seq(S) /\ Len(t \o r) = Len(q) + Len(r) - 1
        /\ Len(u) = Len(q) + Len(r) - 1
    BY <1>1, <1>3, <1>4, <1>5 DEF t, u
  <2> QED BY <1>6, <2>1, SeqEqual
<1> QED BY <1>2, <1>7 DEF t, u
LEMMA HeadOfConcat ==
  ASSUME NEW S, NEW q \in Seq(S), NEW r \in Seq(S), q # <<>>
  PROVE  Head(q \o r) = Head(q)
<1>1. Len(q) \in Nat /\ Len(q) # 0 BY LenProperties, EmptySeq
<1>2. (q \o r)[1] = q[1] BY <1>1, ConcatProperties
<1> QED BY <1>2

-------------------------------------------------------------------------------
(* A message that stays in front of one that scan stops at is of another   *)
(* kind, unless it was declined.                                           *)
LEMMA KindsDiffer ==
  ASSUME NEW x \in BoxMessage, NEW y \in BoxMessage, NEW W, NEW D, Stays(x, W, D),
         Wanted(y, W) \/ Reported(y), x.kind = y.kind
  PROVE  x.id \in D
<1>1. x \in Message /\ y \in Message BY Fields
<1>2. CASE x.type = "linkDead" /\ y.type = "linkDead" BY <1>2 DEF Stays, Wanted, Reported
<1>3. CASE x.type # "linkDead" /\ y.type # "linkDead" BY <1>3 DEF Stays, Wanted, Reported
<1>4. CASE ~(x.type = "linkDead" <=> y.type = "linkDead")
  BY <1>1, <1>4, Fields, KindsAssumption
<1> QED BY <1>2, <1>3, <1>4

(* What scan adds to the declined messages is in the queue, and can be     *)
(* declined.                                                               *)
LEMMA ScanOnlyDeclines ==
  ASSUME NEW list \in Seq(BoxMessage), NEW W, NEW k \in StopsAt(list, W),
         NEW E \in SUBSET declined, Scan(list, W, k, E),
         Range(list) \subseteq Range(Queue)
  PROVE  Abstract!Declines
<1> DEFINE D == {m.id : m \in {n \in Passed(list, k) : Wanted(n, W)}}
           C == {m.id : m \in {n \in Range(Queue) : n.kind \in Choosy}}
<1>1. declined' = E \cup D BY DEF Scan
<1>2. /\ Passed(list, k) \subseteq Range(Queue)
      /\ \A m \in Passed(list, k) : ~Stops(m, W)
  BY StopsAtFirst
<1>3. \A m \in Passed(list, k) : Wanted(m, W) => m \in Range(Queue) /\ m.kind \in Choosy
  BY <1>2 DEF Stops
<1>4. D \subseteq C BY <1>3
<1> HIDE DEF D
<1>5. declined' \subseteq declined \cup C BY <1>1, <1>4
<1> QED BY <1>5 DEF Abstract!Declines, Abstract!Range, Range

(* A scan that stops takes the oldest message of its kind that was not     *)
(* declined, when what is in front of the list that it goes through stays. *)
LEMMA ScanTakes ==
  ASSUME NEW q \in Seq(BoxMessage), NEW list \in Seq(BoxMessage), NEW r \in Seq(BoxMessage),
         NEW W, NEW k \in StopsAt(list, W), k # 0,
         NEW E \in SUBSET declined, declined \subseteq 1..MaxAccepted, Scan(list, W, k, E),
         \A m \in Range(q) : Stays(m, W, declined'),
         Queue = (q \o list) \o r, Queue' = (q \o AfterScan(list, k)) \o r,
         UNCHANGED Urgent
  PROVE  Abstract!Take
<1> DEFINE n == Len(q) + k
           all == (q \o list) \o r
<1>1. /\ k \in 1..Len(list) /\ (Wanted(list[k], W) \/ Reported(list[k]))
      /\ \A i \in 1..(k - 1) : Stays(list[i], W, declined')
  <2>1. /\ k \in 1..Len(list) /\ (Wanted(list[k], W) \/ Reported(list[k]))
        /\ Passed(list, k) = {list[i] : i \in 1..(k - 1)}
    BY StopsAtFirst
  <2>2. E \in SUBSET (1..MaxAccepted) OBVIOUS
  <2>3. \A m \in Passed(list, k) : Stays(m, W, declined') BY <2>2, ScanDeclines
  <2> QED BY <2>1, <2>3
<1>2. AfterScan(list, k) = RemoveAt(list, k) BY DEF AfterScan
<1>3. /\ q \o list \in Seq(BoxMessage) /\ Len(q \o list) = Len(q) + Len(list)
      /\ Len(q) \in Nat /\ Len(list) \in Nat /\ Len(r) \in Nat
      /\ \A i \in 1..(Len(q) + Len(list)) :
           (q \o list)[i] = IF i <= Len(q) THEN q[i] ELSE list[i - Len(q)]
  BY ConcatProperties, LenProperties
<1>4. /\ all \in Seq(BoxMessage) /\ Len(all) = Len(q) + Len(list) + Len(r)
      /\ \A i \in 1..(Len(q) + Len(list)) : all[i] = (q \o list)[i]
  BY <1>3, ConcatProperties, LenProperties
<1>5. n \in 1..Len(q \o list) /\ n \in 1..Len(all) /\ n \in Nat BY <1>1, <1>3, <1>4
<1>6. Queue' = RemoveAt(Queue, n)
  <2>1. q \o RemoveAt(list, k) = RemoveAt(q \o list, n) BY <1>1, RemoveAtRight
  <2>2. RemoveAt(q \o list, n) \o r = RemoveAt(all, n)
    <3> DEFINE p == q \o list
    <3>1. p \in Seq(BoxMessage) /\ n \in 1..Len(p) BY <1>3, <1>5
    <3> HIDE DEF p, n
    <3>2. RemoveAt(p, n) \o r = RemoveAt(p \o r, n) BY <3>1, RemoveAtLeft
    <3> QED BY <3>2 DEF p
  <2> QED BY <1>2, <2>1, <2>2
<1>7. Range(list) \subseteq Range(Queue)
  <2>1. Range(q \o list) = Range(q) \cup Range(list) BY RangeConcatenation
  <2>2. Range((q \o list) \o r) = Range(q \o list) \cup Range(r)
    <3> DEFINE p == q \o list
    <3>1. p \in Seq(BoxMessage) BY <1>3
    <3> HIDE DEF p
    <3>2. Range(p \o r) = Range(p) \cup Range(r) BY <3>1, RangeConcatenation
    <3> QED BY <3>2 DEF p
  <2> QED BY <2>1, <2>2
<1> HIDE DEF all, n
<1>8. all[n] = list[k]
  <2>1. ~(n <= Len(q)) /\ n - Len(q) = k /\ n \in 1..(Len(q) + Len(list))
    BY <1>1, <1>3, <1>5 DEF n
  <2> QED BY <1>3, <1>4, <2>1
<1>9. ASSUME NEW i \in 1..(n - 1), all[i].kind = all[n].kind
      PROVE  all[i].id \in declined'
  <2>1. i \in 1..(Len(q) + Len(list)) /\ i \in Nat BY <1>1, <1>3, <1>5, <1>9
  <2>2. CASE i <= Len(q)
    <3>1. i \in 1..Len(q) BY <1>3, <2>1, <2>2
    <3>2. all[i] = q[i] BY <1>3, <1>4, <2>1, <2>2
    <3>3. q[i] \in Range(q) BY <3>1 DEF Range
    <3>4. Stays(all[i], W, declined') /\ all[i] \in BoxMessage BY <3>1, <3>2, <3>3
    <3> QED BY <1>1, <1>8, <1>9, <3>4, KindsDiffer
  <2>3. CASE ~(i <= Len(q))
    <3>1. i - Len(q) \in 1..(k - 1) /\ i - Len(q) \in 1..Len(list)
      BY <1>1, <1>3, <1>9, <2>1, <2>3 DEF n
    <3>2. all[i] = list[i - Len(q)] BY <1>3, <1>4, <2>1, <2>3
    <3>3. Stays(all[i], W, declined') /\ all[i] \in BoxMessage BY <1>1, <3>1, <3>2
    <3> QED BY <1>1, <1>8, <1>9, <3>3, KindsDiffer
  <2> QED BY <2>2, <2>3
<1>10. Queue = all BY DEF all
<1>11. n \in DOMAIN Queue /\ Abstract!Oldest(n)
  <2>1. DOMAIN all = 1..Len(all) BY <1>4
  <2> QED BY <1>5, <1>9, <1>10, <2>1 DEF Abstract!Oldest
<1>12. delivered' = IF Queue[n].type = "linkDead" THEN delivered
                                                  ELSE delivered \cup {Queue[n].id}
  <2>1. delivered' = IF k > 0 /\ Wanted(list[k], W) THEN delivered \cup {list[k].id}
                                                    ELSE delivered
    BY DEF Scan
  <2>2. Wanted(list[k], W) <=> list[k].type # "linkDead" BY <1>1 DEF Wanted, Reported
  <2>3. k > 0 BY <1>1
  <2> QED BY <1>8, <1>10, <2>1, <2>2, <2>3
<1>13. Abstract!Declines BY <1>7, ScanOnlyDeclines
<1> QED BY <1>6, <1>11, <1>12, <1>13 DEF Abstract!Take, Abstract!RemoveAt, RemoveAt

(* pty takes the oldest urgent message, or does nothing. *)
LEMMA PtyTakes ==
  ASSUME ListsOK, localPty # <<>>, NEW W, Pty(localPty, W), declined' \subseteq declined,
         UNCHANGED <<Queue, sharedPty>>
  PROVE  Abstract!Next
<1>1. localPty \in Seq(PtyMessage) /\ sharedPty \in Seq(PtyMessage) BY DEF ListsOK
<1>2. /\ Tail(localPty) \o sharedPty = Tail(Urgent) /\ Urgent # <<>>
      /\ Head(Urgent) = Head(localPty)
  BY <1>1, TailOfConcat, HeadOfConcat DEF Urgent
<1>3. Abstract!Declines BY DEF Abstract!Declines
<1>4. CASE /\ delivered' = delivered \cup {Head(localPty).id}
           /\ localPty' \in {Tail(localPty), localPty}
  <2>1. Urgent' \in {Tail(Urgent), Urgent} BY <1>2, <1>4 DEF Urgent
  <2>2. Abstract!TakeUrgent BY <1>2, <1>3, <1>4, <2>1 DEF Abstract!TakeUrgent
  <2> QED BY <2>2 DEF Abstract!Next
<1>5. CASE UNCHANGED <<localPty, delivered>>
  <2>1. Abstract!LookInVain BY <1>3, <1>5 DEF Abstract!LookInVain, Urgent
  <2> QED BY <2>1 DEF Abstract!Next
<1> QED BY <1>4, <1>5 DEF Pty

(* The head of get's loop. *)
LEMMA LookRefines ==
  ASSUME IInv, arrived = <<>>, NEW W, NEW E \in SUBSET declined, LookLocally(W, E),
         UNCHANGED <<sharedBox, sharedPty, arrived>>
  PROVE  Abstract!Next
<1>1. ListsOK /\ declined \subseteq 1..MaxAccepted BY Parts DEF OwnOK
<1>2. /\ localBox \in Seq(BoxMessage) /\ sharedBox \in Seq(BoxMessage)
      /\ localPty \in Seq(PtyMessage) /\ sharedPty \in Seq(PtyMessage)
  BY <1>1 DEF ListsOK
<1>3. CASE /\ localPty # <<>> /\ Pty(localPty, W) /\ declined' = E /\ UNCHANGED localBox
  <2>1. UNCHANGED Queue BY <1>3 DEF Queue
  <2> QED BY <1>1, <1>3, <2>1, PtyTakes
<1>4. ASSUME NEW k \in StopsAt(localBox, W), localPty = <<>>, UNCHANGED localPty,
             Scan(localBox, W, k, E), localBox' = AfterScan(localBox, k)
      PROVE  Abstract!Next
  <2>1. UNCHANGED Urgent BY <1>4 DEF Urgent
  <2>2. Queue = localBox \o sharedBox BY <1>2, ConcatEmptySeq DEF Queue
  <2>3. CASE k = 0
    <3>1. UNCHANGED <<localBox, delivered>> BY <1>4, <2>3 DEF AfterScan, Scan
    <3>2. UNCHANGED Queue BY <3>1 DEF Queue
    <3>3. Range(localBox) \subseteq Range(Queue) BY <1>2, <2>2, RangeConcatenation
    <3>4. Abstract!Declines BY <1>2, <1>4, <3>3, ScanOnlyDeclines
    <3> QED BY <2>1, <3>1, <3>2, <3>4 DEF Abstract!Next, Abstract!LookInVain
  <2>4. CASE k # 0
    <3>1. AfterScan(localBox, k) \in Seq(BoxMessage)
      <4>1. k \in 1..Len(localBox) BY <1>2, <2>4, StopsAtFirst
      <4> QED BY <1>2, <2>4, <4>1, RemoveAtSeq DEF AfterScan
    <3>2. Queue' = AfterScan(localBox, k) \o sharedBox
      BY <1>2, <1>4, <3>1, ConcatEmptySeq DEF Queue
    <3>3. /\ <<>> \o localBox = localBox
          /\ <<>> \o AfterScan(localBox, k) = AfterScan(localBox, k)
      BY <1>2, <3>1, ConcatEmptySeq
    <3>4. <<>> \in Seq(BoxMessage) /\ \A m \in Range(<<>>) : Stays(m, W, declined')
      BY RangeEmpty
    <3>5. Abstract!Take BY <1>1, <1>2, <1>4, <2>1, <2>2, <2>4, <3>2, <3>3, <3>4, ScanTakes
    <3> QED BY <3>5 DEF Abstract!Next
  <2> QED BY <2>3, <2>4
<1> QED BY <1>3, <1>4 DEF LookLocally

(* get after its critical section. *)
LEMMA SortRefines ==
  ASSUME IInv, Sort
  PROVE  Abstract!Next
<1>1. ListsOK /\ Sleeping /\ declined \subseteq 1..MaxAccepted BY Parts DEF OwnOK
<1>2. /\ localBox \in Seq(BoxMessage) /\ arrived \in Seq(BoxMessage)
      /\ sharedBox \in Seq(BoxMessage)
      /\ localPty \in Seq(PtyMessage) /\ sharedPty \in Seq(PtyMessage)
  BY <1>1 DEF ListsOK
<1>3. arrived' = <<>> /\ UNCHANGED <<sharedBox, sharedPty>> BY DEF Sort, shared
<1>4. \A m \in Range(localBox) : Stays(m, ops, declined) BY <1>1 DEF Sort, Sleeping
<1>5. ASSUME NEW k \in StopsAt(arrived, ops), UNCHANGED localPty,
             Scan(arrived, ops, k, declined), localBox' = localBox \o AfterScan(arrived, k)
      PROVE  Abstract!Next
  <2>1. UNCHANGED Urgent BY <1>3, <1>5 DEF Urgent
  <2>2. AfterScan(arrived, k) \in Seq(BoxMessage)
    <3>1. CASE k = 0 BY <1>2, <3>1 DEF AfterScan
    <3>2. CASE k # 0
      <4>1. k \in 1..Len(arrived) BY <1>2, <3>2, StopsAtFirst
      <4> QED BY <1>2, <3>2, <4>1, RemoveAtSeq DEF AfterScan
    <3> QED BY <3>1, <3>2
  <2>3. localBox \o AfterScan(arrived, k) \in Seq(BoxMessage)
    BY <1>2, <2>2, ConcatProperties
  <2>4. Queue' = (localBox \o AfterScan(arrived, k)) \o sharedBox
    BY <1>3, <1>5, <2>3, ConcatEmptySeq DEF Queue
  <2>5. CASE k = 0
    <3>1. AfterScan(arrived, k) = arrived /\ UNCHANGED delivered
      BY <1>5, <2>5 DEF AfterScan, Scan
    <3>2. UNCHANGED Queue BY <2>4, <3>1 DEF Queue
    <3>3. Range(arrived) \subseteq Range(Queue)
      <4>1. Pending = Range(localBox) \cup Range(arrived) \cup Range(sharedBox)
        BY <1>1, PendingParts
      <4> QED BY <4>1 DEF Pending
    <3>4. Abstract!Declines BY <1>2, <1>5, <3>3, ScanOnlyDeclines
    <3> QED BY <2>1, <3>1, <3>2, <3>4 DEF Abstract!Next, Abstract!LookInVain
  <2>6. CASE k # 0
    <3>1. Queue = (localBox \o arrived) \o sharedBox BY DEF Queue
    <3>2. declined \subseteq declined' BY <1>1, <1>2, <1>5, ScanDeclines
    <3>3. \A m \in Range(localBox) : Stays(m, ops, declined') BY <1>4, <3>2 DEF Stays
    <3>4. Abstract!Take
      BY <1>1, <1>2, <1>5, <2>1, <2>4, <2>6, <3>1, <3>3, ScanTakes
    <3> QED BY <3>4 DEF Abstract!Next
  <2> QED BY <2>5, <2>6
<1>6. CASE /\ localPty # <<>> /\ localBox' = localBox \o arrived /\ Pty(localPty, ops)
           /\ UNCHANGED declined
  <2>1. UNCHANGED Queue
    <3>1. localBox \o arrived \in Seq(BoxMessage) BY <1>2, ConcatProperties
    <3> QED BY <1>3, <1>6, <3>1, ConcatEmptySeq DEF Queue
  <2> QED BY <1>1, <1>3, <1>6, <2>1, PtyTakes
<1> QED BY <1>5, <1>6 DEF Sort

(* A step of another thread. *)
LEMMA OutsideRefines ==
  ASSUME IInv, Outside
  PROVE  Abstract!Next \/ UNCHANGED <<Queue, Urgent, declined, delivered>>
<1>1. ListsOK /\ Numbers /\ accepted \in Nat BY Parts
<1>2. /\ localBox \in Seq(BoxMessage) /\ arrived \in Seq(BoxMessage)
      /\ sharedBox \in Seq(BoxMessage)
      /\ localPty \in Seq(PtyMessage) /\ sharedPty \in Seq(PtyMessage)
  BY <1>1 DEF ListsOK
<1>3. UNCHANGED <<localBox, localPty, arrived, declined, delivered>>
  BY DEF Outside, local
<1>4. CASE UNCHANGED <<sharedBox, sharedPty>> BY <1>3, <1>4 DEF Queue, Urgent
<1>5. ASSUME NEW m \in Message, Added(m)
      PROVE  Abstract!Next
  <2>0. Abstract!New(m)
    <3>1. /\ Range(Queue) = Range(localBox) \cup Range(arrived) \cup Range(sharedBox)
          /\ Range(Urgent) = Range(localPty) \cup Range(sharedPty)
      BY <1>1, PendingParts DEF Pending
    <3>2. \A n \in Range(Queue) \cup Range(Urgent) : n.id <= accepted /\ n.id \in Nat
      <4>1. Range(Queue) \cup Range(Urgent) = Fetched \cup Shared
        BY <3>1 DEF Fetched, Shared
      <4>2. Fetched \cup Shared \subseteq Message
        BY <1>1, RangeMembers, Fields DEF ListsOK, Fetched, Shared
      <4> QED BY <1>1, <4>1, <4>2, Fields DEF Numbers
    <3>3. m.id = accepted + 1 BY <1>5 DEF Added
    <3>4. m.id \notin delivered BY <1>1, <3>3 DEF Numbers
    <3>5. \A n \in Range(Queue) \cup Range(Urgent) : n.id # m.id BY <1>1, <3>2, <3>3
    <3> QED BY <3>4, <3>5 DEF Abstract!New, Abstract!Range, Range
  <2>1. CASE m.type # "priority"
    <3>1. sharedBox' = Append(sharedBox, m) /\ UNCHANGED sharedPty BY <1>5, <2>1 DEF Added
    <3>2. localBox \o arrived \in Seq(BoxMessage) BY <1>2, ConcatProperties
    <3>3. Queue' = (localBox \o arrived) \o Append(sharedBox, m) BY <1>3, <3>1 DEF Queue
    <3>4. Queue' = Append(Queue, m)
      <4> DEFINE q == localBox \o arrived
      <4> HIDE DEF q
      <4>1. q \in Seq(Message) /\ sharedBox \in Seq(Message) BY <1>2, <3>2, Fields DEF q
      <4>2. q \o Append(sharedBox, m) = Append(q \o sharedBox, m)
        BY <4>1, AppendOfConcat
      <4> QED BY <3>3, <4>2 DEF Queue, q
    <3>5. UNCHANGED Urgent BY <1>3, <3>1 DEF Urgent
    <3>6. Queue' # Queue
      <4>1. Queue \in Seq(Message) BY <1>1, PendingParts, Fields
      <4> QED BY <3>4, <4>1
    <3> QED BY <1>3, <2>0, <3>4, <3>5, <3>6 DEF Abstract!Next, Abstract!Accept
  <2>2. CASE m.type = "priority"
    <3>1. sharedPty' = Append(sharedPty, m) /\ UNCHANGED sharedBox BY <1>5, <2>2 DEF Added
    <3>2. localPty \in Seq(Message) /\ sharedPty \in Seq(Message) BY <1>2, Fields
    <3>3. Urgent' = Append(Urgent, m) BY <1>3, <3>1, <3>2, AppendOfConcat DEF Urgent
    <3>4. UNCHANGED Queue BY <1>3, <3>1 DEF Queue
    <3>5. Urgent' # Urgent
      <4>1. Urgent \in Seq(Message) BY <1>1, PendingParts, Fields
      <4> QED BY <3>3, <4>1
    <3> QED BY <1>3, <2>0, <3>3, <3>4, <3>5 DEF Abstract!Next, Abstract!AcceptUrgent
  <2> QED BY <2>1, <2>2
<1> QED BY <1>4, <1>5 DEF Outside

LEMMA InitRefines == Init => Abstract!Init
<1> SUFFICES ASSUME Init PROVE Abstract!Init OBVIOUS
<1>1. /\ localBox = <<>> /\ arrived = <<>> /\ sharedBox = <<>> /\ localPty = <<>>
      /\ sharedPty = <<>> /\ declined = {} /\ delivered = {}
  BY DEF Init
<1>2. <<>> \o <<>> = <<>>
  <2>1. <<>> \in Seq(Message) OBVIOUS
  <2> QED BY <2>1, ConcatEmptySeq
<1> QED BY <1>1, <1>2 DEF Abstract!Init, Queue, Urgent

LEMMA StepRefines == IInv /\ [Next]_vars => [Abstract!Next]_Abstract!vars
<1> SUFFICES ASSUME IInv, [Next]_vars
             PROVE  Abstract!Next \/ UNCHANGED <<Queue, Urgent, declined, delivered>>
  BY DEF Abstract!vars
<1>1. ListsOK /\ Sleeping /\ Counting /\ TypeOK BY Parts DEF IInv
<1>2. /\ localBox \in Seq(BoxMessage) /\ arrived \in Seq(BoxMessage)
      /\ sharedBox \in Seq(BoxMessage)
      /\ localPty \in Seq(PtyMessage) /\ sharedPty \in Seq(PtyMessage)
  BY <1>1 DEF ListsOK
<1>3. CASE \E p \in Peers : Send(p) \/ SendAgain(p) \/ SpuriousWakeup(p) \/ Terminate(p)
  <2>1. Outside BY <1>1, <1>3, PeerStep
  <2> QED BY <2>1, OutsideRefines
<1>4. CASE Receive
  <2>1. PICK W \in OpSets : LookLocally(W, {}) BY <1>4 DEF Receive
  <2>2. arrived = <<>> /\ UNCHANGED <<sharedBox, sharedPty, arrived>>
    BY <1>1, <1>4 DEF Receive, Sleeping, shared
  <2> QED BY <2>1, <2>2, LookRefines
<1>5. CASE LookAgain
  <2>1. LookLocally(ops, declined) BY <1>5 DEF LookAgain
  <2>2. arrived = <<>> /\ UNCHANGED <<sharedBox, sharedPty, arrived>>
    BY <1>1, <1>5 DEF LookAgain, Sleeping, shared
  <2> QED BY <2>1, <2>2, LookRefines
<1>6. CASE Sort BY <1>6, SortRefines
<1>7. CASE Fetch
  <2>1. /\ localPty' = localPty \o sharedPty /\ sharedPty' = <<>>
        /\ arrived' = sharedBox /\ sharedBox' = <<>>
        /\ UNCHANGED <<localBox, declined, delivered>>
    BY <1>7 DEF Fetch
  <2>2. arrived = <<>> BY <1>1, <1>7 DEF Fetch, Sleeping
  <2>3. localPty \o sharedPty \in Seq(PtyMessage) /\ localBox \o sharedBox \in Seq(BoxMessage)
    BY <1>2, ConcatProperties
  <2>4. UNCHANGED Urgent BY <2>1, <2>3, ConcatEmptySeq DEF Urgent
  <2>5. Queue = localBox \o sharedBox BY <1>2, <2>2, ConcatEmptySeq DEF Queue
  <2>6. Queue' = localBox \o sharedBox BY <2>1, <2>3, ConcatEmptySeq DEF Queue
  <2> QED BY <2>1, <2>4, <2>5, <2>6
<1>8. CASE Close
  <2>1. /\ localBox' = <<>> /\ sharedBox' = <<>>
        /\ UNCHANGED <<localPty, sharedPty, arrived, declined, delivered>>
    BY <1>8 DEF Close
  <2>2. arrived = <<>> BY <1>1, <1>8 DEF Close, Sleeping
  <2>3. <<>> \o <<>> = <<>>
    <3>1. <<>> \in Seq(Message) OBVIOUS
    <3> QED BY <3>1, ConcatEmptySeq
  <2>4. Queue' = <<>> /\ UNCHANGED Urgent BY <2>1, <2>2, <2>3 DEF Queue, Urgent
  <2> QED BY <2>1, <2>4 DEF Abstract!Next, Abstract!Drop
<1>9. CASE SetMaxMsgs \/ Wait \/ Timeout \/ SpuriousWakeupOfReceiver \/ UNCHANGED vars
  <2>1. UNCHANGED <<localBox, arrived, sharedBox, localPty, sharedPty, declined, delivered>>
    BY <1>9 DEF SetMaxMsgs, Wait, Timeout, SpuriousWakeupOfReceiver, vars, local, shared
  <2> QED BY <2>1 DEF Queue, Urgent
<1> QED BY <1>3, <1>4, <1>5, <1>6, <1>7, <1>8, <1>9 DEF Next

(* The mailbox behaves like one queue in the order of acceptance, from     *)
(* which a receive takes, once, the oldest message of a kind that it does  *)
(* not decline, beside one queue of urgent messages that are taken in      *)
(* order: the five lists, the moves between them, the limit and the        *)
(* conditions are not visible.                                             *)
THEOREM ImplementsAbstract == Spec => ImplementsMailbox
<1>1. Spec => Abstract!Init /\ [][Abstract!Next]_Abstract!vars
  BY InitRefines, StepRefines, Invariance, PTL DEF Spec
<1> QED BY <1>1 DEF ImplementsMailbox, Abstract!Spec

-------------------------------------------------------------------------------
(* The registry.  The invariant is the conjunction of what is to be proved. *)
RegistryInv == RegistryTypeOK /\ NamesListed /\ LeaversUnnamed

-------------------------------------------------------------------------------
(* A set of naturals that is not empty has a least element. *)
LEMMA RegistryMin ==
  ASSUME NEW S \in SUBSET Nat, S # {}
  PROVE  Min(S) \in S
BY LeastElement DEF Min

(* unregister leaves every other name of the array in it. *)
LEMMA UnregisterKeepsOthers ==
  ASSUME NEW q \in Seq(Names), NEW n \in Range(q)
  PROVE  /\ RemoveUnstable(q, n) \in Seq(Names)
         /\ \A m \in Range(q) \ {n} : m \in Range(RemoveUnstable(q, n))
<1> DEFINE found == {i \in DOMAIN q : q[i] = n}
           p == Min(found)
<1>1. Len(q) \in Nat /\ DOMAIN q = 1..Len(q) OBVIOUS
<1>2. found \in SUBSET Nat /\ found # {} BY <1>1 DEF Range
<1>3. p \in found BY <1>2, RegistryMin
<1>4. p \in 1..Len(q) /\ q[p] = n BY <1>1, <1>3
<1> HIDE DEF p
<1>5. RemoveUnstable(q, n) = [q EXCEPT ![p] = q[Len(q)]]
  BY DEF RemoveUnstable, Last, p
<1>6. q[Len(q)] \in Names BY <1>1, <1>4
<1>7. RemoveUnstable(q, n) \in Seq(Names)
  <2>1. q \in [1..Len(q) -> Names] BY <1>1
  <2>2. [q EXCEPT ![p] = q[Len(q)]] \in [1..Len(q) -> Names] BY <2>1, <1>6
  <2>3. RemoveUnstable(q, n) \in [1..Len(q) -> Names] BY <2>2, <1>5
  <2> QED BY <2>3, <1>1
<1>8. ASSUME NEW m \in Range(q), m # n PROVE m \in Range(RemoveUnstable(q, n))
  <2>1. PICK i \in 1..Len(q) : q[i] = m BY <1>1 DEF Range
  <2>2. i # p BY <2>1, <1>4, <1>8
  <2>3. RemoveUnstable(q, n)[i] = m /\ i \in DOMAIN RemoveUnstable(q, n)
    BY <2>1, <2>2, <1>1, <1>5
  <2> QED BY <2>3 DEF Range
<1> QED BY <1>7, <1>8

LEMMA RegistryAppends ==
  ASSUME NEW q \in Seq(Names), NEW n \in Names
  PROVE  /\ Append(q, n) \in Seq(Names)
         /\ \A m \in Range(q) \cup {n} : m \in Range(Append(q, n))
<1>1. Len(q) \in Nat /\ DOMAIN q = 1..Len(q) OBVIOUS
<1>2. /\ DOMAIN Append(q, n) = 1..(Len(q) + 1)
      /\ Append(q, n)[Len(q) + 1] = n
      /\ \A i \in 1..Len(q) : Append(q, n)[i] = q[i]
  OBVIOUS
<1>3. 1..(Len(q) + 1) = 1..Len(q) \cup {Len(q) + 1} BY <1>1
<1> QED BY <1>1, <1>2, <1>3 DEF Range

-------------------------------------------------------------------------------
LEMMA RegistryStarts == RegistryInit => RegistryInv
BY TidsAssumption DEF RegistryInit, RegistryInv, RegistryTypeOK, NamesListed, LeaversUnnamed

LEMMA RegisterInvariant ==
  ASSUME RegistryInv, NEW n \in Names, NEW t \in Tids, Register(n, t)
  PROVE  RegistryInv'
<1> USE TidsAssumption DEF RegistryInv
<1>1. namesByTid[t] \in Seq(Names) BY DEF RegistryTypeOK
<1>2. /\ Append(namesByTid[t], n) \in Seq(Names)
      /\ \A m \in Range(namesByTid[t]) \cup {n} : m \in Range(Append(namesByTid[t], n))
  BY <1>1, RegistryAppends
<1>3. /\ tidByName' = [tidByName EXCEPT ![n] = t]
      /\ namesByTid' = [namesByTid EXCEPT ![t] = Append(namesByTid[t], n)]
      /\ closedTids' = closedTids /\ gone' = gone /\ t \notin closedTids
  BY DEF Register
<1>4. RegistryTypeOK' BY <1>2, <1>3 DEF RegistryTypeOK
<1>5. NamesListed' BY <1>2, <1>3 DEF RegistryTypeOK, NamesListed
<1>6. LeaversUnnamed' BY <1>3 DEF RegistryTypeOK, LeaversUnnamed
<1> QED BY <1>4, <1>5, <1>6

LEMMA UnregisterInvariant ==
  ASSUME RegistryInv, NEW n \in Names, Unregister(n)
  PROVE  RegistryInv'
<1> USE TidsAssumption DEF RegistryInv
<1> DEFINE t == tidByName[n]
           q == RemoveUnstable(namesByTid[t], n)
<1>1. t \in Tids /\ n \in Range(namesByTid[t]) /\ namesByTid[t] \in Seq(Names)
  BY DEF RegistryTypeOK, NamesListed, Unregister
<1>2. q \in Seq(Names) /\ \A m \in Range(namesByTid[t]) \ {n} : m \in Range(q)
  BY <1>1, UnregisterKeepsOthers
<1>3. /\ tidByName' = [tidByName EXCEPT ![n] = TidInit]
      /\ namesByTid' = [namesByTid EXCEPT ![t] = q]
      /\ closedTids' = closedTids /\ gone' = gone
  BY DEF Unregister
<1> HIDE DEF q
<1>4. RegistryTypeOK' BY <1>1, <1>2, <1>3 DEF RegistryTypeOK
<1>5. NamesListed'
  <2> SUFFICES ASSUME NEW m \in Names, tidByName'[m] # TidInit
               PROVE  m \in Range(namesByTid'[tidByName'[m]])
    BY DEF NamesListed
  <2>1. m # n /\ tidByName'[m] = tidByName[m] BY <1>3 DEF RegistryTypeOK
  <2>2. m \in Range(namesByTid[tidByName[m]]) /\ tidByName[m] \in Tids
    BY <2>1 DEF NamesListed, RegistryTypeOK
  <2>3. CASE tidByName[m] = t BY <2>1, <2>2, <2>3, <1>1, <1>2, <1>3 DEF RegistryTypeOK
  <2>4. CASE tidByName[m] # t BY <2>1, <2>2, <2>4, <1>1, <1>3 DEF RegistryTypeOK
  <2> QED BY <2>3, <2>4
<1>6. LeaversUnnamed' BY <1>3 DEF RegistryTypeOK, LeaversUnnamed
<1> QED BY <1>4, <1>5, <1>6

LEMMA UnregisterMeInvariant ==
  ASSUME RegistryInv, NEW t \in Tids, UnregisterMe(t)
  PROVE  RegistryInv'
<1> USE TidsAssumption DEF RegistryInv, UnregisterMe
<1>1. RegistryTypeOK'
  <2>1. <<>> \in Seq(Names) OBVIOUS
  <2> QED BY <2>1 DEF RegistryTypeOK
<1>2. \A n \in Names : tidByName'[n] \in {TidInit, tidByName[n]} /\ tidByName'[n] # t
  BY DEF RegistryTypeOK, NamesListed
<1>3. \A u \in Tids \ {t} : namesByTid'[u] = namesByTid[u] BY DEF RegistryTypeOK
<1>4. NamesListed' BY <1>2, <1>3 DEF RegistryTypeOK, NamesListed
<1>5. LeaversUnnamed' BY <1>2 DEF RegistryTypeOK, LeaversUnnamed
<1> QED BY <1>1, <1>4, <1>5

LEMMA RegistryStep == RegistryInv /\ [RegistryNext]_registryVars => RegistryInv'
<1> SUFFICES ASSUME RegistryInv, [RegistryNext]_registryVars PROVE RegistryInv' OBVIOUS
<1>1. ASSUME NEW t \in Tids, CloseMailbox(t) PROVE RegistryInv'
  BY <1>1 DEF RegistryInv, CloseMailbox, RegistryTypeOK, NamesListed, LeaversUnnamed
<1>2. CASE UNCHANGED registryVars
  BY <1>2 DEF registryVars, RegistryInv, RegistryTypeOK, NamesListed, LeaversUnnamed
<1> QED BY <1>1, <1>2, RegisterInvariant, UnregisterInvariant, UnregisterMeInvariant
        DEF RegistryNext

LEMMA RegistryInvariance == RegistrySpec => []RegistryInv
BY RegistryStarts, RegistryStep, PTL DEF RegistrySpec

(* RegistryTypeOK: the type of every reachable state of the registry. *)
THEOREM RegistryTypeCorrect == RegistrySpec => []RegistryTypeOK
<1>1. RegistryInv => RegistryTypeOK BY DEF RegistryInv
<1> QED BY <1>1, RegistryInvariance, PTL

(* NamesListed: unregister and unregisterMe find the names they look for   *)
(* in the array of the thread, whatever was left in it.                    *)
THEOREM RegistryListed == RegistrySpec => []NamesListed
<1>1. RegistryInv => NamesListed BY DEF RegistryInv
<1> QED BY <1>1, RegistryInvariance, PTL

(* LeaversUnnamed: locate never returns a thread that has left.            *)
THEOREM RegistryUnnamed == RegistrySpec => []LeaversUnnamed
<1>1. RegistryInv => LeaversUnnamed BY DEF RegistryInv
<1> QED BY <1>1, RegistryInvariance, PTL
===============================================================================
