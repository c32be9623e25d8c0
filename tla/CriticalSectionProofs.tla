------------------------ MODULE CriticalSectionProofs -------------------------
(***************************************************************************)
(* CriticalSection for every set of threads and every finite set of        *)
(* statements, however they are nested: a mutex is created once and before *)
(* anybody locks it, a statement has one thread inside at a time, and the  *)
(* end of the program destroys every mutex that was created.               *)
(***************************************************************************)
EXTENDS CriticalSection, FiniteSetTheorems, WellFoundedInduction, TLAPS

Linking == {"readHead", "setHead", "publish"}

(* The mutex of gcs is held between LockGcs and UnlockGcs. *)
GcsMutex == \A t \in Threads : pc[t] \in Busy <=> owner[Gcs] = t

(* next is the flag of a section whose mutex has been created, except for  *)
(* the one section that the thread with the mutex of gcs is linking.       *)
Flags ==
  \A s \in Sections :
    /\ inits[s] \in {0, 1}
    /\ next[s] # Null => inits[s] = 1
    /\ next[s] = Null /\ inits[s] = 1 =>
         owner[Gcs] \in Threads /\ pc[owner[Gcs]] \in Linking /\ cs[owner[Gcs]] = s

(* What a thread knows of the section it enters. *)
Progress ==
  \A t \in Threads :
    /\ pc[t] = "init" => next[cs[t]] = Null
    /\ pc[t] \in Linking => inits[cs[t]] = 1
    /\ pc[t] \in {"setHead", "publish"} => ohead[t] # Null
    /\ pc[t] \in {"unlockGcs", "lock"} => next[cs[t]] # Null

(* Whoever is inside holds the mutex, which was created before. *)
Holds ==
  \A t \in Threads : \A s \in Range(held[t]) : owner[s] = t /\ inits[s] = 1

IInv == TypeOK /\ GcsMutex /\ Flags /\ Progress /\ Holds

-------------------------------------------------------------------------------
(* The elements of a sequence when one is appended or the last is removed. *)
LEMMA RangeAppend ==
  ASSUME NEW S, NEW q \in Seq(S), NEW x \in S
  PROVE  Range(Append(q, x)) = Range(q) \cup {x}
<1>1. Len(q) \in Nat /\ DOMAIN q = 1..Len(q) OBVIOUS
<1>2. /\ DOMAIN Append(q, x) = 1..(Len(q) + 1)
      /\ Append(q, x)[Len(q) + 1] = x
      /\ \A i \in 1..Len(q) : Append(q, x)[i] = q[i]
  OBVIOUS
<1>3. 1..(Len(q) + 1) = 1..Len(q) \cup {Len(q) + 1} BY <1>1
<1> QED BY <1>1, <1>2, <1>3 DEF Range

LEMMA RangeFront ==
  ASSUME NEW S, NEW q \in Seq(S), q # <<>>
  PROVE  /\ Front(q) \in Seq(S)
         /\ Last(q) \in Range(q)
         /\ Range(q) = Range(Front(q)) \cup {Last(q)}
<1>1. Len(q) \in Nat \ {0} /\ DOMAIN q = 1..Len(q) OBVIOUS
<1>2. Front(q) \in Seq(S) /\ Len(Front(q)) = Len(q) - 1
      /\ \A i \in 1..(Len(q) - 1) : Front(q)[i] = q[i]
  BY <1>1 DEF Front
<1>3. DOMAIN Front(q) = 1..(Len(q) - 1) BY <1>1, <1>2
<1> QED BY <1>1, <1>2, <1>3 DEF Range, Last

LEMMA RangeOfSections ==
  ASSUME TypeOK, NEW t \in Threads
  PROVE  Range(held[t]) \subseteq Sections
<1>1. held[t] \in Seq(Sections) BY DEF TypeOK
<1> QED BY <1>1 DEF Range

-------------------------------------------------------------------------------
LEMMA InitInvariant == Init => IInv
<1> SUFFICES ASSUME Init PROVE IInv OBVIOUS
<1> USE SectionsAssumption, GcsAssumption, ThreadsAssumption DEF Init, InitialHead
<1>1. TypeOK BY DEF TypeOK
<1>2. GcsMutex /\ Flags BY DEF GcsMutex, Flags, Busy
<1>3. Progress BY DEF Progress, Linking
<1>4. Holds BY DEF Holds, Range
<1> QED BY <1>1, <1>2, <1>3, <1>4 DEF IInv

(* The steps of a thread that is on its way in, one lemma for those that   *)
(* leave "held" and the mutexes of the sections alone.                     *)
LEMMA EnteringInvariant ==
  ASSUME IInv, NEW t \in Threads,
         \/ \E s \in Sections : Enter(t, s)
         \/ LockGcs(t) \/ Check(t) \/ ReadHead(t) \/ SetHead(t) \/ Publish(t)
         \/ UnlockGcs(t)
  PROVE  IInv'
<1> USE SectionsAssumption, GcsAssumption, ThreadsAssumption DEF Goto, list
<1> USE DEF IInv
<1>1. ASSUME NEW s \in Sections, Enter(t, s) PROVE IInv'
  <2>1. TypeOK' BY <1>1 DEF TypeOK, Enter, Busy
  <2>2. GcsMutex' BY <1>1 DEF TypeOK, GcsMutex, Enter, Busy
  <2>3. Flags' BY <1>1 DEF TypeOK, Flags, Enter, Linking
  <2>4. Progress' BY <1>1 DEF TypeOK, Progress, Enter, Linking
  <2>5. Holds' BY <1>1 DEF Holds, Enter
  <2> QED BY <2>1, <2>2, <2>3, <2>4, <2>5
<1>2. CASE LockGcs(t)
  <2>1. TypeOK' BY <1>2 DEF TypeOK, LockGcs, Busy
  <2>2. GcsMutex' BY <1>2 DEF TypeOK, GcsMutex, LockGcs, Busy
  <2>3. Flags' BY <1>2 DEF TypeOK, Flags, LockGcs, Linking
  <2>4. Progress' BY <1>2 DEF TypeOK, Progress, LockGcs, Linking
  <2>5. Holds' BY <1>2, RangeOfSections DEF TypeOK, Holds, LockGcs
  <2> QED BY <2>1, <2>2, <2>3, <2>4, <2>5
<1>3. CASE Check(t)
  <2>1. TypeOK' BY <1>3 DEF TypeOK, Check, Busy
  <2>2. GcsMutex' BY <1>3 DEF TypeOK, GcsMutex, Check, Busy
  <2>3. Flags' BY <1>3 DEF TypeOK, Flags, Check, Linking
  <2>4. Progress' BY <1>3 DEF TypeOK, Progress, Check, Linking
  <2>5. Holds' BY <1>3 DEF Holds, Check
  <2> QED BY <2>1, <2>2, <2>3, <2>4, <2>5
<1>4. CASE ReadHead(t)
  <2>1. TypeOK' BY <1>4 DEF TypeOK, ReadHead, Busy
  <2>2. GcsMutex' BY <1>4 DEF TypeOK, GcsMutex, ReadHead, Busy
  <2>3. Flags' BY <1>4 DEF TypeOK, Flags, ReadHead, Linking
  <2>4. Progress' BY <1>4 DEF TypeOK, Progress, ReadHead, Linking
  <2>5. Holds' BY <1>4 DEF Holds, ReadHead
  <2> QED BY <2>1, <2>2, <2>3, <2>4, <2>5
<1>5. CASE SetHead(t)
  <2>1. TypeOK' BY <1>5 DEF TypeOK, SetHead, Busy
  <2>2. GcsMutex' BY <1>5 DEF TypeOK, GcsMutex, SetHead, Busy
  <2>3. Flags' BY <1>5 DEF TypeOK, Flags, SetHead, Linking
  <2>4. Progress' BY <1>5 DEF TypeOK, Progress, SetHead, Linking
  <2>5. Holds' BY <1>5 DEF Holds, SetHead
  <2> QED BY <2>1, <2>2, <2>3, <2>4, <2>5
<1>6. CASE Publish(t)
  <2>1. TypeOK' BY <1>6 DEF TypeOK, Publish, Busy
  <2>2. GcsMutex' BY <1>6 DEF TypeOK, GcsMutex, Publish, Busy
  <2>3. cs[t] \in Sections /\ owner[Gcs] = t /\ inits[cs[t]] = 1 /\ ohead[t] # Null
    BY <1>6 DEF TypeOK, GcsMutex, Progress, Publish, Busy, Linking
  <2>4. next' = [next EXCEPT ![cs[t]] = ohead[t]] /\ UNCHANGED <<inits, owner, cs>>
    BY <1>6 DEF Publish
  <2>5. Flags'
    <3> SUFFICES ASSUME NEW s \in Sections
                 PROVE  /\ inits[s] \in {0, 1}
                        /\ next'[s] # Null => inits[s] = 1
                        /\ next'[s] = Null /\ inits[s] = 1 => FALSE
      BY <2>4 DEF Flags
    <3>1. CASE s = cs[t] BY <3>1, <2>3, <2>4 DEF TypeOK
    <3>2. CASE s # cs[t] BY <3>2, <2>3, <2>4 DEF TypeOK, Flags
    <3> QED BY <3>1, <3>2
  <2>6. \A u \in Threads : u # t => pc[u] \notin Busy
    BY <2>3 DEF GcsMutex
  <2>7. Progress'
    <3> SUFFICES ASSUME NEW u \in Threads
                 PROVE  /\ pc'[u] = "init" => next'[cs[u]] = Null
                        /\ pc'[u] \in Linking => inits[cs[u]] = 1
                        /\ pc'[u] \in {"setHead", "publish"} => ohead'[u] # Null
                        /\ pc'[u] \in {"unlockGcs", "lock"} => next'[cs[u]] # Null
      BY <2>4 DEF Progress
    <3>1. CASE u = t BY <3>1, <1>6, <2>3, <2>4 DEF TypeOK, Publish, Linking
    <3>2. CASE u # t
      BY <3>2, <1>6, <2>3, <2>4, <2>6 DEF TypeOK, Publish, Progress, Linking, Busy
    <3> QED BY <3>1, <3>2
  <2>8. Holds' BY <1>6 DEF Holds, Publish
  <2> QED BY <2>1, <2>2, <2>5, <2>7, <2>8
<1>7. CASE UnlockGcs(t)
  <2>1. TypeOK' BY <1>7 DEF TypeOK, UnlockGcs, Busy
  <2>2. GcsMutex' BY <1>7 DEF TypeOK, GcsMutex, UnlockGcs, Busy
  <2>3. Flags' BY <1>7 DEF TypeOK, Flags, GcsMutex, UnlockGcs, Linking, Busy
  <2>4. Progress' BY <1>7 DEF TypeOK, Progress, UnlockGcs, Linking
  <2>5. Holds' BY <1>7, RangeOfSections DEF TypeOK, Holds, UnlockGcs
  <2> QED BY <2>1, <2>2, <2>3, <2>4, <2>5
<1> QED BY <1>1, <1>2, <1>3, <1>4, <1>5, <1>6, <1>7

(* The mutex that is created is not one that somebody holds. *)
LEMMA InitMutexInvariant ==
  ASSUME IInv, NEW t \in Threads, InitMutex(t)
  PROVE  IInv'
<1> USE SectionsAssumption, GcsAssumption, ThreadsAssumption DEF Goto, list, IInv
<1> DEFINE c == cs[t]
<1>0. pc[t] = "init" BY DEF InitMutex
<1>1. c \in Sections /\ owner[Gcs] = t /\ next[c] = Null /\ inits[c] = 0
  <2>1. c \in Sections BY <1>0 DEF TypeOK
  <2>2. owner[Gcs] = t /\ next[c] = Null BY <1>0 DEF GcsMutex, Progress, Busy
  <2>3. pc[owner[Gcs]] \notin Linking BY <1>0, <2>2 DEF Linking
  <2> QED BY <2>1, <2>2, <2>3 DEF Flags
<1>2. /\ inits' = [inits EXCEPT ![c] = 1] /\ owner' = [owner EXCEPT ![c] = NoThread]
      /\ pc' = [pc EXCEPT ![t] = "readHead"] /\ pc[t] = "init"
      /\ UNCHANGED <<next, head, cs, ohead, held, destroyed>>
  BY <1>1 DEF InitMutex
<1>3. owner'[Gcs] = t /\ \A u \in Threads : u # t => pc[u] \notin Busy
  BY <1>1, <1>2 DEF TypeOK, GcsMutex
<1> HIDE DEF c
<1>4. TypeOK' BY <1>1, <1>2 DEF TypeOK, Busy
<1>5. GcsMutex' BY <1>2, <1>3 DEF TypeOK, GcsMutex, Busy
<1>6. Flags'
  <2> SUFFICES ASSUME NEW s \in Sections
               PROVE  /\ inits'[s] \in {0, 1}
                      /\ next[s] # Null => inits'[s] = 1
                      /\ next[s] = Null /\ inits'[s] = 1 => s = c
    BY <1>2, <1>3 DEF Flags, TypeOK, Linking, c
  <2>1. CASE s = c BY <2>1, <1>1, <1>2 DEF TypeOK
  <2>2. CASE s # c BY <2>2, <1>1, <1>2 DEF TypeOK, Flags, Linking
  <2> QED BY <2>1, <2>2
<1>7. Progress'
  <2> SUFFICES ASSUME NEW u \in Threads
               PROVE  /\ pc'[u] = "init" => next[cs[u]] = Null
                      /\ pc'[u] \in Linking => inits'[cs[u]] = 1
                      /\ pc'[u] \in {"setHead", "publish"} => ohead[u] # Null
                      /\ pc'[u] \in {"unlockGcs", "lock"} => next[cs[u]] # Null
    BY <1>2 DEF Progress
  <2>1. CASE u = t BY <2>1, <1>1, <1>2 DEF TypeOK, Linking, c
  <2>2. CASE u # t BY <2>2, <1>2, <1>3 DEF TypeOK, Progress, Linking, Busy
  <2> QED BY <2>1, <2>2
<1>8. Holds'
  <2> SUFFICES ASSUME NEW u \in Threads, NEW s \in Range(held[u])
               PROVE  owner'[s] = u /\ inits'[s] = 1
    BY <1>2 DEF Holds
  <2>1. s \in Sections /\ owner[s] = u /\ inits[s] = 1
    BY RangeOfSections DEF Holds
  <2>2. s # c BY <2>1, <1>1
  <2> QED BY <2>1, <2>2, <1>2 DEF TypeOK
<1> QED BY <1>4, <1>5, <1>6, <1>7, <1>8

LEMMA LockInvariant ==
  ASSUME IInv, NEW t \in Threads, Lock(t)
  PROVE  IInv'
<1> USE SectionsAssumption, GcsAssumption, ThreadsAssumption DEF Goto, list, IInv
<1> DEFINE c == cs[t]
<1>1. c \in Sections /\ next[c] # Null /\ inits[c] = 1
  BY DEF TypeOK, Flags, Progress, Lock
<1>2. /\ owner' = [owner EXCEPT ![c] = t] /\ owner[c] \in {NoThread, t}
      /\ held' = [held EXCEPT ![t] = Append(held[t], c)]
      /\ pc' = [pc EXCEPT ![t] = "outside"] /\ pc[t] = "lock"
      /\ UNCHANGED <<next, head, inits, cs, ohead, destroyed>>
  BY DEF Lock
<1> HIDE DEF c
<1>3. TypeOK'
  <2>1. Append(held[t], c) \in Seq(Sections) BY <1>1 DEF TypeOK
  <2> QED BY <1>1, <1>2, <2>1 DEF TypeOK, Busy
<1>4. GcsMutex' BY <1>1, <1>2 DEF TypeOK, GcsMutex, Busy
<1>5. Flags' BY <1>1, <1>2 DEF TypeOK, Flags, Linking
<1>6. Progress' BY <1>2 DEF TypeOK, Progress, Linking
<1>7. Holds'
  <2> SUFFICES ASSUME NEW u \in Threads, NEW s \in Range(held'[u])
               PROVE  owner'[s] = u /\ inits[s] = 1
    BY <1>2 DEF Holds
  <2>1. CASE u = t
    <3>1. held'[u] = Append(held[t], c) /\ held[t] \in Seq(Sections)
      BY <2>1, <1>2 DEF TypeOK
    <3>2. s \in Range(held[t]) \cup {c} BY <3>1, <1>1, RangeAppend
    <3>3. s \in Sections BY <3>2, <1>1, RangeOfSections
    <3> QED BY <3>2, <3>3, <2>1, <1>1, <1>2 DEF TypeOK, Holds
  <2>2. CASE u # t
    <3>1. s \in Range(held[u]) BY <2>2, <1>2 DEF TypeOK
    <3>2. s \in Sections /\ owner[s] = u /\ inits[s] = 1
      BY <3>1, RangeOfSections DEF Holds
    <3>3. s # c BY <3>2, <2>2, <1>2, ThreadsAssumption
    <3> QED BY <3>2, <3>3, <1>2 DEF TypeOK
  <2> QED BY <2>1, <2>2
<1> QED BY <1>3, <1>4, <1>5, <1>6, <1>7

LEMMA ExitInvariant ==
  ASSUME IInv, NEW t \in Threads, Exit(t)
  PROVE  IInv'
<1> USE SectionsAssumption, GcsAssumption, ThreadsAssumption DEF list, IInv
<1> DEFINE c == Last(held[t])
           o == IF c \in Range(Front(held[t])) THEN t ELSE NoThread
<1>1. held[t] \in Seq(Sections) /\ held[t] # <<>> BY DEF TypeOK, Exit
<1>2. /\ Front(held[t]) \in Seq(Sections) /\ c \in Range(held[t])
      /\ Range(held[t]) = Range(Front(held[t])) \cup {c}
  BY <1>1, RangeFront
<1>3. c \in Sections /\ owner[c] = t BY <1>2, RangeOfSections DEF Holds
<1>4. /\ held' = [held EXCEPT ![t] = Front(held[t])]
      /\ owner' = [owner EXCEPT ![c] = o]
      /\ pc[t] = "outside"
      /\ UNCHANGED <<next, head, inits, pc, cs, ohead, destroyed>>
  BY DEF Exit
<1>5. o \in Threads \cup {NoThread} /\ (c \in Range(Front(held[t])) => o = t)
  OBVIOUS
<1> HIDE DEF c, o
<1>6. TypeOK' BY <1>2, <1>3, <1>4, <1>5 DEF TypeOK
<1>7. GcsMutex' BY <1>3, <1>4 DEF TypeOK, GcsMutex
<1>8. Flags' BY <1>3, <1>4 DEF TypeOK, Flags
<1>9. Progress' BY <1>4 DEF Progress
<1>10. Holds'
  <2> SUFFICES ASSUME NEW u \in Threads, NEW s \in Range(held'[u])
               PROVE  owner'[s] = u /\ inits[s] = 1
    BY <1>4 DEF Holds
  <2>1. CASE u = t
    <3>1. s \in Range(Front(held[t])) BY <2>1, <1>4 DEF TypeOK
    <3>2. s \in Sections /\ owner[s] = t /\ inits[s] = 1
      BY <3>1, <1>2, RangeOfSections DEF Holds
    <3> QED BY <3>1, <3>2, <2>1, <1>4, <1>5 DEF TypeOK
  <2>2. CASE u # t
    <3>1. s \in Range(held[u]) BY <2>2, <1>4 DEF TypeOK
    <3>2. s \in Sections /\ owner[s] = u /\ inits[s] = 1
      BY <3>1, RangeOfSections DEF Holds
    <3>3. s # c BY <3>2, <2>2, <1>3
    <3> QED BY <3>2, <3>3, <1>4 DEF TypeOK
  <2> QED BY <2>1, <2>2
<1> QED BY <1>6, <1>7, <1>8, <1>9, <1>10

LEMMA StepInvariant == IInv /\ [Next]_vars => IInv'
<1> SUFFICES ASSUME IInv, [Next]_vars PROVE IInv' OBVIOUS
<1>1. ASSUME NEW t \in Threads,
             (\E s \in Sections : Enter(t, s)) \/ Proceed(t) \/ Exit(t)
      PROVE  IInv'
  BY <1>1, EnteringInvariant, InitMutexInvariant, LockInvariant, ExitInvariant
     DEF Proceed
<1>2. CASE Term
  <2> USE DEF Term, list, IInv
  <2>1. \A t \in Threads : owner[Gcs] # t
    BY <1>2 DEF GcsMutex, Busy
  <2>2. TypeOK'
    <3>1. Linked \subseteq Sections BY DEF Linked
    <3> QED BY <1>2, <3>1 DEF TypeOK
  <2>3. GcsMutex' BY <1>2, <2>1 DEF TypeOK, GcsMutex, Busy
  <2>4. Flags' BY <1>2, <2>1 DEF TypeOK, Flags
  <2>5. Progress' BY <1>2 DEF TypeOK, Progress, Linking
  <2>6. Holds' BY <1>2 DEF Holds
  <2> QED BY <2>2, <2>3, <2>4, <2>5, <2>6
<1>3. CASE UNCHANGED vars
  BY <1>3 DEF vars, list, IInv, TypeOK, GcsMutex, Flags, Progress, Holds
<1>4. CASE Ended BY <1>3, <1>4 DEF Ended
<1> QED BY <1>1, <1>2, <1>3, <1>4 DEF Next

LEMMA Invariant == Spec => []IInv
BY InitInvariant, StepInvariant, PTL DEF Spec

(* TypeOK: the type of every reachable state. *)
THEOREM TypeCorrect == Spec => []TypeOK
<1>1. IInv => TypeOK BY DEF IInv
<1> QED BY <1>1, Invariant, PTL

(* CreatedOnce: the double check of ensureMutex creates a mutex once, and  *)
(* before it is locked.                                                    *)
THEOREM CreatedOnceAlways == Spec => []CreatedOnce
<1>1. ASSUME IInv PROVE CreatedOnce
  <2>1. \A s \in Sections : inits[s] <= 1 BY <1>1 DEF IInv, Flags
  <2>2. ASSUME NEW t \in Threads, pc[t] = "lock" PROVE inits[cs[t]] = 1
    <3>1. cs[t] \in Sections BY <1>1, <2>2 DEF IInv, TypeOK
    <3> QED BY <1>1, <2>2, <3>1 DEF IInv, Flags, Progress
  <2> QED BY <2>1, <2>2 DEF CreatedOnce
<1> QED BY <1>1, Invariant, PTL

(* Exclusion: no two threads are inside the same synchronized statement.   *)
THEOREM MutualExclusion == Spec => []Exclusion
<1>1. IInv => Exclusion BY DEF IInv, Holds, Exclusion
<1> QED BY <1>1, Invariant, PTL
-------------------------------------------------------------------------------
(* The list of the sections whose mutex is to be destroyed.                *)

(* Every nonempty set of numbers has a least element: the library states   *)
(* that < is well founded as a fact about a set of pairs.                  *)
LEMMA LeastElement ==
  ASSUME NEW T \in SUBSET Nat, T # {}
  PROVE  \E n \in T : \A m \in T : n <= m
<1> DEFINE R == OpToRel(<, Nat)
<1>1. \A x, y \in Nat : x < y => <<x, y>> \in R BY DEF OpToRel
<1>2. IsWellFoundedOn(R, Nat) BY NatLessThanWellFounded
<1> HIDE DEF R
<1>3. PICK x \in T : \A y \in T : <<y, x>> \notin R BY <1>2, WFMin
<1>4. \A y \in T : ~(y < x) BY <1>1, <1>3
<1> QED BY <1>4

(* The sections that have a next, and where the list of them starts: while *)
(* a thread has set head and not yet next, at what head was before.        *)
WithNext == {s \in Sections : next[s] # Null}
Publishing == owner[Gcs] \in Threads /\ pc[owner[Gcs]] = "publish"
Start == IF Publishing THEN ohead[owner[Gcs]] ELSE head

(* The list counted from its end, which is gcs. *)
IsList(at) ==
  LET n == Cardinality(WithNext)
  IN  /\ at \in [0..n -> Sections \cup {Gcs}]
      /\ at[0] = Gcs /\ at[n] = Start
      /\ \A i \in 1..n : at[i] \in WithNext /\ next[at[i]] = at[i - 1]
      /\ \A s \in WithNext : \E i \in 1..n : s = at[i]

(* What the thread that holds the mutex of gcs has done to the list. *)
Links ==
  \A t \in Threads :
    /\ pc[t] \in Linking => next[cs[t]] = Null
    /\ pc[t] = "setHead" => ohead[t] = head
    /\ pc[t] = "publish" => head = cs[t]

(* Nothing happens after _d_critical_term. *)
AtEnd == destroyed # {} => \A t \in Threads : pc[t] = "ended"

Listed == Links /\ AtEnd /\ \E at : IsList(at)

LEMMA InitListed == Init => Listed
<1> SUFFICES ASSUME Init PROVE Listed OBVIOUS
<1>1. /\ next = [s \in Sections |-> Null] /\ head = Gcs /\ destroyed = {}
      /\ pc = [t \in Threads |-> "outside"]
  BY DEF Init, InitialHead
<1>2. WithNext = {} BY <1>1 DEF WithNext
<1>3. Cardinality(WithNext) = 0 BY <1>2, FS_EmptySet
<1>4. Start = Gcs BY <1>1 DEF Start, Publishing
<1>5. IsList([i \in 0..0 |-> Gcs]) BY <1>2, <1>3, <1>4 DEF IsList
<1> QED BY <1>1, <1>5 DEF Listed, Links, Linking, AtEnd

(* A step that leaves next as it is, and the start of the list. *)
LEMMA ListStays ==
  ASSUME UNCHANGED next, Start' = Start, \E at : IsList(at)
  PROVE  (\E at : IsList(at))'
<1>1. PICK at : IsList(at) OBVIOUS
<1>2. WithNext' = WithNext BY DEF WithNext
<1>3. IsList(at)' BY <1>1, <1>2 DEF IsList
<1> QED BY <1>3
(* The steps of the thread that links a section. *)
LEMMA PublishLists ==
  ASSUME IInv, Listed, NEW t \in Threads, Publish(t)
  PROVE  (\E at : IsList(at))'
<1> DEFINE c == cs[t]
           n == Cardinality(WithNext)
<1>1. /\ pc[t] = "publish" /\ pc' = [pc EXCEPT ![t] = "unlockGcs"]
      /\ next' = [next EXCEPT ![c] = ohead[t]] /\ UNCHANGED <<head, owner>>
  BY DEF Publish, Goto
<1>2. /\ TypeOK /\ owner[Gcs] = t /\ c \in Sections /\ next[c] = Null /\ head = c
      /\ ohead[t] # Null
  <2>1. TypeOK /\ GcsMutex /\ Progress /\ Links BY DEF IInv, Listed
  <2>2. owner[Gcs] = t /\ ohead[t] # Null BY <1>1, <2>1 DEF GcsMutex, Progress, Busy
  <2>3. c \in Sections BY <1>1, <2>1 DEF TypeOK
  <2>4. next[c] = Null /\ head = c BY <1>1, <2>1 DEF Links, Linking
  <2> QED BY <2>1, <2>2, <2>3, <2>4
<1>3. Start = ohead[t] /\ Start' = c
  BY <1>1, <1>2 DEF Start, Publishing, TypeOK
<1> HIDE DEF c
<1>4. next'[c] = ohead[t] /\ \A s \in Sections : s # c => next'[s] = next[s]
  BY <1>1, <1>2 DEF TypeOK
<1>5. WithNext' = WithNext \cup {c} /\ c \notin WithNext
  BY <1>2, <1>4 DEF WithNext
<1>6. IsFiniteSet(WithNext) BY SectionsAssumption, FS_Subset DEF WithNext
<1>7. n \in Nat /\ Cardinality(WithNext') = n + 1
  BY <1>5, <1>6, FS_AddElement, FS_CardinalityType
<1>8. PICK at : IsList(at) BY DEF Listed
<1> HIDE DEF n
<1>9. /\ at \in [0..n -> Sections \cup {Gcs}]
      /\ at[0] = Gcs /\ at[n] = Start
      /\ \A i \in 1..n : at[i] \in WithNext /\ next[at[i]] = at[i - 1]
      /\ \A s \in WithNext : \E i \in 1..n : s = at[i]
  BY <1>8 DEF IsList, n
<1>10. PICK new \in [0..(n + 1) -> Sections \cup {Gcs}] :
         new[0] = Gcs /\ new[n + 1] = c /\ \A i \in 0..n : new[i] = at[i]
  <2> DEFINE f == [i \in 0..(n + 1) |-> IF i = n + 1 THEN c ELSE at[i]]
  <2>1. /\ f \in [0..(n + 1) -> Sections \cup {Gcs}]
        /\ f[0] = Gcs /\ f[n + 1] = c /\ \A i \in 0..n : f[i] = at[i]
    BY <1>2, <1>7, <1>9
  <2> HIDE DEF f
  <2> QED BY <2>1
<1>11. ASSUME NEW i \in 1..(n + 1)
       PROVE  new[i] \in WithNext' /\ next'[new[i]] = new[i - 1]
  <2>1. CASE i = n + 1
    <3>1. new[i - 1] = Start BY <1>7, <1>9, <1>10, <2>1
    <3> QED BY <1>3, <1>4, <1>5, <1>10, <2>1, <3>1
  <2>2. CASE i # n + 1
    <3>1. i \in 1..n /\ i \in 0..n /\ i - 1 \in 0..n BY <1>7, <2>2
    <3>2. new[i] = at[i] /\ new[i - 1] = at[i - 1] BY <1>10, <3>1
    <3>3. at[i] \in WithNext /\ at[i] \in Sections /\ next[at[i]] = at[i - 1]
      BY <1>9, <3>1 DEF WithNext
    <3> QED BY <1>4, <1>5, <3>2, <3>3
  <2> QED BY <2>1, <2>2
<1>12. ASSUME NEW s \in WithNext'
       PROVE  \E i \in 1..(n + 1) : s = new[i]
  <2>1. CASE s = c BY <1>7, <1>10, <2>1
  <2>2. CASE s \in WithNext
    <3>1. PICK i \in 1..n : s = at[i] BY <1>9, <2>2
    <3>2. i \in 1..(n + 1) /\ new[i] = at[i] BY <1>7, <1>10
    <3> QED BY <3>1, <3>2
  <2> QED BY <1>5, <2>1, <2>2
<1>13. IsList(new)'
  <2>1. Cardinality(WithNext)' = n + 1 BY <1>7
  <2> QED BY <1>3, <1>10, <1>11, <1>12, <2>1 DEF IsList
<1> QED BY <1>13

LEMMA StepListed == IInv /\ Listed /\ [Next]_vars => Listed'
<1> SUFFICES ASSUME IInv, Listed, [Next]_vars PROVE Listed' OBVIOUS
<1> USE DEF Goto, list
<1>1. TypeOK /\ GcsMutex /\ Progress /\ Links /\ AtEnd /\ \E at : IsList(at)
  BY DEF IInv, Listed
<1>2. ASSUME NEW t \in Threads, pc[t] # "ended",
             \/ (\E s \in Sections : Enter(t, s)) \/ Proceed(t) \/ Exit(t)
      PROVE  Listed'
  <2>1. destroyed = {} /\ UNCHANGED destroyed
    BY <1>1, <1>2 DEF AtEnd, Enter, Proceed, LockGcs, Check, InitMutex, ReadHead, SetHead,
       Publish, UnlockGcs, Lock, Exit
  <2>2. AtEnd' BY <2>1 DEF AtEnd
  <2>3. ASSUME Links', UNCHANGED next, Start' = Start
        PROVE  Listed'
    BY <1>1, <2>2, <2>3, ListStays DEF Listed
  <2>4. CASE \E s \in Sections : Enter(t, s)
    <3>1. PICK s \in Sections : Enter(t, s) BY <2>4
    <3>2. /\ pc[t] = "outside" /\ pc' = [pc EXCEPT ![t] = pc'[t]]
          /\ pc'[t] \in {"lockGcs", "lock"} /\ cs' = [cs EXCEPT ![t] = s]
          /\ UNCHANGED <<next, head, inits, owner, ohead, held>>
      BY <1>1, <3>1 DEF Enter, TypeOK
    <3>3. Links' BY <1>1, <3>2 DEF Links, Linking, TypeOK
    <3>4. Start' = Start BY <1>1, <3>2, GcsAssumption DEF Start, Publishing, TypeOK
    <3> QED BY <2>3, <3>2, <3>3, <3>4
  <2>5. CASE LockGcs(t)
    <3>1. Links' BY <1>1, <2>5 DEF Links, Linking, TypeOK, LockGcs
    <3>2. Start' = Start
      BY <1>1, <2>5, ThreadsAssumption DEF Start, Publishing, TypeOK, LockGcs
    <3> QED BY <2>3, <2>5, <3>1, <3>2 DEF LockGcs
  <2>6. CASE Check(t)
    <3>1. Links' BY <1>1, <2>6 DEF Links, Linking, TypeOK, Check
    <3>2. Start' = Start BY <1>1, <2>6 DEF Start, Publishing, TypeOK, Check
    <3> QED BY <2>3, <2>6, <3>1, <3>2 DEF Check
  <2>7. CASE InitMutex(t)
    <3>1. Links' BY <1>1, <2>7 DEF Links, Linking, TypeOK, InitMutex, Progress
    <3>2. cs[t] \in Sections /\ owner'[Gcs] = owner[Gcs]
      BY <1>1, <2>7, GcsAssumption DEF TypeOK, InitMutex
    <3>3. Start' = Start
      BY <1>1, <2>7, <3>2 DEF Start, Publishing, TypeOK, InitMutex
    <3> QED BY <2>3, <2>7, <3>1, <3>3 DEF InitMutex
  <2>8. CASE ReadHead(t)
    <3>1. Links' BY <1>1, <2>8 DEF Links, Linking, TypeOK, ReadHead
    <3>2. owner[Gcs] = t BY <1>1, <2>8 DEF GcsMutex, ReadHead, Busy
    <3>3. Start' = Start
      BY <1>1, <2>8, <3>2 DEF Start, Publishing, TypeOK, ReadHead
    <3> QED BY <2>3, <2>8, <3>1, <3>3 DEF ReadHead
  <2>9. CASE SetHead(t)
    <3>1. owner[Gcs] = t BY <1>1, <2>9 DEF GcsMutex, SetHead, Busy
    <3>2. \A u \in Threads : u # t => pc[u] \notin Busy BY <1>1, <3>1 DEF GcsMutex
    <3>3. Links' BY <1>1, <2>9, <3>2 DEF Links, Linking, TypeOK, SetHead, Busy
    <3>4. Start' = Start
      BY <1>1, <2>9, <3>1 DEF Start, Publishing, TypeOK, SetHead, Links
    <3> QED BY <2>3, <2>9, <3>3, <3>4 DEF SetHead
  <2>10. CASE Publish(t)
    <3>1. owner[Gcs] = t BY <1>1, <2>10 DEF GcsMutex, Publish, Busy
    <3>2. \A u \in Threads : u # t => pc[u] \notin Busy BY <1>1, <3>1 DEF GcsMutex
    <3>3. Links' BY <1>1, <2>10, <3>2 DEF Links, Linking, TypeOK, Publish, Busy
    <3>4. (\E at : IsList(at))' BY <2>10, PublishLists
    <3> QED BY <2>2, <3>3, <3>4 DEF Listed
  <2>11. CASE UnlockGcs(t)
    <3>1. Links' BY <1>1, <2>11 DEF Links, Linking, TypeOK, UnlockGcs
    <3>2. owner[Gcs] = t BY <1>1, <2>11 DEF GcsMutex, UnlockGcs, Busy
    <3>3. Start' = Start
      BY <1>1, <2>11, <3>2, ThreadsAssumption DEF Start, Publishing, TypeOK, UnlockGcs
    <3> QED BY <2>3, <2>11, <3>1, <3>3 DEF UnlockGcs
  <2>12. CASE Lock(t)
    <3>1. Links' BY <1>1, <2>12 DEF Links, Linking, TypeOK, Lock
    <3>2. cs[t] \in Sections /\ owner'[Gcs] = owner[Gcs]
      BY <1>1, <2>12, GcsAssumption DEF TypeOK, Lock
    <3>3. Start' = Start BY <1>1, <2>12, <3>2 DEF Start, Publishing, TypeOK, Lock
    <3> QED BY <2>3, <2>12, <3>1, <3>3 DEF Lock
  <2>13. CASE Exit(t)
    <3>1. Links' BY <1>1, <2>13 DEF Links, Linking, TypeOK, Exit
    <3>2. held[t] \in Seq(Sections) /\ held[t] # <<>> BY <1>1, <2>13 DEF TypeOK, Exit
    <3>3. Last(held[t]) \in Sections BY <1>1, <3>2, RangeFront, RangeOfSections
    <3>4. owner'[Gcs] = owner[Gcs]
      BY <1>1, <2>13, <3>3, GcsAssumption DEF TypeOK, Exit
    <3>5. Start' = Start BY <1>1, <2>13, <3>4 DEF Start, Publishing, TypeOK, Exit
    <3> QED BY <2>3, <2>13, <3>1, <3>5 DEF Exit
  <2> QED BY <1>2, <2>4, <2>5, <2>6, <2>7, <2>8, <2>9, <2>10, <2>11, <2>12, <2>13
       DEF Proceed
<1>3. ASSUME NEW t \in Threads,
             \/ (\E s \in Sections : Enter(t, s)) \/ Proceed(t) \/ Exit(t)
      PROVE  pc[t] # "ended"
  BY <1>3 DEF Enter, Proceed, LockGcs, Check, InitMutex, ReadHead, SetHead, Publish,
     UnlockGcs, Lock, Exit
<1>4. CASE Term
  <2>1. /\ pc' = [t \in Threads |-> "ended"] /\ UNCHANGED <<next, head, owner, cs, ohead>>
        /\ \A t \in Threads : pc[t] = "outside"
    BY <1>4 DEF Term
  <2>2. Links' /\ AtEnd' BY <2>1 DEF Links, Linking, AtEnd
  <2>3. Start' = Start BY <2>1 DEF Start, Publishing
  <2> QED BY <1>1, <2>1, <2>2, <2>3, ListStays DEF Listed
<1>5. CASE UNCHANGED vars
  <2>1. Links' /\ AtEnd' BY <1>1, <1>5 DEF Links, AtEnd, vars
  <2>2. Start' = Start BY <1>5 DEF Start, Publishing, vars
  <2> QED BY <1>1, <1>5, <2>1, <2>2, ListStays DEF Listed, vars
<1>6. CASE Ended BY <1>5, <1>6 DEF Ended
<1> QED BY <1>2, <1>3, <1>4, <1>5, <1>6 DEF Next
(* What _d_critical_term finds when it follows the list from its head. *)
LEMMA LinkedIsList ==
  ASSUME TypeOK, ~Publishing, \E at : IsList(at)
  PROVE  Linked = WithNext
<1> DEFINE N == Cardinality(Sections)
           n == Cardinality(WithNext)
           Walk(f) == [i \in 0..N |->
                         IF i = 0 THEN head
                         ELSE IF f[i - 1] \in Sections THEN next[f[i - 1]] ELSE Gcs]
           ith == CHOOSE f : f = Walk(f)
<1>1. Linked = {s \in Sections : \E i \in DOMAIN ith : ith[i] = s} BY DEF Linked
<1>2. /\ IsFiniteSet(WithNext) /\ WithNext \subseteq Sections
      /\ n \in Nat /\ N \in Nat /\ n <= N
  BY SectionsAssumption, FS_Subset, FS_CardinalityType DEF WithNext
<1>3. PICK at : IsList(at) OBVIOUS
<1>4. /\ at \in [0..n -> Sections \cup {Gcs}]
      /\ at[0] = Gcs /\ at[n] = head
      /\ \A i \in 1..n : at[i] \in WithNext /\ next[at[i]] = at[i - 1]
      /\ \A s \in WithNext : \E i \in 1..n : s = at[i]
  BY <1>3 DEF IsList, Start
<1> HIDE DEF n, N
<1>5. PICK f : /\ f = Walk(f) /\ DOMAIN f = 0..N
               /\ \A i \in 0..N : f[i] = IF i <= n THEN at[n - i] ELSE Gcs
  <2> DEFINE g == [i \in 0..N |-> IF i <= n THEN at[n - i] ELSE Gcs]
             Walked(i) == IF i = 0 THEN head
                          ELSE IF g[i - 1] \in Sections THEN next[g[i - 1]] ELSE Gcs
  <2>1. DOMAIN g = 0..N /\ \A i \in 0..N : g[i] = IF i <= n THEN at[n - i] ELSE Gcs
    OBVIOUS
  <2>2. \A i \in 0..N : g[i] = Walked(i)
    <3> SUFFICES ASSUME NEW i \in 0..N PROVE g[i] = Walked(i) OBVIOUS
    <3> HIDE DEF g
    <3>1. CASE i = 0
      <4>1. i <= n /\ n - i = n BY <1>2, <3>1
      <4> QED BY <1>4, <2>1, <3>1, <4>1
    <3>2. CASE i # 0 /\ i <= n
      <4>1. i - 1 \in 0..N /\ i - 1 <= n /\ n - (i - 1) \in 1..n
            /\ n - (i - 1) - 1 = n - i
        BY <1>2, <3>2
      <4>2. g[i - 1] = at[n - (i - 1)] /\ g[i] = at[n - i] BY <2>1, <3>2, <4>1
      <4>3. g[i - 1] \in Sections /\ next[g[i - 1]] = at[n - i]
        BY <1>2, <1>4, <4>1, <4>2
      <4> QED BY <3>2, <4>2, <4>3
    <3>3. CASE i = n + 1
      <4>1. i - 1 \in 0..N /\ i - 1 <= n /\ n - (i - 1) = 0 /\ ~(i <= n) /\ i # 0
        BY <1>2, <3>3
      <4>2. g[i - 1] = Gcs /\ g[i] = Gcs BY <1>4, <2>1, <4>1
      <4> QED BY <4>1, <4>2, GcsAssumption
    <3>4. CASE i > n + 1
      <4>1. i - 1 \in 0..N /\ ~(i - 1 <= n) /\ ~(i <= n) /\ i # 0 BY <1>2, <3>4
      <4>2. g[i - 1] = Gcs /\ g[i] = Gcs BY <2>1, <4>1
      <4> QED BY <4>1, <4>2, GcsAssumption
    <3> QED BY <1>2, <3>1, <3>2, <3>3, <3>4
  <2>3. g = Walk(g) BY <2>2
  <2> HIDE DEF g
  <2> QED BY <2>1, <2>3
<1>6. ith = Walk(ith) BY <1>5
<1> HIDE DEF ith
<1>7. DOMAIN ith = 0..N BY <1>6
<1>8. \A i \in 0..N : ith[i] = f[i]
  <2> SUFFICES ASSUME \E i \in 0..N : ith[i] # f[i] PROVE FALSE OBVIOUS
  <2> DEFINE T == {i \in 0..N : ith[i] # f[i]}
  <2>1. T \in SUBSET Nat /\ T # {} BY <1>2
  <2>2. PICK i \in T : \A j \in T : i <= j BY <2>1, LeastElement
  <2>3. i \in 0..N /\ ith[i] # f[i] BY <2>2
  <2>4. /\ ith[i] = IF i = 0 THEN head
                    ELSE IF ith[i - 1] \in Sections THEN next[ith[i - 1]] ELSE Gcs
        /\ f[i] = IF i = 0 THEN head
                  ELSE IF f[i - 1] \in Sections THEN next[f[i - 1]] ELSE Gcs
    BY <1>5, <1>6, <2>3
  <2>5. i # 0 BY <2>3, <2>4
  <2>6. i - 1 \in 0..N /\ ~(i <= i - 1) BY <1>2, <2>3, <2>5
  <2>7. ith[i - 1] = f[i - 1] BY <2>2, <2>6
  <2> QED BY <2>3, <2>4, <2>7
<1>9. ASSUME NEW s \in WithNext PROVE s \in Linked
  <2>1. PICK i \in 1..n : s = at[i] BY <1>4
  <2>2. n - i \in 0..N /\ n - i <= n /\ n - (n - i) = i BY <1>2
  <2>3. ith[n - i] = s BY <1>5, <1>8, <2>1, <2>2
  <2> QED BY <1>1, <1>2, <1>7, <2>2, <2>3
<1>10. ASSUME NEW s \in Linked PROVE s \in WithNext
  <2>1. PICK i \in 0..N : ith[i] = s BY <1>1, <1>7
  <2>2. s \in Sections /\ s # Gcs BY <1>1, GcsAssumption
  <2>3. i <= n /\ s = at[n - i] BY <1>5, <1>8, <2>1, <2>2
  <2>4. n - i \in 1..n BY <1>2, <1>4, <2>1, <2>2, <2>3
  <2> QED BY <1>4, <2>3, <2>4
<1> QED BY <1>9, <1>10

(* The list that _d_critical_term follows from head holds every section    *)
(* whose mutex was created and no other, whichever threads linked them and *)
(* in whatever order: it destroys all of them, and nothing else.          *)
THEOREM AllDestroyedAlways == Spec => []AllDestroyed
<1>1. Init => AllDestroyed BY DEF Init, AllDestroyed
<1>2. IInv /\ Listed /\ AllDestroyed /\ [Next]_vars => AllDestroyed'
  <2> SUFFICES ASSUME IInv, Listed, AllDestroyed, [Next]_vars PROVE AllDestroyed' OBVIOUS
  <2>1. TypeOK /\ GcsMutex /\ Flags BY DEF IInv
  <2>2. CASE Term
    <3>1. /\ \A t \in Threads : pc[t] = "outside"
          /\ destroyed' = Linked \cup {Gcs} /\ UNCHANGED <<next, inits>>
      BY <2>2 DEF Term, list
    <3>2. ~Publishing BY <3>1 DEF Publishing
    <3>3. Linked = WithNext BY <2>1, <3>2, LinkedIsList DEF Listed
    <3>4. WithNext = {s \in Sections : inits[s] > 0}
      BY <2>1, <3>1 DEF WithNext, Flags, Linking
    <3> QED BY <3>1, <3>3, <3>4 DEF AllDestroyed
  <2>3. CASE UNCHANGED <<destroyed, inits>> BY <2>3 DEF AllDestroyed
  <2>4. ASSUME NEW t \in Threads,
               \/ (\E s \in Sections : Enter(t, s)) \/ Proceed(t) \/ Exit(t)
        PROVE  AllDestroyed'
    <3>1. pc[t] # "ended" /\ UNCHANGED destroyed
      BY <2>4 DEF Enter, Proceed, LockGcs, Check, InitMutex, ReadHead, SetHead, Publish,
         UnlockGcs, Lock, Exit, Goto
    <3>2. destroyed = {} BY <3>1 DEF Listed, AtEnd
    <3> QED BY <3>1, <3>2 DEF AllDestroyed
  <2> QED BY <2>2, <2>3, <2>4 DEF Next, Ended, vars
<1> QED BY <1>1, <1>2, InitListed, StepListed, InitInvariant, StepInvariant, PTL DEF Spec
===============================================================================
