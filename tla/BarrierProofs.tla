---------------------------- MODULE BarrierProofs -----------------------------
(***************************************************************************)
(* Barrier for every finite set of threads, every limit and every modulus  *)
(* from two on: the count is right, no wakeup is lost, and threads pass in *)
(* groups.  What a thread that sleeps through a whole cycle of m_group     *)
(* would do is outside the model, and so outside these theorems.           *)
(***************************************************************************)
EXTENDS Barrier, FiniteSetTheorems, TLAPS

IInv == TypeOK /\ CountAgrees /\ ReleasedAreAwake

-------------------------------------------------------------------------------
(* The gathering threads are finitely many. *)
LEMMA GatheringFinite ==
  IsFiniteSet(Gathering) /\ Cardinality(Gathering) \in Nat
<1>1. Gathering \in SUBSET Threads BY DEF Gathering, Waiting
<1> QED BY <1>1, ThreadsAssumption, FS_Subset, FS_CardinalityType

(* The number of the next group differs from that of this one. *)
LEMMA NextGroupDiffers ==
  ASSUME group \in 0..(Modulus - 1)
  PROVE  NextGroup \in 0..(Modulus - 1) /\ NextGroup # group
<1>1. CASE group + 1 = Modulus
  <2>1. NextGroup = 0 BY <1>1, ModulusAssumption DEF NextGroup
  <2> QED BY <1>1, <2>1, ModulusAssumption
<1>2. CASE group + 1 < Modulus
  <2>1. NextGroup = group + 1 BY <1>2, ModulusAssumption DEF NextGroup
  <2> QED BY <1>2, <2>1, ModulusAssumption
<1> QED BY <1>1, <1>2, ModulusAssumption

(* What each step does to the two sets of waiting threads. *)
LEMMA ArriveSets ==
  ASSUME TypeOK, NEW t \in Threads, Arrive(t)
  PROVE  /\ Gathering' = Gathering \cup {t} /\ Released' = Released
         /\ t \notin Waiting
BY DEF TypeOK, Arrive, Gathering, Released, Waiting

LEMMA CompleteSets ==
  ASSUME TypeOK, NEW t \in Threads, Complete(t)
  PROVE  /\ Gathering' = {} /\ Released' = Released \cup Gathering
         /\ t \notin Waiting
<1>1. \A u \in Waiting : ticket[u] # NextGroup BY DEF Complete, Laps
<1>2. Waiting' = Waiting /\ ticket' = ticket /\ group' = NextGroup
  BY DEF Complete, Waiting
<1>3. \A u \in Waiting : ticket[u] = group => ticket[u] # NextGroup
  BY <1>1
<1>4. Gathering' = {} BY <1>1, <1>2 DEF Gathering
<1>5. Released' = Waiting BY <1>1, <1>2 DEF Released
<1>6. Released \cup Gathering = Waiting BY DEF Released, Gathering
<1>7. t \notin Waiting BY DEF Complete, Waiting
<1> QED BY <1>4, <1>5, <1>6, <1>7

LEMMA ResumeSets ==
  ASSUME TypeOK, NEW t \in Threads, Resume(t)
  PROVE  /\ Gathering' = Gathering
         /\ \/ Released' = Released /\ ticket[t] = group
            \/ Released' = Released \ {t} /\ t \in Released /\ blocked' = blocked
<1>1. CASE ticket[t] = group
  BY <1>1 DEF TypeOK, Resume, Gathering, Released, Waiting
<1>2. CASE ticket[t] # group
  BY <1>2 DEF TypeOK, Resume, Gathering, Released, Waiting
<1> QED BY <1>1, <1>2

LEMMA OtherSets ==
  ASSUME UNCHANGED <<control, ticket, group>>
  PROVE  /\ Gathering' = Gathering /\ Released' = Released
         /\ Waiting' = Waiting
BY DEF Gathering, Released, Waiting

-------------------------------------------------------------------------------
LEMMA InitInvariant == Init => IInv
<1> SUFFICES ASSUME Init PROVE IInv OBVIOUS
<1>1. Waiting = {} BY DEF Init, Waiting
<1>2. Gathering = {} /\ Released = {} BY <1>1 DEF Gathering, Released
<1>3. TypeOK BY <1>1, LimitAssumption, ModulusAssumption DEF Init, TypeOK
<1>4. CountAgrees
  BY <1>2, FS_EmptySet, LimitAssumption DEF Init, CountAgrees
<1>5. ReleasedAreAwake BY <1>2 DEF ReleasedAreAwake
<1> QED BY <1>3, <1>4, <1>5 DEF IInv

LEMMA StepInvariant == IInv /\ [Next]_vars => IInv'
<1> SUFFICES ASSUME IInv, [Next]_vars PROVE IInv' OBVIOUS
<1> USE LimitAssumption, ModulusAssumption DEF IInv
<1>1. ASSUME NEW t \in Threads, Arrive(t) PROVE IInv'
  <2>1. /\ Gathering' = Gathering \cup {t} /\ Released' = Released
        /\ t \notin Gathering /\ t \notin Released
    BY <1>1, ArriveSets DEF Gathering, Released
  <2>2. Cardinality(Gathering') = Cardinality(Gathering) + 1
    BY <2>1, GatheringFinite, FS_AddElement
  <2>3. TypeOK'
    BY <1>1 DEF TypeOK, Arrive, Waiting, AfterWait
  <2>4. CountAgrees'
    BY <1>1, <2>2, GatheringFinite DEF CountAgrees, Arrive, TypeOK
  <2>5. ReleasedAreAwake'
    BY <1>1, <2>1 DEF ReleasedAreAwake, Arrive, AfterWait
  <2> QED BY <2>3, <2>4, <2>5
<1>2. ASSUME NEW t \in Threads, Complete(t) PROVE IInv'
  <2>1. Gathering' = {} BY <1>2, CompleteSets
  <2>2. NextGroup \in 0..(Modulus - 1) BY NextGroupDiffers DEF TypeOK
  <2>3. TypeOK' BY <1>2, <2>2 DEF TypeOK, Complete, Waiting, AfterNotifyAll
  <2>4. CountAgrees' BY <1>2, <2>1, FS_EmptySet DEF CountAgrees, Complete
  <2>5. ReleasedAreAwake'
    BY <1>2 DEF ReleasedAreAwake, Complete, AfterNotifyAll
  <2> QED BY <2>3, <2>4, <2>5
<1>3. ASSUME NEW t \in Threads, Resume(t) PROVE IInv'
  <2>1. Gathering' = Gathering /\ count' = count
    BY <1>3, ResumeSets DEF Resume
  <2>2. TypeOK' BY <1>3 DEF TypeOK, Resume, Waiting, AfterWait
  <2>3. CountAgrees' BY <2>1 DEF CountAgrees
  <2>4. ReleasedAreAwake'
    BY <1>3, ResumeSets DEF ReleasedAreAwake, Resume, AfterWait, Released
  <2> QED BY <2>2, <2>3, <2>4
<1>4. ASSUME NEW t \in Threads, SpuriousWakeup(t) PROVE IInv'
  <2>1. /\ Gathering' = Gathering /\ Released' = Released
        /\ Waiting' = Waiting
    BY <1>4, OtherSets DEF SpuriousWakeup
  <2> QED
    BY <1>4, <2>1
       DEF SpuriousWakeup, TypeOK, CountAgrees, ReleasedAreAwake
<1>5. CASE UNCHANGED vars
  <2>1. /\ Gathering' = Gathering /\ Released' = Released
        /\ Waiting' = Waiting
    BY <1>5, OtherSets DEF vars
  <2> QED BY <1>5, <2>1 DEF vars, TypeOK, CountAgrees, ReleasedAreAwake
<1> QED BY <1>1, <1>2, <1>3, <1>4, <1>5 DEF Next

LEMMA Invariant == Spec => []IInv
BY InitInvariant, StepInvariant, PTL DEF Spec

-------------------------------------------------------------------------------
(* The state of the barrier always has its type; in particular m_count,    *)
(* which is unsigned, never goes below one.                                *)
THEOREM TypeCorrect == Spec => []TypeOK
<1>1. IInv => TypeOK BY DEF IInv
<1> QED BY <1>1, Invariant, PTL

(* m_count is always what the gathering group lacks. *)
THEOREM Counting == Spec => []CountAgrees
<1>1. IInv => CountAgrees BY DEF IInv
<1> QED BY <1>1, Invariant, PTL

(* Nobody sleeps whose group is complete. *)
THEOREM NoLostWakeups == Spec => []ReleasedAreAwake
<1>1. IInv => ReleasedAreAwake BY DEF IInv
<1> QED BY <1>1, Invariant, PTL

LEMMA ExactNotLapped == IInv => NeverLapped
<1> SUFFICES ASSUME IInv, Cardinality(Threads) = Limit, count = 1,
                    Waiting # Threads
             PROVE  ~Laps
  BY DEF NeverLapped
<1>1. PICK t \in Threads : t \notin Waiting BY DEF Waiting
<1>2. Waiting \subseteq Threads \ {t} /\ Gathering \subseteq Waiting
  BY <1>1 DEF Waiting, Gathering
<1>3. /\ IsFiniteSet(Threads \ {t})
      /\ Cardinality(Threads \ {t}) = Limit - 1
  BY ThreadsAssumption, FS_RemoveElement
<1>4. Cardinality(Gathering) = Limit - 1 BY DEF IInv, CountAgrees
<1>5. Gathering = Threads \ {t} BY <1>2, <1>3, <1>4, FS_Subset
<1>6. \A u \in Waiting : ticket[u] = group BY <1>2, <1>5 DEF Gathering
<1> QED BY <1>6, NextGroupDiffers DEF Laps, IInv, TypeOK

(* NeverLapped: with as many threads as a group has, all but the thread    *)
(* that completes it are in the same group, so the bound of the model      *)
(* leaves nothing out, and m_group could do with two values.               *)
THEOREM NotLapped == Spec => []NeverLapped
BY Invariant, ExactNotLapped, PTL

(* The instance has a Cardinality of its own, which is the same. *)
LEMMA SameCardinality == \A S : Abstract!Cardinality(S) = Cardinality(S)
BY Zenon DEF Cardinality, Abstract!Cardinality, IsFiniteSet,
             Abstract!IsFiniteSet

LEMMA InitRefines == Init => Abstract!Init
BY DEF Init, Abstract!Init, Gathering, Released, Waiting

(* Each step of wait is a step of the abstract barrier or none. *)
LEMMA StepRefines == IInv /\ [Next]_vars => [Abstract!Next]_Abstract!vars
<1> SUFFICES ASSUME IInv, [Next]_vars
             PROVE  Abstract!Next \/ UNCHANGED <<Gathering, Released>>
  BY DEF Abstract!vars
<1> USE LimitAssumption DEF IInv
<1>1. ASSUME NEW t \in Threads, Arrive(t) PROVE Abstract!Gather(t)
  <2>1. Cardinality(Gathering) + 1 < Limit
    BY <1>1, GatheringFinite DEF Arrive, CountAgrees, TypeOK
  <2>2. t \notin Gathering \cup Released
    BY <1>1, ArriveSets DEF Gathering, Released
  <2> QED
    BY <1>1, <2>1, <2>2, ArriveSets, SameCardinality DEF Abstract!Gather
<1>2. ASSUME NEW t \in Threads, Complete(t) PROVE Abstract!Complete(t)
  <2>1. Cardinality(Gathering) + 1 = Limit
    BY <1>2, GatheringFinite DEF Complete, CountAgrees, TypeOK
  <2>2. t \notin Gathering \cup Released
    BY <1>2, CompleteSets DEF Gathering, Released
  <2> QED
    BY <1>2, <2>1, <2>2, CompleteSets, SameCardinality DEF Abstract!Complete
<1>3. ASSUME NEW t \in Threads, Resume(t)
      PROVE  Abstract!Leave(t) \/ UNCHANGED <<Gathering, Released>>
  BY <1>3, ResumeSets DEF Abstract!Leave
<1>4. ASSUME NEW t \in Threads, SpuriousWakeup(t)
      PROVE  UNCHANGED <<Gathering, Released>>
  BY <1>4, OtherSets DEF SpuriousWakeup
<1>5. CASE UNCHANGED vars
  BY <1>5, OtherSets DEF vars
<1> QED BY <1>1, <1>2, <1>3, <1>4, <1>5 DEF Next, Abstract!Next

(* Threads pass in groups of Limit, whoever comes when and however late    *)
(* the threads of earlier groups leave.                                    *)
THEOREM Implements == Spec => ImplementsBarrierGroups
<1>1. Spec => Abstract!Init /\ [][Abstract!Next]_Abstract!vars
  BY Invariant, InitRefines, StepRefines, PTL DEF Spec
<1> QED BY <1>1 DEF ImplementsBarrierGroups, Abstract!Spec
===============================================================================
