------------------------------- MODULE Barrier --------------------------------
(***************************************************************************)
(* core.sync.barrier.Barrier: wait returns to Limit threads at a time.     *)
(* The method runs under m_lock and lets go of it only in m_cond.wait, so  *)
(* what it does between two waits is one step.  m_group is a uint that     *)
(* wraps; Modulus stands for 2^32.                                         *)
(***************************************************************************)
EXTENDS Integers, FiniteSets, PosixCondition

CONSTANTS
  Threads,   \* the threads that use the barrier
  Limit,     \* m_limit
  Modulus    \* how many values m_group has

ASSUME ThreadsAssumption == IsFiniteSet(Threads)
ASSUME LimitAssumption == Limit \in Nat \ {0}
ASSUME ModulusAssumption == Modulus \in Nat \ {0, 1}

VARIABLES
  control,   \* [Threads -> {"outside", "waiting"}]
  ticket,    \* the local variable group of each thread
  blocked,   \* threads asleep in m_cond
  group,     \* m_group
  count      \* m_count

vars == <<control, ticket, blocked, group, count>>

Waiting == {t \in Threads : control[t] = "waiting"}

(* The waiting threads of the group that is not complete, and the ones     *)
(* that need only notice that theirs is.                                   *)
Gathering == {t \in Waiting : ticket[t] = group}
Released == {t \in Waiting : ticket[t] # group}

Init ==
  /\ control = [t \in Threads |-> "outside"]
  /\ ticket = [t \in Threads |-> 0]
  /\ blocked = {}
  /\ group = 0
  /\ count = Limit

NextGroup == (group + 1) % Modulus

(* Bound of the model: no thread sleeps through Modulus - 1 groups.  With  *)
(* Limit threads none can, see NeverLapped.                                *)
Laps == \E t \in Waiting : ticket[t] = NextGroup

(* wait up to its first wait on m_cond. *)
Arrive(t) ==
  /\ control[t] = "outside"
  /\ count - 1 # 0
  /\ count' = count - 1
  /\ ticket' = [ticket EXCEPT ![t] = group]
  /\ control' = [control EXCEPT ![t] = "waiting"]
  /\ blocked' = AfterWait(blocked, t)
  /\ UNCHANGED group

(* Seeded fault: one thread is notified. *)
Complete_NotifyingOne(t) ==
  /\ control[t] = "outside"
  /\ count - 1 = 0 /\ ~Laps
  /\ group' = NextGroup
  /\ count' = Limit
  /\ blocked' \in AfterNotify(blocked)
  /\ UNCHANGED <<control, ticket>>

(* wait by the thread that completes the group, which does not wait. *)
Complete(t) ==
  /\ control[t] = "outside"
  /\ count - 1 = 0 /\ ~Laps
  /\ group' = NextGroup
  /\ count' = Limit
  /\ blocked' = AfterNotifyAll(blocked)
  /\ UNCHANGED <<control, ticket>>

(* Seeded fault: a thread that wakes up leaves. *)
Resume_WithoutTest(t) ==
  /\ t \in Waiting \ blocked
  /\ control' = [control EXCEPT ![t] = "outside"]
  /\ UNCHANGED <<ticket, blocked, group, count>>

(* wait from a return of m_cond.wait to the next, or to its end. *)
Resume(t) ==
  /\ t \in Waiting \ blocked
  /\ \/ /\ ticket[t] = group
        /\ blocked' = AfterWait(blocked, t)
        /\ UNCHANGED control
     \/ /\ ticket[t] # group
        /\ control' = [control EXCEPT ![t] = "outside"]
        /\ UNCHANGED blocked
  /\ UNCHANGED <<ticket, group, count>>

(* A wait that returns without a notification. *)
SpuriousWakeup(t) ==
  /\ t \in blocked
  /\ blocked' = blocked \ {t}
  /\ UNCHANGED <<control, ticket, group, count>>

Next ==
  \E t \in Threads : Arrive(t) \/ Complete(t) \/ Resume(t) \/ SpuriousWakeup(t)

Spec == Init /\ [][Next]_vars

(* A thread that has been woken gets m_lock and runs. *)
FairSpec == Spec /\ \A t \in Threads : WF_vars(Resume(t))

-------------------------------------------------------------------------------
(* The type of the state. *)
TypeOK ==
  /\ control \in [Threads -> {"outside", "waiting"}]
  /\ ticket \in [Threads -> 0..(Modulus - 1)]
  /\ blocked \subseteq Waiting
  /\ group \in 0..(Modulus - 1)
  /\ count \in 1..Limit

(* m_count, which alone decides when a group is complete, is what the      *)
(* group that is gathering lacks, whoever of the earlier groups is still   *)
(* on the way out.                                                         *)
CountAgrees == Cardinality(Gathering) = Limit - count

(* No wakeup is lost: nobody of a complete group is left asleep. *)
ReleasedAreAwake == Released \cap blocked = {}

(* With as many threads as a group has, no thread is ever so late that     *)
(* m_group wraps to the value it waits on, if only it has two values.      *)
NeverLapped ==
  Cardinality(Threads) = Limit /\ count = 1 /\ Waiting # Threads => ~Laps

(* Every thread of a complete group leaves. *)
ReleasedLeave == \A t \in Threads : t \in Released ~> t \notin Waiting

(* Threads pass in groups of Limit. *)
Abstract == INSTANCE BarrierGroups
              WITH gathering <- Gathering, released <- Released
ImplementsBarrierGroups == Abstract!Spec
===============================================================================
