---------------------------- MODULE CriticalSection ---------------------------
(***************************************************************************)
(* rt.critical_: the mutexes of synchronized statements without an object. *)
(* Each statement has a static D_CRITICAL_SECTION whose mutex is created   *)
(* by the first thread that gets there, under the mutex of gcs and with a  *)
(* double check of "next", which is the flag and the link of the list that *)
(* _d_critical_term goes through.                                          *)
(*                                                                         *)
(* A step is one access to what the threads share.  atomicLoad of next     *)
(* acquires and atomicStore releases, so a thread that reads a link sees   *)
(* what was written before it and steps in their order are all there is.   *)
(* Mutexes are recursive (rt.monitor_, gattr).                             *)
(***************************************************************************)
EXTENDS Integers, FiniteSets, SequencesExt

CONSTANTS
  Threads,    \* the threads of the program
  Sections,   \* the D_CRITICAL_SECTIONs of its statements
  Gcs,        \* the one named gcs
  Null,
  NoThread,
  Inside,     \* the pairs <<a, b>>: statement b may be reached from inside a
  MaxNesting  \* bound of the model: statements a thread is inside at a time

ASSUME SectionsAssumption == IsFiniteSet(Sections) /\ Null \notin Sections \cup {Gcs}
ASSUME GcsAssumption == Gcs \notin Sections
ASSUME ThreadsAssumption == NoThread \notin Threads
ASSUME InsideAssumption == Inside \subseteq Sections \X Sections
ASSUME NestingAssumption == MaxNesting \in Nat \ {0}

VARIABLES
  next,      \* cs.next, for every section
  head,      \* the list of sections whose mutex is to be destroyed
  inits,     \* how often the mutex of each section has been created
  owner,     \* who holds the mutex of each section, and gcs's
  pc,        \* where each thread is in _d_criticalenter
  cs,        \* its argument
  ohead,     \* the local variable of ensureMutex
  held,      \* the sections each thread is inside, a sequence
  destroyed  \* _d_critical_term: the sections whose mutex is destroyed

list == <<next, head>>
vars == <<list, inits, owner, pc, cs, ohead, held, destroyed>>

Goto(t, from, to) == pc[t] = from /\ pc' = [pc EXCEPT ![t] = to]

-------------------------------------------------------------------------------
(* _d_critical_init: gcs ends the list, so a section that is in it has a   *)
(* next whichever came first.                                              *)
InitialHead == Gcs

Init ==
  /\ next = [s \in Sections |-> Null] /\ head = InitialHead
  /\ inits = [s \in Sections |-> 0]
  /\ owner = [s \in Sections \cup {Gcs} |-> NoThread]
  /\ pc = [t \in Threads |-> "outside"]
  /\ cs = [t \in Threads |-> Null] /\ ohead = [t \in Threads |-> Null]
  /\ held = [t \in Threads |-> <<>>]
  /\ destroyed = {}

(* A statement is reached from outside all, or from inside another. *)
Reaches(t, s) == held[t] # <<>> => <<Last(held[t]), s>> \in Inside

(* ensureMutex: the check without a lock. *)
Enter(t, s) ==
  /\ Len(held[t]) < MaxNesting /\ Reaches(t, s)
  /\ Goto(t, "outside", IF next[s] = Null THEN "lockGcs" ELSE "lock")
  /\ cs' = [cs EXCEPT ![t] = s]
  /\ UNCHANGED <<list, inits, owner, ohead, held, destroyed>>

LockGcs(t) ==
  /\ Goto(t, "lockGcs", "check")
  /\ owner[Gcs] = NoThread
  /\ owner' = [owner EXCEPT ![Gcs] = t]
  /\ UNCHANGED <<list, inits, cs, ohead, held, destroyed>>

(* Seeded fault: the check is not made again. *)
Check_Once(t) ==
  /\ Goto(t, "check", "init")
  /\ UNCHANGED <<list, inits, owner, cs, ohead, held, destroyed>>

(* The check under the mutex of gcs. *)
Check(t) ==
  /\ Goto(t, "check", IF next[cs[t]] = Null THEN "init" ELSE "unlockGcs")
  /\ UNCHANGED <<list, inits, owner, cs, ohead, held, destroyed>>

(* initMutex.  Nobody holds a mutex that has just been created. *)
InitMutex(t) ==
  /\ Goto(t, "init", "readHead")
  /\ inits' = [inits EXCEPT ![cs[t]] = @ + 1]
  /\ owner' = [owner EXCEPT ![cs[t]] = NoThread]
  /\ UNCHANGED <<list, cs, ohead, held, destroyed>>

(* Seeded fault: head is read when it has been set. *)
ReadHead_Late(t) ==
  /\ Goto(t, "readHead", "setHead")
  /\ ohead' = [ohead EXCEPT ![t] = cs[t]]
  /\ UNCHANGED <<list, inits, owner, cs, held, destroyed>>

ReadHead(t) ==
  /\ Goto(t, "readHead", "setHead")
  /\ ohead' = [ohead EXCEPT ![t] = head]
  /\ UNCHANGED <<list, inits, owner, cs, held, destroyed>>

SetHead(t) ==
  /\ Goto(t, "setHead", "publish")
  /\ head' = cs[t]
  /\ UNCHANGED <<next, inits, owner, cs, ohead, held, destroyed>>

(* The store that lets others past the first check. *)
Publish(t) ==
  /\ Goto(t, "publish", "unlockGcs")
  /\ next' = [next EXCEPT ![cs[t]] = ohead[t]]
  /\ UNCHANGED <<head, inits, owner, cs, ohead, held, destroyed>>

UnlockGcs(t) ==
  /\ Goto(t, "unlockGcs", "lock")
  /\ owner' = [owner EXCEPT ![Gcs] = NoThread]
  /\ UNCHANGED <<list, inits, cs, ohead, held, destroyed>>

(* lockMutex *)
Lock(t) ==
  /\ Goto(t, "lock", "outside")
  /\ owner[cs[t]] \in {NoThread, t}
  /\ owner' = [owner EXCEPT ![cs[t]] = t]
  /\ held' = [held EXCEPT ![t] = Append(@, cs[t])]
  /\ UNCHANGED <<list, inits, cs, ohead, destroyed>>

(* Seeded fault: a statement that is left gives the mutex back although    *)
(* the thread is inside the same one once more.                            *)
Exit_Entirely(t) ==
  /\ pc[t] = "outside" /\ held[t] # <<>>
  /\ held' = [held EXCEPT ![t] = Front(@)]
  /\ owner' = [owner EXCEPT ![Last(held[t])] = NoThread]
  /\ UNCHANGED <<list, inits, pc, cs, ohead, destroyed>>

(* _d_criticalexit, of the statement that was entered last. *)
Exit(t) ==
  /\ pc[t] = "outside" /\ held[t] # <<>>
  /\ held' = [held EXCEPT ![t] = Front(@)]
  /\ owner' = [owner EXCEPT ![Last(held[t])] =
                 IF Last(held[t]) \in Range(Front(held[t])) THEN t ELSE NoThread]
  /\ UNCHANGED <<list, inits, pc, cs, ohead, destroyed>>

(* The sections on the list: head, and what next leads to up to gcs. *)
Linked ==
  LET ith[n \in 0..Cardinality(Sections)] ==
        IF n = 0 THEN head
        ELSE IF ith[n - 1] \in Sections THEN next[ith[n - 1]] ELSE Gcs
  IN  {s \in Sections : \E n \in DOMAIN ith : ith[n] = s}

(* _d_critical_term, when the threads have been joined. *)
Term ==
  /\ \A t \in Threads : pc[t] = "outside" /\ held[t] = <<>>
  /\ destroyed = {}
  /\ destroyed' = Linked \cup {Gcs}
  /\ pc' = [t \in Threads |-> "ended"]
  /\ UNCHANGED <<list, inits, owner, cs, ohead, held>>

Ended == destroyed # {} /\ UNCHANGED vars

Proceed(t) ==
  \/ LockGcs(t) \/ Check(t) \/ InitMutex(t) \/ ReadHead(t) \/ SetHead(t)
  \/ Publish(t) \/ UnlockGcs(t) \/ Lock(t)

Next ==
  \/ \E t \in Threads :
       (\E s \in Sections : Enter(t, s)) \/ Proceed(t) \/ Exit(t)
  \/ Term \/ Ended

Spec == Init /\ [][Next]_vars

-------------------------------------------------------------------------------
Busy == {"check", "init", "readHead", "setHead", "publish", "unlockGcs"}

(* The type of the state. *)
TypeOK ==
  /\ next \in [Sections -> Sections \cup {Gcs, Null}]
  /\ head \in Sections \cup {Gcs}
  /\ inits \in [Sections -> Nat]
  /\ owner \in [Sections \cup {Gcs} -> Threads \cup {NoThread}]
  /\ pc \in [Threads -> Busy \cup {"outside", "lockGcs", "lock", "ended"}]
  /\ cs \in [Threads -> Sections \cup {Null}]
  /\ ohead \in [Threads -> Sections \cup {Gcs, Null}]
  /\ held \in [Threads -> Seq(Sections)]
  /\ destroyed \subseteq Sections \cup {Gcs}
  /\ \A t \in Threads : pc[t] \notin {"outside", "ended"} => cs[t] \in Sections

(* The mutex of a section is created once, however many threads reach the  *)
(* statement for the first time together, and before anybody locks it.     *)
CreatedOnce ==
  /\ \A s \in Sections : inits[s] <= 1
  /\ \A t \in Threads : pc[t] = "lock" => inits[cs[t]] = 1

(* Two threads are never inside the same statement.                        *)
Exclusion ==
  \A t, u \in Threads : t # u => Range(held[t]) \cap Range(held[u]) = {}

(* Every mutex that was created is destroyed, and no other. *)
AllDestroyed ==
  destroyed # {} => destroyed = {s \in Sections : inits[s] > 0} \cup {Gcs}
===============================================================================
