---------------------------- MODULE ReadWriteLock -----------------------------
(***************************************************************************)
(* What a readers-writer lock promises, whatever its policy: the mutex can *)
(* "maintain multiple simultaneous readers, but when a writer enters, all  *)
(* other readers and writers are blocked" (rwmutex.d, lines 38 to 40).     *)
(***************************************************************************)
CONSTANT Threads

VARIABLES readers, writers   \* the threads that hold the lock, by kind

vars == <<readers, writers>>

Init == readers = {} /\ writers = {}

StartReading(t) ==
  /\ t \notin readers /\ writers = {}
  /\ readers' = readers \cup {t}
  /\ UNCHANGED writers

StartWriting(t) ==
  /\ readers = {} /\ writers = {}
  /\ writers' = {t}
  /\ UNCHANGED readers

Release(t) ==
  /\ t \in readers \cup writers
  /\ readers' = readers \ {t}
  /\ writers' = writers \ {t}

Next == \E t \in Threads : StartReading(t) \/ StartWriting(t) \/ Release(t)

Spec == Init /\ [][Next]_vars
===============================================================================
