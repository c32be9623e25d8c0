---------------------------- MODULE BarrierGroups -----------------------------
(***************************************************************************)
(* What a barrier promises: "threads may only travel in groups of a        *)
(* specific size" (barrier.d, lines 38 and 39).                            *)
(***************************************************************************)
EXTENDS Integers, FiniteSets

CONSTANTS Threads, Limit

VARIABLES
  gathering,   \* the threads of the group that is not complete
  released     \* the threads of complete groups that have not left yet

vars == <<gathering, released>>

Init == gathering = {} /\ released = {}

Gather(t) ==
  /\ t \notin gathering \cup released
  /\ Cardinality(gathering) + 1 < Limit
  /\ gathering' = gathering \cup {t}
  /\ UNCHANGED released

(* The last thread of a group goes through and releases the others. *)
Complete(t) ==
  /\ t \notin gathering \cup released
  /\ Cardinality(gathering) + 1 = Limit
  /\ gathering' = {}
  /\ released' = released \cup gathering

Leave(t) ==
  /\ t \in released
  /\ released' = released \ {t}
  /\ UNCHANGED gathering

Next == \E t \in Threads : Gather(t) \/ Complete(t) \/ Leave(t)

Spec == Init /\ [][Next]_vars
===============================================================================
