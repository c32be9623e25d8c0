--------------------------- MODULE MCCriticalSection --------------------------
(***************************************************************************)
(* CriticalSection for TLC: a statement that is reached again from inside  *)
(* itself, and one that is reached from inside the other.                  *)
(***************************************************************************)
EXTENDS CriticalSection

CONSTANTS a, b

AInAAndBInA == {<<a, a>>, <<a, b>>}

(* The threads are alike. *)
ThreadSymmetry == Permutations(Threads)
===============================================================================
