------------------------------ MODULE MCTaskPool ------------------------------
(***************************************************************************)
(* TaskPool for TLC: which client forces which task.                       *)
(***************************************************************************)
EXTENDS TaskPool

CONSTANTS c1, c2, k1, k2, k3

OwnTasks == {c1} \X Tasks
EachItsOwn == {<<c1, k1>>, <<c2, k2>>}
Everybody == Clients \X Tasks

(* The workers are alike. *)
WorkerSymmetry == Permutations(Workers)
===============================================================================
