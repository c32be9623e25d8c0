------------------------------- MODULE TaskQueue ------------------------------
(***************************************************************************)
(* What a TaskPool promises those who put tasks on it: "a task queue is a  *)
(* FIFO queue of Task objects" (parallelism.d, line 997) of which workers  *)
(* take the oldest, and a thread that forces a task may take that one; a   *)
(* task is executed by one thread, from its taking to its end.             *)
(***************************************************************************)
EXTENDS Integers, SequencesExt

CONSTANTS Threads, Clients, Tasks, Idle

VARIABLES
  waiting,     \* the tasks in the queue, oldest first
  executing,   \* the task each thread executes, or Idle
  done         \* the tasks that have been executed

vars == <<waiting, executing, done>>

Init ==
  /\ waiting = <<>> /\ done = {}
  /\ executing = [t \in Threads |-> Idle]

(* Tasks that nobody executes and that are not done. *)
Fresh == Tasks \ (Range(executing) \cup done)

Put(g) ==
  /\ Range(g) \subseteq Fresh \ Range(waiting)
  /\ waiting' = waiting \o g
  /\ UNCHANGED <<executing, done>>

Start(t, k) == executing[t] = Idle /\ executing' = [executing EXCEPT ![t] = k]

TakeOldest(t) ==
  /\ waiting # <<>>
  /\ Start(t, Head(waiting)) /\ waiting' = Tail(waiting)
  /\ UNCHANGED done

(* A client may force a task that is not in the queue: one whose put came  *)
(* after finish or stop and was refused.                                   *)
TakeForced(c, k) ==
  /\ k \in Fresh
  /\ Start(c, k)
  /\ \/ k \notin Range(waiting) /\ UNCHANGED waiting
     \/ \E n \in DOMAIN waiting : waiting[n] = k /\ waiting' = RemoveAt(waiting, n)
  /\ UNCHANGED done

Complete(t) ==
  /\ executing[t] # Idle
  /\ done' = done \cup {executing[t]}
  /\ executing' = [executing EXCEPT ![t] = Idle]
  /\ UNCHANGED waiting

Next ==
  \/ \E k, u \in Tasks : Put(<<k>>) \/ (k # u /\ Put(<<k, u>>))
  \/ \E t \in Threads : TakeOldest(t) \/ Complete(t)
  \/ \E c \in Clients, k \in Tasks : TakeForced(c, k)

Spec == Init /\ [][Next]_vars
===============================================================================
