---------------------------- MODULE PosixCondition ----------------------------
(***************************************************************************)
(* core.sync.condition.Condition as the POSIX build provides it, for the   *)
(* modules whose critical sections are single steps.  A condition is the   *)
(* set of the threads that are blocked in it: a thread puts itself in the  *)
(* set when it waits (and thereby gives the mutex up), a notification      *)
(* takes threads out, and a thread that has been taken out tries its loop  *)
(* condition again when it gets the mutex.  POSIX also lets a waiter       *)
(* return without a notification.                                          *)
(***************************************************************************)

(* wait: the caller blocks until somebody takes it out of the set. *)
AfterWait(blocked, t) == blocked \cup {t}

(* notify (pthread_cond_signal) takes out one waiter of the system's       *)
(* choosing, and nobody when nobody waits: the sets that may stay blocked. *)
AfterNotify(blocked) ==
  IF blocked = {} THEN {{}} ELSE {blocked \ {t} : t \in blocked}

(* notifyAll (pthread_cond_broadcast) takes out every waiter. *)
AfterNotifyAll(blocked) == {}

===============================================================================
