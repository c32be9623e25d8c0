------------------------------- MODULE Registry -------------------------------
(***************************************************************************)
(* The registry of std.concurrency: names for threads, in two maps that    *)
(* every operation reads and writes under registryLock.  A thread closes   *)
(* its mailbox when it terminates, and takes its names out of the registry *)
(* some time later.  The definitions have names that no other module of    *)
(* std.concurrency has, so that both can be extended together.             *)
(***************************************************************************)
EXTENDS Integers, FiniteSets, SequencesExt

CONSTANTS
  Tids, Names,
  TidInit,     \* Tid.init
  MaxListed    \* bound of the model: the length of a list in namesByTid

ASSUME TidsAssumption == TidInit \notin Tids
ASSUME ListedAssumption == MaxListed \in Nat \ {0}

VARIABLES
  tidByName,    \* TidInit for a name that is not in the map
  namesByTid,   \* the array of each thread, empty if it is not in the map
  closedTids,   \* the threads whose mailbox is closed
  gone          \* the threads that have called unregisterMe

registryVars == <<tidByName, namesByTid, closedTids, gone>>

RegistryInit ==
  /\ tidByName = [n \in Names |-> TidInit]
  /\ namesByTid = [t \in Tids |-> <<>>]
  /\ closedTids = {} /\ gone = {}

(* Seeded fault: the names of a thread that terminates are accepted. *)
Register_Unchecked(n, t) ==
  /\ tidByName[n] = TidInit
  /\ Len(namesByTid[t]) < MaxListed
  /\ tidByName' = [tidByName EXCEPT ![n] = t]
  /\ namesByTid' = [namesByTid EXCEPT ![t] = Append(@, n)]
  /\ UNCHANGED <<closedTids, gone>>

(* register when it returns true; false changes nothing. *)
Register(n, t) ==
  /\ tidByName[n] = TidInit /\ t \notin closedTids
  /\ Len(namesByTid[t]) < MaxListed
  /\ tidByName' = [tidByName EXCEPT ![n] = t]
  /\ namesByTid' = [namesByTid EXCEPT ![t] = Append(@, n)]
  /\ UNCHANGED <<closedTids, gone>>

(* Seeded fault: the first element of the array is overwritten. *)
RemoveUnstable_First(q, n) == [q EXCEPT ![1] = Last(q)]

(* remove!(SwapStrategy.unstable) of the first n in the array q: the last  *)
(* element takes its place.  The shorter array is what remove returns, and *)
(* unregister does not look at it, so q keeps its length and its end.      *)
RemoveUnstable(q, n) == [q EXCEPT ![Min({i \in DOMAIN q : q[i] = n})] = Last(q)]

(* unregister when it returns true. *)
Unregister(n) ==
  /\ tidByName[n] # TidInit
  /\ namesByTid' = [namesByTid EXCEPT ![tidByName[n]] = RemoveUnstable(@, n)]
  /\ tidByName' = [tidByName EXCEPT ![n] = TidInit]
  /\ UNCHANGED <<closedTids, gone>>

(* ThreadInfo.cleanup: first the mailbox ... *)
CloseMailbox(t) ==
  /\ t \notin closedTids
  /\ closedTids' = closedTids \cup {t}
  /\ UNCHANGED <<tidByName, namesByTid, gone>>

(* ... and unregisterMe last. *)
UnregisterMe(t) ==
  /\ t \in closedTids \ gone
  /\ tidByName' = [n \in Names |-> IF n \in Range(namesByTid[t]) THEN TidInit
                                   ELSE tidByName[n]]
  /\ namesByTid' = [namesByTid EXCEPT ![t] = <<>>]
  /\ gone' = gone \cup {t}
  /\ UNCHANGED closedTids

RegistryNext ==
  \/ \E n \in Names : Unregister(n) \/ \E t \in Tids : Register(n, t)
  \/ \E t \in Tids : CloseMailbox(t) \/ UnregisterMe(t)

RegistrySpec == RegistryInit /\ [][RegistryNext]_registryVars

-------------------------------------------------------------------------------
(* The type of the state. *)
RegistryTypeOK ==
  /\ tidByName \in [Names -> Tids \cup {TidInit}]
  /\ namesByTid \in [Tids -> Seq(Names)]
  /\ closedTids \subseteq Tids /\ gone \subseteq closedTids

(* The array of a thread has every name that leads to the thread, so that  *)
(* unregister finds it there and unregisterMe forgets none, although       *)
(* unregister leaves other elements behind in it.                          *)
NamesListed ==
  \A n \in Names : tidByName[n] # TidInit => n \in Range(namesByTid[tidByName[n]])

(* No name leads to a thread that has left, and none will again: whoever   *)
(* registers the thread under a name while it terminates.                  *)
LeaversUnnamed == \A n \in Names : tidByName[n] \notin gone

(* "When the thread represented by tid terminates, any names associated    *)
(* with it will be automatically unregistered" (concurrency.d lines 996 to *)
(* 998): its own names, and not one that now leads to another thread.      *)
OthersKeepNames ==
  [][gone' # gone =>
       \A n \in Names : tidByName[n] \in Tids \ gone' => tidByName'[n] = tidByName[n]]_registryVars
===============================================================================
