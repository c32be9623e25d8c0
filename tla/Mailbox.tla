------------------------------- MODULE Mailbox --------------------------------
(***************************************************************************)
(* What the mailbox of a thread promises to those who send to it and to    *)
(* the thread that receives from it (std.concurrency, send, prioritySend   *)
(* and receive).  Messages wait in the order in which they were accepted;  *)
(* a receive takes, out of order if need be, a message of a kind it wants, *)
(* but never one that has an older message of the same kind before it that *)
(* it has not declined.  What is taken is gone.  Priority messages are     *)
(* kept apart and come first come first served; one whose operation throws *)
(* stays.                                                                  *)
(***************************************************************************)
EXTENDS Integers, SequencesExt

CONSTANTS
  Message,   \* what can be sent: records with a "type", a "kind" and an "id"
  Choosy     \* the kinds that a receive can decline

VARIABLES
  queue, urgent,   \* what has been accepted and not taken
  declined,        \* what the receive has declined
  taken            \* what has been taken from either queue

vars == <<queue, urgent, declined, taken>>

Init == queue = <<>> /\ urgent = <<>> /\ declined = {} /\ taken = {}

New(m) == m.id \notin taken /\ \A n \in Range(queue) \cup Range(urgent) : n.id # m.id

Accept ==
  /\ UNCHANGED <<urgent, declined, taken>>
  /\ queue' # queue
  /\ \E m \in Message : queue' = Append(queue, m) /\ New(m)

AcceptUrgent ==
  /\ UNCHANGED <<queue, declined, taken>>
  /\ urgent' # urgent
  /\ \E m \in Message : urgent' = Append(urgent, m) /\ New(m)

(* A receive declines messages, or starts with none declined. *)
Declines ==
  declined' \subseteq declined \cup {m.id : m \in {n \in Range(queue) : n.kind \in Choosy}}

LookInVain == Declines /\ UNCHANGED <<queue, urgent, taken>>

(* The n-th message is the oldest one of its kind that is not declined. *)
Oldest(n) ==
  \A i \in 1..(n - 1) : queue[i].kind = queue[n].kind => queue[i].id \in declined'

(* A notice is taken too, but by no operation. *)
Take ==
  /\ Declines
  /\ \E n \in DOMAIN queue :
       /\ Oldest(n)
       /\ queue' = RemoveAt(queue, n)
       /\ taken' = IF queue[n].type = "linkDead" THEN taken ELSE taken \cup {queue[n].id}
  /\ UNCHANGED urgent

TakeUrgent ==
  /\ Declines
  /\ urgent # <<>>
  /\ urgent' \in {Tail(urgent), urgent}
  /\ taken' = taken \cup {Head(urgent).id}
  /\ UNCHANGED queue

(* The receiver terminates: what it has not taken is dropped. *)
Drop == queue' = <<>> /\ UNCHANGED <<urgent, declined, taken>>

Next == Accept \/ AcceptUrgent \/ LookInVain \/ Take \/ TakeUrgent \/ Drop

Spec == Init /\ [][Next]_vars
===============================================================================
