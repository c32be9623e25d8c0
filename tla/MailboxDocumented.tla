-------------------------- MODULE MailboxDocumented ---------------------------
(***************************************************************************)
(* Sentences of the documentation and the comments of std.concurrency that *)
(* the code of the mailbox does not live up to: TLC finds a behaviour that *)
(* violates each of them, with the configuration named after it.           *)
(***************************************************************************)
EXTENDS MCMessageBox

(* setMaxMailboxSize "Sets a limit on the maximum number of user messages  *)
(* allowed in the mailbox" (concurrency.d line 914); looked at between two *)
(* calls of receive.                                                       *)
LimitRespected == receiver = "running" => UserMessages(Queue) <= limit

(* A closed mailbox rejects "any future messages" (line 2130).             *)
ClosedStaysEmpty == closed => sharedBox = <<>>

(* A priority message is placed "on the front of tid's message queue"      *)
(* (line 610): a receive that is called when one is pending does not run   *)
(* an operation on another message.                                        *)
PriorityTakenFirst ==
  [][receiver = "running" /\ Urgent # <<>> =>
       \A m \in Pending : m.id \in delivered' => m.id \in delivered]_vars

(* OwnerTerminated is thrown "if the owner thread terminates and no        *)
(* existing messages match the supplied ops" (lines 1911 to 1914): among  *)
(* the messages that get looks at, none matches when the end of the owner  *)
(* is reported.                                                            *)
OwnerEndReportedLast ==
  [][owner # NoTid /\ owner' = NoTid /\ ~closed' =>
       \A m \in Range(localBox \o arrived) : ~Wanted(m, ops')]_vars

(* "Only the message handler will throw, so if this occurs we can be       *)
(* certain that the message was handled" (lines 2004 and 2005): an         *)
(* operation that was run on a priority message is not run on it again.    *)
UrgentDeliveredOnce == \A m \in Range(Urgent) : m.id \notin delivered
===============================================================================
