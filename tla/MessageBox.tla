------------------------------ MODULE MessageBox ------------------------------
(***************************************************************************)
(* std.concurrency.MessageBox: the mailbox of one thread, the receiver,    *)
(* with the threads that send to it and the links between them.            *)
(*                                                                         *)
(* put runs under m_lock and lets go of it only in m_notFull.wait; get     *)
(* works on the receiver's own lists and takes m_lock to fetch what was    *)
(* sent.  A step is what happens between two points where m_lock is free.  *)
(* The lists (struct List) are sequences; a message is its type, its kind  *)
(* (what the operations given to receive match on; for the notice of a     *)
(* terminated thread, the thread) and the number it was accepted under,    *)
(* which the code does not have and only the properties look at.           *)
(***************************************************************************)
EXTENDS Integers, FiniteSets, SequencesExt, PosixCondition

CONSTANTS
  Peers,        \* the threads that know the receiver's Tid
  Role,         \* what each is to the receiver when it starts
  NoTid,        \* Tid.init
  Kinds,        \* the kinds of user messages
  Choosy,       \* those whose operations return a bool and may decline
  SendTypes,    \* which of send and prioritySend the peers call
  OpSets,       \* the sets of kinds that one receive accepts
  Limits,       \* the arguments of setMaxMsgs: limits (zero for none) ...
  Crowding,     \* ... and behaviours when the limit is reached
  MaxAccepted   \* bound of the model: messages accepted in a behaviour

Roles == {"owner", "linked", "spawned", "stranger"}

ASSUME PeersAssumption == IsFiniteSet(Peers) /\ NoTid \notin Peers
ASSUME RoleAssumption == Role \in [Peers -> Roles]
ASSUME LimitsAssumption == IsFiniteSet(Limits) /\ Limits \subseteq Nat
ASSUME KindsAssumption == Kinds # {} /\ Kinds \cap Peers = {} /\ Choosy \subseteq Kinds
ASSUME SendAssumption ==
  /\ SendTypes \subseteq {"standard", "priority"}
  /\ OpSets \subseteq SUBSET Kinds
  /\ Crowding \subseteq {"block", "throw", "ignore"}
  /\ MaxAccepted \in Nat

VARIABLES
  sharedBox, sharedPty,   \* m_sharedBox, m_sharedPty: sent, not yet fetched
  localBox, localPty,     \* m_localBox, m_localPty: fetched, not yet taken
  arrived,                \* the local variable of get
  localMsgs,              \* m_localMsgs
  limit, onLimit,         \* m_maxMsgs and what m_onMaxMsgs does
  putQueue,               \* m_putQueue
  closed,                 \* m_closed
  putMsg, notFull,        \* who is asleep in the two conditions
  receiver, ops, timed,   \* what the receiver does, and the call it is in
  links, owner,           \* its thisInfo.links and thisInfo.owner
  sender, outbox,         \* what each peer does, and what it is sending
  accepted,               \* how many messages were accepted
  declined, delivered     \* those that an operation of this call returned
                          \* false for; those that an operation took

shared == <<sharedBox, sharedPty, localMsgs, putQueue, closed, putMsg, notFull>>
local == <<localBox, localPty, arrived, ops, timed, links, owner,
           declined, delivered>>
limits == <<limit, onLimit>>
peers == <<sender, outbox>>
vars == <<shared, local, limits, peers, receiver, accepted>>

Self == "self"   \* the receiver, in putMsg

UserTypes == {"standard", "priority"}
Message == [type : UserTypes, kind : Kinds, id : 1..MaxAccepted]
           \cup [type : {"linkDead"}, kind : Peers, id : 1..MaxAccepted]

-------------------------------------------------------------------------------
(* What put does with a message, the receiver's mailbox being locked.      *)

(* Seeded fault: what the receiver has fetched is not counted. *)
MboxFull_OnlyShared(fetched) == limit > 0 /\ limit <= Len(sharedBox)

(* mboxFull, when m_localMsgs is "fetched". *)
MboxFull(fetched) == limit > 0 /\ limit <= fetched + Len(sharedBox)

Numbered(type, kind) == [type |-> type, kind |-> kind, id |-> accepted + 1]

(* Another put may start: the messages that wait for room fit as well. *)
WithinBound == accepted + putQueue < MaxAccepted

(* Seeded fault: the receiver is woken for urgent messages only. *)
Deliver_WithoutNotify(type, kind) ==
  /\ accepted' = accepted + 1
  /\ IF type = "priority"
     THEN /\ sharedPty' = Append(sharedPty, Numbered(type, kind))
          /\ putMsg' \in AfterNotify(putMsg)
          /\ UNCHANGED sharedBox
     ELSE /\ sharedBox' = Append(sharedBox, Numbered(type, kind))
          /\ UNCHANGED <<sharedPty, putMsg>>

(* The message goes to its list and the receiver is notified. *)
Deliver(type, kind) ==
  /\ accepted' = accepted + 1
  /\ putMsg' \in AfterNotify(putMsg)
  /\ IF type = "priority"
     THEN /\ sharedPty' = Append(sharedPty, Numbered(type, kind))
          /\ UNCHANGED sharedBox
     ELSE /\ sharedBox' = Append(sharedBox, Numbered(type, kind))
          /\ UNCHANGED sharedPty

(* Only a user message without priority can find the mailbox full. *)
Crowds(type) == type = "standard" /\ MboxFull(localMsgs)

(* One turn of put's loop for p, which has "waited" (0 or 1) in m_putQueue *)
(* since the last one: the message is delivered, or m_onMaxMsgs throws or  *)
(* returns false and it is not, or p waits for room.                       *)
PutTurn(p, type, kind, waited) ==
  \/ /\ ~Crowds(type)
     /\ Deliver(type, kind)
     /\ sender' = [sender EXCEPT ![p] = "idle"]
     /\ putQueue' = putQueue - waited
     /\ UNCHANGED <<notFull, outbox>>
  \/ /\ Crowds(type)
     /\ onLimit \in {"throw", "ignore"}
     /\ sender' = [sender EXCEPT ![p] = "idle"]
     /\ putQueue' = putQueue - waited
     /\ UNCHANGED <<notFull, outbox, sharedBox, sharedPty, putMsg, accepted>>
  \/ /\ Crowds(type)
     /\ onLimit = "block"
     /\ sender' = [sender EXCEPT ![p] = "blocked"]
     /\ outbox' = [outbox EXCEPT ![p] = kind]
     /\ putQueue' = putQueue - waited + 1
     /\ notFull' = AfterWait(notFull, p)
     /\ UNCHANGED <<sharedBox, sharedPty, putMsg, accepted>>

(* send or prioritySend up to its first wait or its end.  A closed mailbox *)
(* ignores the message.                                                    *)
Send(p) ==
  /\ sender[p] = "idle" /\ ~closed /\ WithinBound
  /\ \E type \in SendTypes, kind \in Kinds : PutTurn(p, type, kind, 0)
  /\ UNCHANGED <<local, limits, localMsgs, closed, receiver>>

(* put after a return of m_notFull.wait: it looks at everything again but  *)
(* at m_closed.                                                            *)
SendAgain(p) ==
  /\ sender[p] = "blocked" /\ p \notin notFull
  /\ PutTurn(p, "standard", outbox[p], 1)
  /\ UNCHANGED <<local, limits, localMsgs, closed, receiver>>

(* A wait of a sender that returns without a notification. *)
SpuriousWakeup(p) ==
  /\ p \in notFull
  /\ notFull' = notFull \ {p}
  /\ UNCHANGED <<sharedBox, sharedPty, localMsgs, putQueue, closed, putMsg,
                 local, limits, peers, receiver, accepted>>

(* ThreadInfo.cleanup of a peer: it tells its owner, or those it spawned.  *)
(* Its own mailbox and links are not modelled.                             *)
Terminate(p) ==
  /\ sender[p] = "idle" /\ Role[p] # "stranger" /\ WithinBound
  /\ sender' = [sender EXCEPT ![p] = "terminated"]
  /\ IF closed THEN UNCHANGED <<sharedBox, sharedPty, putMsg, accepted>>
               ELSE Deliver("linkDead", p)
  /\ UNCHANGED <<local, limits, localMsgs, putQueue, closed, notFull, receiver,
                 outbox>>

(* setMaxMailboxSize, by any thread that has the receiver's Tid. *)
SetMaxMsgs ==
  /\ limit' \in Limits /\ onLimit' \in Crowding
  /\ UNCHANGED <<shared, local, peers, receiver, accepted>>

-------------------------------------------------------------------------------
(* What get looks for, when the receiver wants the kinds W.                *)

(* onStandardMsg runs an operation on it. *)
Wanted(m, W) == m.type # "linkDead" /\ m.kind \in W

(* onLinkDeadMsg ends the call (it throws, or an operation takes the       *)
(* exception) for a linked thread and for the owner, once.                 *)
Reported(m) ==
  m.type = "linkDead" /\ (links[m.kind] = "linked" \/ owner = m.kind)

(* scan does not go past it: only an operation that returns a bool lets    *)
(* the message it was run on stay, by returning false.                     *)
Stops(m, W) == Reported(m) \/ (Wanted(m, W) /\ m.kind \notin Choosy)

(* The messages before the k-th, or all of them if k is zero. *)
Passed(list, k) == {list[i] : i \in IF k = 0 THEN DOMAIN list ELSE 1..(k - 1)}

(* Where scan may stop: at a message that an operation takes, by returning *)
(* or by throwing, or at a notice; zero if it gets to the end of the list. *)
StopsAt(list, W) ==
  {k \in 0..Len(list) :
     /\ k > 0 => Wanted(list[k], W) \/ Reported(list[k])
     /\ \A m \in Passed(list, k) : ~Stops(m, W)}

(* What scan leaves: the message it stops at is removed, whether its       *)
(* operation returns or throws.                                            *)
AfterScan(list, k) == IF k = 0 THEN list ELSE RemoveAt(list, k)

(* The messages that scan looks at. *)
Seen(list, k) == Passed(list, k) \cup IF k = 0 THEN {} ELSE {list[k]}

(* links and owner when the notices among the messages "seen" have been    *)
(* through onLinkDeadMsg.                                                  *)
Unlink(seen) ==
  LET dead == {m.kind : m \in {n \in seen : n.type = "linkDead"}}
  IN  /\ links' = [p \in Peers |-> IF p \in dead THEN "none" ELSE links[p]]
      /\ owner' = IF owner \in dead THEN NoTid ELSE owner

(* scan up to k: with the links, the message that an operation took, and   *)
(* those that were declined, earlier in this call and now.                 *)
Scan(list, W, k, earlier) ==
  /\ Unlink(Seen(list, k))
  /\ delivered' = IF k > 0 /\ Wanted(list[k], W) THEN delivered \cup {list[k].id}
                                                  ELSE delivered
  /\ declined' = earlier \cup {m.id : m \in {n \in Passed(list, k) : Wanted(n, W)}}

(* pty on a list that is not empty.  It removes the message only when an   *)
(* operation takes it and returns; if the operation throws, or pty does,   *)
(* because there is none or it declines, the message stays.                *)
Pty(list, W) ==
  /\ \/ /\ Wanted(Head(list), W)
        /\ delivered' = delivered \cup {Head(list).id}
        /\ localPty' \in {Tail(list), list}
     \/ /\ ~Stops(Head(list), W)
        /\ UNCHANGED <<localPty, delivered>>
  /\ UNCHANGED <<links, owner>>

-------------------------------------------------------------------------------
(* get, by the receiver.                                                   *)

(* The head of get's loop, pty(m_localPty) || scan(m_localBox): the call   *)
(* ends, or goes on to look at what is shared.                             *)
LookLocally(W, earlier) ==
  \/ /\ localPty # <<>>
     /\ Pty(localPty, W)
     /\ receiver' = "running"
     /\ declined' = earlier
     /\ UNCHANGED localBox
  \/ /\ localPty = <<>>
     /\ \E k \in StopsAt(localBox, W) :
          /\ Scan(localBox, W, k, earlier)
          /\ localBox' = AfterScan(localBox, k)
          /\ receiver' = IF k = 0 THEN "fetching" ELSE "running"
     /\ UNCHANGED localPty

(* receive(ops) or receiveTimeout(duration, ops), up to the first yield. *)
Receive ==
  /\ receiver = "running"
  /\ \E W \in OpSets : ops' = W /\ LookLocally(W, {})
  /\ timed' \in BOOLEAN
  /\ UNCHANGED <<shared, arrived, limits, peers, accepted>>

(* The critical section of get when something has been sent: it is moved   *)
(* to lists of the receiver.  updateMsgCount is called on entry; after a   *)
(* wait, which does not change m_localBox, m_localMsgs still agrees.       *)
Fetch ==
  /\ receiver = "fetching" \/ (receiver = "waiting" /\ putMsg = {})
  /\ sharedPty # <<>> \/ sharedBox # <<>>
  /\ localMsgs' = IF receiver = "fetching" THEN Len(localBox) ELSE localMsgs
  /\ localPty' = localPty \o sharedPty /\ sharedPty' = <<>>
  /\ arrived' = sharedBox /\ sharedBox' = <<>>
  /\ receiver' = "sorting"
  /\ UNCHANGED <<localBox, putQueue, closed, putMsg, notFull, ops, timed,
                 links, owner, declined, delivered, limits, peers, accepted>>

(* Seeded fault: m_notFull is not notified. *)
Wait_WithoutNotify ==
  /\ receiver = "fetching" \/ (receiver = "waiting" /\ putMsg = {})
  /\ sharedPty = <<>> /\ sharedBox = <<>>
  /\ localMsgs' = IF receiver = "fetching" THEN Len(localBox) ELSE localMsgs
  /\ putMsg' = AfterWait(putMsg, Self)
  /\ receiver' = "waiting"
  /\ UNCHANGED <<sharedBox, sharedPty, putQueue, notFull, closed, local, limits,
                 peers, accepted>>

(* The same when nothing has been sent: senders that wait are let go if    *)
(* there is room, and the receiver waits.                                  *)
Wait ==
  /\ receiver = "fetching" \/ (receiver = "waiting" /\ putMsg = {})
  /\ sharedPty = <<>> /\ sharedBox = <<>>
  /\ localMsgs' = IF receiver = "fetching" THEN Len(localBox) ELSE localMsgs
  /\ notFull' = IF putQueue > 0 /\ ~MboxFull(localMsgs')
             THEN AfterNotifyAll(notFull) ELSE notFull
  /\ putMsg' = AfterWait(putMsg, Self)
  /\ receiver' = "waiting"
  /\ UNCHANGED <<sharedBox, sharedPty, putQueue, closed, local, limits, peers,
                 accepted>>

(* receiveTimeout gives up when its wait times out, which may be after     *)
(* something was sent.                                                     *)
Timeout ==
  /\ receiver = "waiting" /\ timed
  /\ putMsg' = {}
  /\ receiver' = "running"
  /\ UNCHANGED <<sharedBox, sharedPty, localMsgs, putQueue, closed, notFull,
                 local, limits, peers, accepted>>

(* A wait of the receiver that returns without a notification. *)
SpuriousWakeupOfReceiver ==
  /\ receiver = "waiting"
  /\ putMsg # {} /\ putMsg' = {}
  /\ UNCHANGED <<sharedBox, sharedPty, localMsgs, putQueue, closed, notFull,
                 local, limits, peers, receiver, accepted>>

(* Seeded faults: what arrived with the message that was taken is lost;    *)
(* urgent messages are looked at last.                                     *)
Sort_LosesRest ==
  /\ receiver = "sorting" /\ localPty = <<>>
  /\ \E k \in StopsAt(arrived, ops) :
       /\ Scan(arrived, ops, k, declined)
       /\ IF k = 0 THEN localBox' = localBox \o arrived /\ receiver' = "looking"
                   ELSE UNCHANGED localBox /\ receiver' = "running"
  /\ arrived' = <<>>
  /\ UNCHANGED <<shared, localPty, ops, timed, limits, peers, accepted>>

Sort_UrgentLast ==
  /\ receiver = "sorting"
  /\ \E k \in StopsAt(arrived, ops) :
       /\ Scan(arrived, ops, k, declined)
       /\ localBox' = localBox \o AfterScan(arrived, k)
       /\ receiver' = IF k = 0 THEN "looking" ELSE "running"
  /\ arrived' = <<>>
  /\ UNCHANGED <<shared, localPty, ops, timed, limits, peers, accepted>>

(* get after its critical section: an urgent message ends the call; if     *)
(* there is none, what has arrived is scanned, and kept whether the call   *)
(* ends or not.  When it does not the loop starts again, with the lists it *)
(* has just been through: operations that have declined are run again.     *)
Sort ==
  /\ receiver = "sorting"
  /\ \/ /\ localPty = <<>>
        /\ \E k \in StopsAt(arrived, ops) :
             /\ Scan(arrived, ops, k, declined)
             /\ localBox' = localBox \o AfterScan(arrived, k)
             /\ receiver' = IF k = 0 THEN "looking" ELSE "running"
        /\ UNCHANGED localPty
     \/ /\ localPty # <<>>
        /\ localBox' = localBox \o arrived
        /\ Pty(localPty, ops)
        /\ receiver' = "running"
        /\ UNCHANGED declined
  /\ arrived' = <<>>
  /\ UNCHANGED <<shared, ops, timed, limits, peers, accepted>>

LookAgain ==
  /\ receiver = "looking"
  /\ LookLocally(ops, declined)
  /\ UNCHANGED <<shared, arrived, ops, timed, limits, peers, accepted>>

(* close, when the receiver terminates.  Both m_sharedPty and m_localPty   *)
(* keep what they hold, and nobody is notified.                            *)
Close ==
  /\ receiver = "running"
  /\ receiver' = "terminated" /\ closed' = TRUE
  /\ Unlink(Range(localBox) \cup Range(sharedBox))
  /\ localBox' = <<>> /\ sharedBox' = <<>>
  /\ UNCHANGED <<sharedPty, localMsgs, putQueue, putMsg, notFull, localPty,
                 arrived, ops, timed, declined, delivered, limits, peers,
                 accepted>>

-------------------------------------------------------------------------------
Init ==
  /\ sharedBox = <<>> /\ sharedPty = <<>> /\ localBox = <<>> /\ localPty = <<>>
  /\ arrived = <<>> /\ localMsgs = 0
  /\ limit \in Limits /\ onLimit \in Crowding
  /\ putQueue = 0 /\ closed = FALSE /\ putMsg = {} /\ notFull = {}
  /\ receiver = "running" /\ ops = {} /\ timed = FALSE
  /\ links = [p \in Peers |-> IF Role[p] \in {"linked", "spawned"}
                              THEN Role[p] ELSE "none"]
  /\ owner \in IF \E p \in Peers : Role[p] = "owner"
               THEN {p \in Peers : Role[p] = "owner"} ELSE {NoTid}
  /\ sender = [p \in Peers |-> "idle"]
  /\ outbox = [p \in Peers |-> CHOOSE k \in Kinds : TRUE]
  /\ accepted = 0 /\ declined = {} /\ delivered = {}

Next ==
  \/ \E p \in Peers :
       Send(p) \/ SendAgain(p) \/ SpuriousWakeup(p) \/ Terminate(p)
  \/ SetMaxMsgs
  \/ Receive \/ LookAgain \/ Fetch \/ Wait \/ Sort \/ Timeout \/ Close
  \/ SpuriousWakeupOfReceiver

Spec == Init /\ [][Next]_vars

(* A thread that is inside put or get goes on when it can.  Nobody has to  *)
(* send, to call receive or to terminate.                                  *)
Fairness ==
  /\ WF_vars(LookAgain) /\ WF_vars(Fetch) /\ WF_vars(Wait) /\ WF_vars(Sort)
  /\ \A p \in Peers : WF_vars(SendAgain(p))

FairSpec == Spec /\ Fairness

(* The receiver also goes on calling receive until it terminates. *)
ReceivingSpec == FairSpec /\ WF_vars(Receive)

-------------------------------------------------------------------------------
Queue == localBox \o arrived \o sharedBox
Urgent == localPty \o sharedPty
Pending == Range(Queue)

(* How many user messages a list holds. *)
UserMessages(list) == Cardinality({i \in DOMAIN list : list[i].type = "standard"})

(* The type of the state. *)
TypeOK ==
  /\ \A list \in {sharedBox, localBox, arrived} :
       list \in Seq({m \in Message : m.type # "priority"})
  /\ \A list \in {sharedPty, localPty} :
       list \in Seq({m \in Message : m.type = "priority"})
  /\ {localMsgs, putQueue} \subseteq Nat
  /\ limit \in Limits /\ onLimit \in Crowding
  /\ closed \in BOOLEAN /\ timed \in BOOLEAN
  /\ putMsg \subseteq {Self} /\ notFull \subseteq Peers
  /\ receiver \in {"running", "looking", "fetching", "waiting", "sorting",
                   "terminated"}
  /\ ops \subseteq Kinds
  /\ links \in [Peers -> {"none", "linked", "spawned"}]
  /\ owner \in Peers \cup {NoTid}
  /\ sender \in [Peers -> {"idle", "blocked", "terminated"}]
  /\ outbox \in [Peers -> Kinds]
  /\ accepted \in 0..MaxAccepted
  /\ declined \subseteq 1..MaxAccepted /\ delivered \subseteq 1..MaxAccepted

(* m_putQueue, which decides whether get notifies, counts the threads that *)
(* are in m_notFull or on their way out of it.                             *)
PutQueueCounts == putQueue = Cardinality({p \in Peers : sender[p] = "blocked"})

(* The receiver never sleeps on something that would end its call: not on  *)
(* a message it wants, unless an operation of this call has declined it,   *)
(* nor on the end of its owner or of a linked thread, nor on a priority    *)
(* message, wherever each of them is.                                      *)
SleepsOnlyWithoutMatch ==
  putMsg # {} => /\ Urgent = <<>>
                 /\ \A m \in Pending :
                      /\ Wanted(m, ops) => m.kind \in Choosy /\ m.id \in declined
                      /\ ~Reported(m)

(* A standard message that an operation has taken, by returning or by      *)
(* throwing, is in no list any more: it is taken once, whatever order the  *)
(* operations, the next receives and the senders run in.  (An operation    *)
(* that declines is run on the message again.)                             *)
DeliveredOnce == \A m \in Pending : m.id \notin delivered

(* A mailbox with a limit holds at most twice as many user messages: while *)
(* the receiver has fetched messages that m_localMsgs does not count yet,  *)
(* senders can fill m_sharedBox a second time.                             *)
LargestLimit == CHOOSE n \in Limits : \A k \in Limits : k <= n
UserMessagesBounded ==
  0 \notin Limits /\ ~closed => UserMessages(Queue) <= 2 * LargestLimit

(* While the receiver sleeps and the limit stays what it is, a sender      *)
(* sleeps only if the mailbox is full.                                     *)
SendersSleepOnlyWhenFull == putMsg # {} /\ notFull # {} => MboxFull(localMsgs)

(* The mailbox is one queue in the order of acceptance, from which the     *)
(* oldest message of a kind is taken that an operation does not decline,   *)
(* and once only, and one queue of priority messages.                      *)
Abstract == INSTANCE Mailbox WITH queue <- Queue, urgent <- Urgent, taken <- delivered
ImplementsMailbox == Abstract!Spec

(* A priority message that was accepted before a standard one is not       *)
(* overtaken by it.                                                        *)
PriorityNotOvertaken ==
  [][\A m \in Pending : m.id \in delivered' =>
       \A n \in Range(Urgent) : n.id > m.id]_vars

(* A receive ends if there is something to end it. *)
ReceiveReturns ==
  (/\ receiver \notin {"running", "terminated"}
   /\ Urgent # <<>> \/ \E m \in Pending : Stops(m, ops))
  ~> receiver = "running"

(* While senders wait for room, messages go on being accepted, or the      *)
(* senders stop waiting because the crowding behaviour has changed, when   *)
(* the receiver goes on receiving and does not terminate.  Which sender    *)
(* gets the room is open.                                                  *)
SendersGetRoom ==
  \A n \in 0..MaxAccepted :
    (putQueue > 0 /\ accepted = n) ~> (accepted > n \/ putQueue = 0 \/ closed)

===============================================================================
