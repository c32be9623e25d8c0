---------------------------- MODULE ReadWriteMutex ----------------------------
(***************************************************************************)
(* core.sync.rwmutex.ReadWriteMutex: readers share the mutex, a writer     *)
(* excludes everybody, and the policy says who goes first when both wait.  *)
(*                                                                         *)
(* Every method runs under m_commonMutex and lets go of it only in         *)
(* Condition.wait, so the code between two waits is one step here.  The    *)
(* four counters are the code's; control[t] says which method thread t is  *)
(* in, and readerQueue and writerQueue are the threads asleep in the two   *)
(* conditions.  A queued thread that is not asleep has been notified (or   *)
(* woke up by itself) and will test its loop condition again.              *)
(***************************************************************************)
EXTENDS Integers, FiniteSets, PosixCondition

CONSTANT Threads   \* the threads that use the mutex

ASSUME ThreadsAssumption == IsFiniteSet(Threads)

VARIABLES
  policy,             \* m_policy, which the mutex was created with
  control,            \* what each thread is doing
  readerQueue,        \* threads asleep in m_readerQueue
  writerQueue,        \* threads asleep in m_writerQueue
  numQueuedReaders,
  numActiveReaders,
  numQueuedWriters,
  numActiveWriters

queues == <<readerQueue, writerQueue>>
readerCounts == <<numQueuedReaders, numActiveReaders>>
writerCounts == <<numQueuedWriters, numActiveWriters>>
vars == <<policy, control, queues, readerCounts, writerCounts>>

Policies == {"PREFER_READERS", "PREFER_WRITERS"}

Controls == {"outside", "queuedReader", "reading", "queuedWriter", "writing"}

(* The threads in one of the control states. *)
In(state) == {t \in Threads : control[t] = state}

Goto(t, state) == control' = [control EXCEPT ![t] = state]

-------------------------------------------------------------------------------
(* Seeded faults: see "mutants" in PROJECT.json. *)
ShouldQueueReader_IgnoringPolicy == numActiveWriters > 0

(* Reader.shouldQueueReader *)
ShouldQueueReader ==
  \/ numActiveWriters > 0
  \/ policy = "PREFER_WRITERS" /\ numQueuedWriters > 0

ShouldQueueWriter_IgnoringReaders == numActiveWriters > 0
ShouldQueueWriter_IgnoringPolicy == numActiveWriters > 0 \/ numActiveReaders > 0

(* Writer.shouldQueueWriter *)
ShouldQueueWriter ==
  \/ numActiveWriters > 0
  \/ numActiveReaders > 0
  \/ policy = "PREFER_READERS" /\ numQueuedReaders > 0

Init ==
  /\ policy \in Policies
  /\ control = [t \in Threads |-> "outside"]
  /\ readerQueue = {} /\ writerQueue = {}
  /\ numQueuedReaders = 0 /\ numActiveReaders = 0
  /\ numQueuedWriters = 0 /\ numActiveWriters = 0

-------------------------------------------------------------------------------
(* Reader.lock up to its first wait, or to its end.  The increment and the *)
(* decrement of m_numQueuedReaders cancel when the caller does not wait.   *)
ReaderLock(t) ==
  /\ control[t] = "outside"
  /\ \/ /\ ShouldQueueReader
        /\ Goto(t, "queuedReader")
        /\ numQueuedReaders' = numQueuedReaders + 1
        /\ readerQueue' = AfterWait(readerQueue, t)
        /\ UNCHANGED numActiveReaders
     \/ /\ ~ShouldQueueReader
        /\ Goto(t, "reading")
        /\ numActiveReaders' = numActiveReaders + 1
        /\ UNCHANGED <<numQueuedReaders, readerQueue>>
  /\ UNCHANGED <<policy, writerQueue, writerCounts>>

(* Reader.lock from a return of wait to the next wait, or to its end. *)
ReaderRetry(t) ==
  /\ control[t] = "queuedReader"
  /\ t \notin readerQueue
  /\ \/ /\ ShouldQueueReader
        /\ readerQueue' = AfterWait(readerQueue, t)
        /\ UNCHANGED <<control, readerCounts>>
     \/ /\ ~ShouldQueueReader
        /\ Goto(t, "reading")
        /\ numActiveReaders' = numActiveReaders + 1
        /\ numQueuedReaders' = numQueuedReaders - 1
        /\ UNCHANGED readerQueue
  /\ UNCHANGED <<policy, writerQueue, writerCounts>>

(* Reader.tryLock when it returns true; a false return changes nothing. *)
ReaderTryLock(t) ==
  /\ control[t] = "outside"
  /\ ~ShouldQueueReader
  /\ Goto(t, "reading")
  /\ numActiveReaders' = numActiveReaders + 1
  /\ UNCHANGED <<policy, queues, numQueuedReaders, writerCounts>>

(* Reader.unlock: the last reader out wakes one writer. *)
ReaderUnlock(t) ==
  /\ control[t] = "reading"
  /\ Goto(t, "outside")
  /\ numActiveReaders' = numActiveReaders - 1
  /\ writerQueue' \in IF numActiveReaders' < 1 /\ numQueuedWriters > 0
                      THEN AfterNotify(writerQueue) ELSE {writerQueue}
  /\ UNCHANGED <<policy, readerQueue, numQueuedReaders, writerCounts>>

-------------------------------------------------------------------------------
(* Writer.lock up to its first wait, or to its end. *)
WriterLock(t) ==
  /\ control[t] = "outside"
  /\ \/ /\ ShouldQueueWriter
        /\ Goto(t, "queuedWriter")
        /\ numQueuedWriters' = numQueuedWriters + 1
        /\ writerQueue' = AfterWait(writerQueue, t)
        /\ UNCHANGED numActiveWriters
     \/ /\ ~ShouldQueueWriter
        /\ Goto(t, "writing")
        /\ numActiveWriters' = numActiveWriters + 1
        /\ UNCHANGED <<numQueuedWriters, writerQueue>>
  /\ UNCHANGED <<policy, readerQueue, readerCounts>>

(* Writer.lock from a return of wait to the next wait, or to its end. *)
WriterRetry(t) ==
  /\ control[t] = "queuedWriter"
  /\ t \notin writerQueue
  /\ \/ /\ ShouldQueueWriter
        /\ writerQueue' = AfterWait(writerQueue, t)
        /\ UNCHANGED <<control, writerCounts>>
     \/ /\ ~ShouldQueueWriter
        /\ Goto(t, "writing")
        /\ numActiveWriters' = numActiveWriters + 1
        /\ numQueuedWriters' = numQueuedWriters - 1
        /\ UNCHANGED writerQueue
  /\ UNCHANGED <<policy, readerQueue, readerCounts>>

(* Writer.tryLock when it returns true; a false return changes nothing. *)
WriterTryLock(t) ==
  /\ control[t] = "outside"
  /\ ~ShouldQueueWriter
  /\ Goto(t, "writing")
  /\ numActiveWriters' = numActiveWriters + 1
  /\ UNCHANGED <<policy, queues, readerCounts, numQueuedWriters>>

(* Seeded fault: readers defer to writers, whatever the policy. *)
WakeReaders_Deferring == numQueuedReaders > 0 /\ numQueuedWriters = 0

(* Whom Writer.unlock wakes: the preferred side when it has somebody       *)
(* queued, else the other side; all the readers, or one writer.            *)
WakeReaders ==
  /\ numQueuedReaders > 0
  /\ policy = "PREFER_READERS" \/ numQueuedWriters = 0
WakeWriter ==
  /\ numQueuedWriters > 0
  /\ policy = "PREFER_WRITERS" \/ numQueuedReaders = 0

(* Writer.unlock *)
WriterUnlock(t) ==
  /\ control[t] = "writing"
  /\ Goto(t, "outside")
  /\ numActiveWriters' = numActiveWriters - 1
  /\ readerQueue' = IF numActiveWriters' < 1 /\ WakeReaders
                    THEN AfterNotifyAll(readerQueue) ELSE readerQueue
  /\ writerQueue' \in IF numActiveWriters' < 1 /\ WakeWriter
                      THEN AfterNotify(writerQueue) ELSE {writerQueue}
  /\ UNCHANGED <<policy, readerCounts, numQueuedWriters>>

-------------------------------------------------------------------------------
(* A wait that returns without a notification. *)
SpuriousWakeup(t) ==
  /\ t \in readerQueue \cup writerQueue
  /\ readerQueue' = readerQueue \ {t}
  /\ writerQueue' = writerQueue \ {t}
  /\ UNCHANGED <<policy, control, readerCounts, writerCounts>>

Next ==
  \E t \in Threads :
    \/ ReaderLock(t) \/ ReaderRetry(t) \/ ReaderTryLock(t) \/ ReaderUnlock(t)
    \/ WriterLock(t) \/ WriterRetry(t) \/ WriterTryLock(t) \/ WriterUnlock(t)
    \/ SpuriousWakeup(t)

Spec == Init /\ [][Next]_vars

(* A thread that has been woken gets m_commonMutex and runs, and a thread  *)
(* that holds the lock gives it back.  Nobody has to ask for the lock, and *)
(* nothing is assumed of a wait that nobody notifies.                      *)
Fairness ==
  \A t \in Threads : /\ WF_vars(ReaderRetry(t)) /\ WF_vars(WriterRetry(t))
                     /\ WF_vars(ReaderUnlock(t)) /\ WF_vars(WriterUnlock(t))

FairSpec == Spec /\ Fairness

-------------------------------------------------------------------------------
(* The type of the state. *)
TypeOK ==
  /\ policy \in Policies
  /\ control \in [Threads -> Controls]
  /\ readerQueue \subseteq In("queuedReader")
  /\ writerQueue \subseteq In("queuedWriter")
  /\ {numQueuedReaders, numActiveReaders} \subseteq Nat
  /\ {numQueuedWriters, numActiveWriters} \subseteq Nat

(* The four counters, which are all that the lock and unlock methods look  *)
(* at, count the threads they are meant to count, whatever path (waiting,  *)
(* not waiting, tryLock) each thread took.                                 *)
CountersAgree ==
  /\ numQueuedReaders = Cardinality(In("queuedReader"))
  /\ numActiveReaders = Cardinality(In("reading"))
  /\ numQueuedWriters = Cardinality(In("queuedWriter"))
  /\ numActiveWriters = Cardinality(In("writing"))

(* Nobody shares the mutex with a writer: neither a reader nor a second    *)
(* writer, in whatever order lock, tryLock and the wakeups happen.         *)
Exclusion ==
  \A w \in In("writing") : \A t \in Threads \ {w} :
    control[t] \notin {"reading", "writing"}

Free == numActiveReaders = 0 /\ numActiveWriters = 0

(* No wakeup is lost: when the mutex is free and somebody is queued, some  *)
(* queued thread is awake and its loop condition lets it in.               *)
NoLostWakeup ==
  Free /\ In("queuedReader") \cup In("queuedWriter") # {} =>
    \/ \E t \in In("queuedReader") \ readerQueue : ~ShouldQueueReader
    \/ \E t \in In("queuedWriter") \ writerQueue : ~ShouldQueueWriter

(* PREFER_READERS: every queued reader gets in, also when writers keep     *)
(* asking ("Readers get preference", rwmutex.d line 70).                   *)
QueuedReaderEnters ==
  \A t \in Threads :
    (policy = "PREFER_READERS" /\ control[t] = "queuedReader")
    ~> control[t] = "reading"

(* PREFER_WRITERS: while a writer is queued, readers that keep asking do   *)
(* not keep writers out ("Writers get preference", rwmutex.d line 71).     *)
(* Which writer gets in is open: one that has just arrived may overtake.   *)
SomeWriterEnters ==
  (policy = "PREFER_WRITERS" /\ numQueuedWriters > 0) ~> numActiveWriters > 0

(* The methods implement the abstract readers-writer lock. *)
Abstract == INSTANCE ReadWriteLock
              WITH readers <- In("reading"), writers <- In("writing")
ImplementsReadWriteLock == Abstract!Spec
===============================================================================
