------------------------- MODULE ReadWriteMutexProofs -------------------------
(***************************************************************************)
(* ReadWriteMutex for every finite set of threads and both policies: the   *)
(* counters count, the mutex excludes, no wakeup is lost, and the methods  *)
(* implement the abstract lock.                                            *)
(***************************************************************************)
EXTENDS ReadWriteMutex, FiniteSetTheorems, TLAPS

(* The sleepers that a free mutex can have: what each unlock has to wake   *)
(* so that NoLostWakeup holds, one clause for each policy and side.        *)
NoWriterMeansReadersAwake ==
  /\ numActiveWriters = 0
  /\ policy = "PREFER_READERS" \/ numQueuedWriters = 0
  => readerQueue = {}

FreeMeansWriterAwake ==
  /\ Free /\ numQueuedWriters > 0
  /\ policy = "PREFER_WRITERS" \/ numQueuedReaders = 0
  => In("queuedWriter") \ writerQueue # {}

IInv == /\ TypeOK /\ CountersAgree /\ Exclusion
        /\ NoWriterMeansReadersAwake /\ FreeMeansWriterAwake

-------------------------------------------------------------------------------
(* Each set of threads in a control state is finite. *)
LEMMA InFinite ==
  ASSUME NEW s PROVE IsFiniteSet(In(s)) /\ Cardinality(In(s)) \in Nat
<1>1. In(s) \in SUBSET Threads BY DEF In
<1> QED BY <1>1, ThreadsAssumption, FS_Subset, FS_CardinalityType

(* A thread that goes from one control state to another leaves one set,    *)
(* enters one, and no other set changes.                                   *)
LEMMA Move ==
  ASSUME control \in [Threads -> Controls], NEW t \in Threads,
         NEW from \in Controls, NEW to \in Controls,
         from # to, control[t] = from, Goto(t, to)
  PROVE  /\ control' \in [Threads -> Controls]
         /\ In(from)' = In(from) \ {t}
         /\ In(to)' = In(to) \cup {t}
         /\ \A s \in Controls \ {from, to} : In(s)' = In(s)
         /\ Cardinality(In(from)') = Cardinality(In(from)) - 1
         /\ Cardinality(In(to)') = Cardinality(In(to)) + 1
<1>1. control' \in [Threads -> Controls] /\ control'[t] = to
      /\ \A u \in Threads \ {t} : control'[u] = control[u]
  BY DEF Goto
<1>2. In(from)' = In(from) \ {t} BY <1>1 DEF In
<1>3. In(to)' = In(to) \cup {t} BY <1>1 DEF In
<1>4. \A s \in Controls \ {from, to} : In(s)' = In(s) BY <1>1 DEF In
<1>5. t \in In(from) /\ t \notin In(to) BY DEF In
<1>6. Cardinality(In(from)') = Cardinality(In(from)) - 1
  BY <1>2, <1>5, InFinite, FS_RemoveElement
<1>7. Cardinality(In(to)') = Cardinality(In(to)) + 1
  BY <1>3, <1>5, InFinite, FS_AddElement
<1> QED BY <1>1, <1>2, <1>3, <1>4, <1>6, <1>7

(* A notification only takes threads out of a condition. *)
LEMMA NotifyShrinks ==
  ASSUME NEW q, NEW r \in AfterNotify(q)
  PROVE  r \subseteq q /\ (q # {} => \E t \in q : r = q \ {t})
BY DEF AfterNotify

-------------------------------------------------------------------------------
(* In the initial state nobody has called the mutex. *)
LEMMA InitInvariant == Init => IInv
<1> SUFFICES ASSUME Init PROVE IInv OBVIOUS
<1>1. \A s \in Controls \ {"outside"} : In(s) = {} BY DEF Init, In, Controls
<1>2. Cardinality({}) = 0 BY FS_EmptySet
<1>3. TypeOK BY <1>1 DEF Init, TypeOK, Controls
<1>4. CountersAgree BY <1>1, <1>2 DEF Init, CountersAgree, Controls
<1>5. Exclusion BY <1>1 DEF Exclusion, Controls
<1>6. NoWriterMeansReadersAwake /\ FreeMeansWriterAwake
  BY DEF Init, NoWriterMeansReadersAwake, FreeMeansWriterAwake
<1> QED BY <1>3, <1>4, <1>5, <1>6 DEF IInv

(* Every step keeps the invariant. *)
LEMMA StepInvariant == IInv /\ [Next]_vars => IInv'
<1> SUFFICES ASSUME IInv, [Next]_vars PROVE IInv' OBVIOUS
<1> USE DEF IInv, Controls
<1>a. \A s \in Controls : Cardinality(In(s)) \in Nat
                          /\ (Cardinality(In(s)) = 0 <=> In(s) = {})
  BY InFinite, FS_EmptySet
<1>1. CASE UNCHANGED vars
  BY <1>1 DEF vars, queues, readerCounts, writerCounts, TypeOK, CountersAgree,
     Exclusion, NoWriterMeansReadersAwake, FreeMeansWriterAwake, In, Free
<1>2. ASSUME NEW t \in Threads, ReaderLock(t) PROVE IInv'
  <2>1. CASE ShouldQueueReader
    <3>1. Goto(t, "queuedReader") /\ control[t] = "outside"
      BY <1>2, <2>1 DEF ReaderLock
    <3>2. /\ In("outside")' = In("outside") \ {t}
          /\ In("queuedReader")' = In("queuedReader") \cup {t}
          /\ \A s \in Controls \ {"outside", "queuedReader"} : In(s)' = In(s)
          /\ Cardinality(In("outside")') = Cardinality(In("outside")) - 1
          /\ Cardinality(In("queuedReader")') = Cardinality(In("queuedReader")) + 1
          /\ control' \in [Threads -> Controls]
      BY <3>1, Move DEF TypeOK
    <3>3. TypeOK'
      BY <1>2, <2>1, <3>2, <1>a DEF ReaderLock, TypeOK, CountersAgree,
         AfterWait, writerCounts
    <3>4. CountersAgree'
      BY <1>2, <2>1, <3>2 DEF ReaderLock, TypeOK, CountersAgree, writerCounts
    <3>5. Exclusion'
      BY <1>2, <2>1, <3>1, <3>2, <1>a DEF ReaderLock, TypeOK, CountersAgree,
         Exclusion, In, Goto, ShouldQueueReader
    <3>6. NoWriterMeansReadersAwake'
      BY <1>2, <2>1, <3>2, <1>a DEF ReaderLock, TypeOK,
         CountersAgree, NoWriterMeansReadersAwake, ShouldQueueReader,
         AfterWait, Policies, writerCounts
    <3>7. FreeMeansWriterAwake'
      BY <1>2, <2>1, <3>2, <1>a DEF ReaderLock, TypeOK,
         CountersAgree, FreeMeansWriterAwake, Free, ShouldQueueReader,
         Policies, AfterWait, writerCounts
    <3> QED BY <3>3, <3>4, <3>5, <3>6, <3>7
  <2>2. CASE ~ShouldQueueReader
    <3>1. Goto(t, "reading") /\ control[t] = "outside"
      BY <1>2, <2>2 DEF ReaderLock
    <3>2. /\ In("outside")' = In("outside") \ {t}
          /\ In("reading")' = In("reading") \cup {t}
          /\ \A s \in Controls \ {"outside", "reading"} : In(s)' = In(s)
          /\ Cardinality(In("outside")') = Cardinality(In("outside")) - 1
          /\ Cardinality(In("reading")') = Cardinality(In("reading")) + 1
          /\ control' \in [Threads -> Controls]
      BY <3>1, Move DEF TypeOK
    <3>3. TypeOK'
      BY <1>2, <2>2, <3>2, <1>a DEF ReaderLock, TypeOK, CountersAgree,
         AfterWait, writerCounts
    <3>4. CountersAgree'
      BY <1>2, <2>2, <3>2 DEF ReaderLock, TypeOK, CountersAgree, writerCounts
    <3>5. Exclusion'
      BY <1>2, <2>2, <3>1, <3>2, <1>a DEF ReaderLock, TypeOK, CountersAgree,
         Exclusion, In, Goto, ShouldQueueReader
    <3>6. NoWriterMeansReadersAwake'
      BY <1>2, <2>2, <3>2, <1>a DEF ReaderLock, TypeOK,
         CountersAgree, NoWriterMeansReadersAwake, ShouldQueueReader,
         Policies, writerCounts
    <3>7. FreeMeansWriterAwake'
      BY <1>2, <2>2, <3>2, <1>a DEF ReaderLock, TypeOK,
         CountersAgree, FreeMeansWriterAwake, Free, ShouldQueueReader,
         Policies, writerCounts
    <3> QED BY <3>3, <3>4, <3>5, <3>6, <3>7
  <2> QED BY <2>1, <2>2
<1>3. ASSUME NEW t \in Threads, ReaderRetry(t) PROVE IInv'
  <2>1. CASE ShouldQueueReader
    <3>1. /\ readerQueue' = readerQueue \cup {t}
          /\ t \in In("queuedReader") /\ control[t] = "queuedReader"
          /\ UNCHANGED <<policy, control, writerQueue, readerCounts, writerCounts>>
      BY <1>3, <2>1 DEF ReaderRetry, AfterWait, In, writerCounts
    <3>2. \A s \in Controls : In(s)' = In(s) BY <3>1 DEF In
    <3>3. TypeOK' /\ CountersAgree'
      BY <3>1, <3>2 DEF TypeOK, CountersAgree, readerCounts, writerCounts
    <3>4. Exclusion' BY <3>1, <3>2 DEF Exclusion
    <3>5. NoWriterMeansReadersAwake'
      BY <3>1, <2>1
        DEF NoWriterMeansReadersAwake, TypeOK, ShouldQueueReader, Policies,
              readerCounts, writerCounts
    <3>6. FreeMeansWriterAwake'
      BY <3>1, <3>2, <2>1
        DEF FreeMeansWriterAwake, Free, TypeOK, ShouldQueueReader, Policies,
              readerCounts, writerCounts
    <3> QED BY <3>3, <3>4, <3>5, <3>6
  <2>2. CASE ~ShouldQueueReader
    <3>1. Goto(t, "reading") /\ control[t] = "queuedReader"
      BY <1>3, <2>2 DEF ReaderRetry
    <3>2. /\ In("queuedReader")' = In("queuedReader") \ {t}
          /\ In("reading")' = In("reading") \cup {t}
          /\ \A s \in Controls \ {"queuedReader", "reading"} : In(s)' = In(s)
          /\ Cardinality(In("queuedReader")') = Cardinality(In("queuedReader")) - 1
          /\ Cardinality(In("reading")') = Cardinality(In("reading")) + 1
          /\ control' \in [Threads -> Controls]
      BY <3>1, Move DEF TypeOK
    <3>b. t \in In("queuedReader") BY <3>1 DEF In
    <3>3. TypeOK'
      BY <1>3, <2>2, <3>2, <1>a, <3>b DEF ReaderRetry, TypeOK, CountersAgree,
         AfterWait, writerCounts
    <3>4. CountersAgree'
      BY <1>3, <2>2, <3>2 DEF ReaderRetry, TypeOK, CountersAgree, writerCounts
    <3>5. Exclusion'
      BY <1>3, <2>2, <3>1, <3>2, <1>a DEF ReaderRetry, TypeOK, CountersAgree,
         Exclusion, In, Goto, ShouldQueueReader
    <3>6. NoWriterMeansReadersAwake'
      BY <1>3, <2>2, <3>2, <1>a DEF ReaderRetry, TypeOK,
         CountersAgree, NoWriterMeansReadersAwake, ShouldQueueReader,
         Policies, writerCounts
    <3>7. FreeMeansWriterAwake'
      BY <1>3, <2>2, <3>2, <1>a DEF ReaderRetry, TypeOK,
         CountersAgree, FreeMeansWriterAwake, Free, ShouldQueueReader,
         Policies, writerCounts
    <3> QED BY <3>3, <3>4, <3>5, <3>6, <3>7
  <2> QED BY <2>1, <2>2
<1>4. ASSUME NEW t \in Threads, ReaderTryLock(t) PROVE IInv'
  <2>1. Goto(t, "reading") /\ control[t] = "outside" BY <1>4 DEF ReaderTryLock
  <2>2. /\ In("outside")' = In("outside") \ {t}
        /\ In("reading")' = In("reading") \cup {t}
        /\ \A s \in Controls \ {"outside", "reading"} : In(s)' = In(s)
        /\ Cardinality(In("outside")') = Cardinality(In("outside")) - 1
        /\ Cardinality(In("reading")') = Cardinality(In("reading")) + 1
        /\ control' \in [Threads -> Controls]
    BY <2>1, Move DEF TypeOK
  <2>3. TypeOK'
    BY <1>4, <2>2, <1>a DEF ReaderTryLock, TypeOK, CountersAgree, AfterWait,
       queues, writerCounts
  <2>4. CountersAgree'
    BY <1>4, <2>2 DEF ReaderTryLock, TypeOK, CountersAgree, queues,
       writerCounts
  <2>5. Exclusion'
    BY <1>4, <2>1, <2>2, <1>a DEF ReaderTryLock, TypeOK, CountersAgree,
       Exclusion, In, Goto, ShouldQueueReader
  <2>6. NoWriterMeansReadersAwake'
    BY <1>4, <2>2, <1>a DEF ReaderTryLock, TypeOK,
       CountersAgree, NoWriterMeansReadersAwake, ShouldQueueReader, Policies,
       queues, writerCounts
  <2>7. FreeMeansWriterAwake'
    BY <1>4, <2>2, <1>a DEF ReaderTryLock, TypeOK,
       CountersAgree, FreeMeansWriterAwake, Free, ShouldQueueReader, Policies,
       queues, writerCounts
  <2> QED BY <2>3, <2>4, <2>5, <2>6, <2>7
<1>5. ASSUME NEW t \in Threads, ReaderUnlock(t) PROVE IInv'
  <2>1. Goto(t, "outside") /\ control[t] = "reading" BY <1>5 DEF ReaderUnlock
  <2>2. /\ In("reading")' = In("reading") \ {t}
        /\ In("outside")' = In("outside") \cup {t}
        /\ \A s \in Controls \ {"reading", "outside"} : In(s)' = In(s)
        /\ Cardinality(In("reading")') = Cardinality(In("reading")) - 1
        /\ Cardinality(In("outside")') = Cardinality(In("outside")) + 1
        /\ control' \in [Threads -> Controls]
    BY <2>1, Move DEF TypeOK
  <2>a. \/ writerQueue' = writerQueue
        \/ writerQueue' \in AfterNotify(writerQueue)
     BY <1>5 DEF ReaderUnlock
  <2>b. t \in In("reading") BY <2>1 DEF In
  <2>3. TypeOK'
    BY <1>5, <2>2, <1>a, <2>a, <2>b, NotifyShrinks DEF ReaderUnlock, TypeOK,
       CountersAgree, AfterWait, writerCounts
  <2>4. CountersAgree'
    BY <1>5, <2>2 DEF ReaderUnlock, TypeOK, CountersAgree, writerCounts
  <2>5. Exclusion'
    BY <1>5, <2>1, <2>2, <1>a DEF ReaderUnlock, TypeOK, CountersAgree,
       Exclusion, In, Goto
  <2>6. NoWriterMeansReadersAwake'
    BY <1>5, <2>2, <1>a DEF ReaderUnlock, TypeOK,
       CountersAgree, NoWriterMeansReadersAwake, Policies, writerCounts
  <2>7. FreeMeansWriterAwake'
    <3> SUFFICES ASSUME Free', numQueuedWriters' > 0,
                        policy' = "PREFER_WRITERS" \/ numQueuedReaders' = 0
                 PROVE  (In("queuedWriter") \ writerQueue)' # {}
      BY DEF FreeMeansWriterAwake
    <3>1. writerQueue' \in AfterNotify(writerQueue) /\ numQueuedWriters > 0
      BY <1>5 DEF ReaderUnlock, Free, TypeOK, writerCounts
    <3>2. In("queuedWriter") # {} /\ In("queuedWriter")' = In("queuedWriter")
      BY <3>1, <2>2, <1>a DEF TypeOK, CountersAgree
    <3> QED BY <3>1, <3>2, NotifyShrinks DEF TypeOK
  <2> QED BY <2>3, <2>4, <2>5, <2>6, <2>7
<1>6. ASSUME NEW t \in Threads, WriterLock(t) PROVE IInv'
  <2>1. CASE ShouldQueueWriter
    <3>1. Goto(t, "queuedWriter") /\ control[t] = "outside"
      BY <1>6, <2>1 DEF WriterLock
    <3>2. /\ In("outside")' = In("outside") \ {t}
          /\ In("queuedWriter")' = In("queuedWriter") \cup {t}
          /\ \A s \in Controls \ {"outside", "queuedWriter"} : In(s)' = In(s)
          /\ Cardinality(In("outside")') = Cardinality(In("outside")) - 1
          /\ Cardinality(In("queuedWriter")') = Cardinality(In("queuedWriter")) + 1
          /\ control' \in [Threads -> Controls]
      BY <3>1, Move DEF TypeOK
    <3>3. TypeOK'
      BY <1>6, <2>1, <3>2, <1>a DEF WriterLock, TypeOK, CountersAgree,
         AfterWait, readerCounts
    <3>4. CountersAgree'
      BY <1>6, <2>1, <3>2 DEF WriterLock, TypeOK, CountersAgree, readerCounts
    <3>5. Exclusion'
      BY <1>6, <2>1, <3>1, <3>2, <1>a DEF WriterLock, TypeOK, CountersAgree,
         Exclusion, In, Goto, ShouldQueueWriter
    <3>6. NoWriterMeansReadersAwake'
      BY <1>6, <2>1, <3>2, <1>a DEF WriterLock, TypeOK,
         CountersAgree, NoWriterMeansReadersAwake, ShouldQueueWriter,
         AfterWait, Policies, readerCounts
    <3>7. FreeMeansWriterAwake'
      BY <1>6, <2>1, <3>2, <1>a DEF WriterLock, TypeOK,
         CountersAgree, FreeMeansWriterAwake, Free, ShouldQueueWriter,
         Policies, AfterWait, readerCounts
    <3> QED BY <3>3, <3>4, <3>5, <3>6, <3>7
  <2>2. CASE ~ShouldQueueWriter
    <3>1. Goto(t, "writing") /\ control[t] = "outside"
      BY <1>6, <2>2 DEF WriterLock
    <3>2. /\ In("outside")' = In("outside") \ {t}
          /\ In("writing")' = In("writing") \cup {t}
          /\ \A s \in Controls \ {"outside", "writing"} : In(s)' = In(s)
          /\ Cardinality(In("outside")') = Cardinality(In("outside")) - 1
          /\ Cardinality(In("writing")') = Cardinality(In("writing")) + 1
          /\ control' \in [Threads -> Controls]
      BY <3>1, Move DEF TypeOK
    <3>3. TypeOK'
      BY <1>6, <2>2, <3>2, <1>a DEF WriterLock, TypeOK, CountersAgree,
         AfterWait, readerCounts
    <3>4. CountersAgree'
      BY <1>6, <2>2, <3>2 DEF WriterLock, TypeOK, CountersAgree, readerCounts
    <3>5. Exclusion'
      BY <1>6, <2>2, <3>1, <3>2, <1>a DEF WriterLock, TypeOK, CountersAgree,
         Exclusion, In, Goto, ShouldQueueWriter
    <3>6. NoWriterMeansReadersAwake'
      BY <1>6, <2>2, <3>2, <1>a DEF WriterLock, TypeOK,
         CountersAgree, NoWriterMeansReadersAwake, ShouldQueueWriter,
         Policies, readerCounts
    <3>7. FreeMeansWriterAwake'
      BY <1>6, <2>2, <3>2, <1>a DEF WriterLock, TypeOK,
         CountersAgree, FreeMeansWriterAwake, Free, ShouldQueueWriter,
         Policies, readerCounts
    <3> QED BY <3>3, <3>4, <3>5, <3>6, <3>7
  <2> QED BY <2>1, <2>2
<1>7. ASSUME NEW t \in Threads, WriterRetry(t) PROVE IInv'
  <2>1. CASE ShouldQueueWriter
    <3>1. /\ writerQueue' = writerQueue \cup {t}
          /\ t \in In("queuedWriter") /\ control[t] = "queuedWriter"
          /\ UNCHANGED <<policy, control, readerQueue, readerCounts, writerCounts>>
      BY <1>7, <2>1 DEF WriterRetry, AfterWait, In, readerCounts
    <3>2. \A s \in Controls : In(s)' = In(s) BY <3>1 DEF In
    <3>3. TypeOK' /\ CountersAgree'
      BY <3>1, <3>2 DEF TypeOK, CountersAgree, readerCounts, writerCounts
    <3>4. Exclusion' BY <3>1, <3>2 DEF Exclusion
    <3>5. NoWriterMeansReadersAwake'
      BY <3>1, <2>1
        DEF NoWriterMeansReadersAwake, TypeOK, ShouldQueueWriter, Policies,
              readerCounts, writerCounts
    <3>6. FreeMeansWriterAwake'
      BY <3>1, <3>2, <2>1
        DEF FreeMeansWriterAwake, Free, TypeOK, ShouldQueueWriter, Policies,
              readerCounts, writerCounts
    <3> QED BY <3>3, <3>4, <3>5, <3>6
  <2>2. CASE ~ShouldQueueWriter
    <3>1. Goto(t, "writing") /\ control[t] = "queuedWriter"
      BY <1>7, <2>2 DEF WriterRetry
    <3>2. /\ In("queuedWriter")' = In("queuedWriter") \ {t}
          /\ In("writing")' = In("writing") \cup {t}
          /\ \A s \in Controls \ {"queuedWriter", "writing"} : In(s)' = In(s)
          /\ Cardinality(In("queuedWriter")') = Cardinality(In("queuedWriter")) - 1
          /\ Cardinality(In("writing")') = Cardinality(In("writing")) + 1
          /\ control' \in [Threads -> Controls]
      BY <3>1, Move DEF TypeOK
    <3>b. t \in In("queuedWriter") BY <3>1 DEF In
    <3>3. TypeOK'
      BY <1>7, <2>2, <3>2, <1>a, <3>b DEF WriterRetry, TypeOK, CountersAgree,
         AfterWait, readerCounts
    <3>4. CountersAgree'
      BY <1>7, <2>2, <3>2 DEF WriterRetry, TypeOK, CountersAgree, readerCounts
    <3>5. Exclusion'
      BY <1>7, <2>2, <3>1, <3>2, <1>a DEF WriterRetry, TypeOK, CountersAgree,
         Exclusion, In, Goto, ShouldQueueWriter
    <3>6. NoWriterMeansReadersAwake'
      BY <1>7, <2>2, <3>2, <1>a DEF WriterRetry, TypeOK,
         CountersAgree, NoWriterMeansReadersAwake, ShouldQueueWriter,
         Policies, readerCounts
    <3>7. FreeMeansWriterAwake'
      BY <1>7, <2>2, <3>2, <1>a DEF WriterRetry, TypeOK,
         CountersAgree, FreeMeansWriterAwake, Free, ShouldQueueWriter,
         Policies, readerCounts
    <3> QED BY <3>3, <3>4, <3>5, <3>6, <3>7
  <2> QED BY <2>1, <2>2
<1>8. ASSUME NEW t \in Threads, WriterTryLock(t) PROVE IInv'
  <2>1. Goto(t, "writing") /\ control[t] = "outside" BY <1>8 DEF WriterTryLock
  <2>2. /\ In("outside")' = In("outside") \ {t}
        /\ In("writing")' = In("writing") \cup {t}
        /\ \A s \in Controls \ {"outside", "writing"} : In(s)' = In(s)
        /\ Cardinality(In("outside")') = Cardinality(In("outside")) - 1
        /\ Cardinality(In("writing")') = Cardinality(In("writing")) + 1
        /\ control' \in [Threads -> Controls]
    BY <2>1, Move DEF TypeOK
  <2>3. TypeOK'
    BY <1>8, <2>2, <1>a DEF WriterTryLock, TypeOK, CountersAgree, AfterWait,
       queues, readerCounts
  <2>4. CountersAgree'
    BY <1>8, <2>2 DEF WriterTryLock, TypeOK, CountersAgree, queues,
       readerCounts
  <2>5. Exclusion'
    BY <1>8, <2>1, <2>2, <1>a DEF WriterTryLock, TypeOK, CountersAgree,
       Exclusion, In, Goto, ShouldQueueWriter
  <2>6. NoWriterMeansReadersAwake'
    BY <1>8, <2>2, <1>a DEF WriterTryLock, TypeOK,
       CountersAgree, NoWriterMeansReadersAwake, ShouldQueueWriter, Policies,
       queues, readerCounts
  <2>7. FreeMeansWriterAwake'
    BY <1>8, <2>2, <1>a DEF WriterTryLock, TypeOK,
       CountersAgree, FreeMeansWriterAwake, Free, ShouldQueueWriter, Policies,
       queues, readerCounts
  <2> QED BY <2>3, <2>4, <2>5, <2>6, <2>7
<1>9. ASSUME NEW t \in Threads, WriterUnlock(t) PROVE IInv'
  <2>1. Goto(t, "outside") /\ control[t] = "writing" BY <1>9 DEF WriterUnlock
  <2>2. /\ In("writing")' = In("writing") \ {t}
        /\ In("outside")' = In("outside") \cup {t}
        /\ \A s \in Controls \ {"writing", "outside"} : In(s)' = In(s)
        /\ Cardinality(In("writing")') = Cardinality(In("writing")) - 1
        /\ Cardinality(In("outside")') = Cardinality(In("outside")) + 1
        /\ control' \in [Threads -> Controls]
    BY <2>1, Move DEF TypeOK
  <2>a. \/ writerQueue' = writerQueue
        \/ writerQueue' \in AfterNotify(writerQueue)
     BY <1>9 DEF WriterUnlock
  <2>b. t \in In("writing") BY <2>1 DEF In
  <2>3. TypeOK'
    BY <1>9, <2>2, <1>a, <2>a, <2>b, NotifyShrinks DEF WriterUnlock, TypeOK,
       CountersAgree, AfterWait, AfterNotifyAll, readerCounts
  <2>4. CountersAgree'
    BY <1>9, <2>2 DEF WriterUnlock, TypeOK, CountersAgree, readerCounts
  <2>5. Exclusion'
    BY <1>9, <2>1, <2>2, <1>a DEF WriterUnlock, TypeOK, CountersAgree,
       Exclusion, In, Goto
  <2>6. NoWriterMeansReadersAwake'
    BY <1>9, <2>2, <1>a DEF WriterUnlock, TypeOK,
       CountersAgree, NoWriterMeansReadersAwake, AfterNotifyAll, WakeReaders,
       Policies, readerCounts
  <2>7. FreeMeansWriterAwake'
    <3> SUFFICES ASSUME Free', numQueuedWriters' > 0,
                        policy' = "PREFER_WRITERS" \/ numQueuedReaders' = 0
                 PROVE  (In("queuedWriter") \ writerQueue)' # {}
      BY DEF FreeMeansWriterAwake
    <3>1. writerQueue' \in AfterNotify(writerQueue) /\ numQueuedWriters > 0
      BY <1>9 DEF WriterUnlock, Free, TypeOK, WakeWriter, readerCounts
    <3>2. In("queuedWriter") # {} /\ In("queuedWriter")' = In("queuedWriter")
      BY <3>1, <2>2, <1>a DEF TypeOK, CountersAgree
    <3> QED BY <3>1, <3>2, NotifyShrinks DEF TypeOK
  <2> QED BY <2>3, <2>4, <2>5, <2>6, <2>7
<1>10. ASSUME NEW t \in Threads, SpuriousWakeup(t) PROVE IInv'
  BY <1>10 DEF SpuriousWakeup, TypeOK, CountersAgree, Exclusion, In, Free,
     NoWriterMeansReadersAwake, FreeMeansWriterAwake, readerCounts,
           writerCounts
<1> QED BY <1>1, <1>2, <1>3, <1>4, <1>5, <1>6, <1>7, <1>8, <1>9, <1>10 DEF Next

LEMMA Invariant == Spec => []IInv
BY InitInvariant, StepInvariant, PTL DEF Spec

-------------------------------------------------------------------------------
(* The state of the mutex always has its type. *)
THEOREM TypeCorrect == Spec => []TypeOK
<1>1. IInv => TypeOK BY DEF IInv
<1> QED BY <1>1, Invariant, PTL

(* The counters of rwmutex.d always count the threads that are queued and  *)
(* active.                                                                 *)
THEOREM Counting == Spec => []CountersAgree
<1>1. IInv => CountersAgree BY DEF IInv
<1> QED BY <1>1, Invariant, PTL

(* A writer never shares the mutex. *)
THEOREM MutualExclusion == Spec => []Exclusion
<1>1. IInv => Exclusion BY DEF IInv
<1> QED BY <1>1, Invariant, PTL

(* A free mutex with somebody queued has somebody awake who gets in. *)
LEMMA AwakeWhenFree == IInv => NoLostWakeup
<1> SUFFICES ASSUME IInv, Free, In("queuedReader") \cup In("queuedWriter") # {}
             PROVE  \/ \E t \in In("queuedReader") \ readerQueue :
                         ~ShouldQueueReader
                    \/ \E t \in In("queuedWriter") \ writerQueue :
                         ~ShouldQueueWriter
  BY DEF NoLostWakeup
<1> USE DEF IInv, TypeOK, CountersAgree, Free
<1>1. /\ numQueuedReaders = 0 <=> In("queuedReader") = {}
      /\ numQueuedWriters = 0 <=> In("queuedWriter") = {}
  BY InFinite, FS_EmptySet
<1>2. CASE policy = "PREFER_READERS"
  <2>1. readerQueue = {} BY <1>2 DEF NoWriterMeansReadersAwake
  <2>2. CASE In("queuedReader") # {}
    BY <1>2, <2>1, <2>2 DEF ShouldQueueReader
  <2>3. CASE In("queuedReader") = {}
    BY <1>1, <1>2, <2>3 DEF FreeMeansWriterAwake, ShouldQueueWriter
  <2> QED BY <2>2, <2>3
<1>3. CASE policy = "PREFER_WRITERS"
  <2>1. CASE In("queuedWriter") # {}
    BY <1>1, <1>3, <2>1 DEF FreeMeansWriterAwake, ShouldQueueWriter
  <2>2. CASE In("queuedWriter") = {}
    BY <1>1, <1>3, <2>2 DEF NoWriterMeansReadersAwake, ShouldQueueReader
  <2> QED BY <2>1, <2>2
<1> QED BY <1>2, <1>3 DEF Policies

(* No order of lock, tryLock, unlock and spurious wakeups loses a wakeup. *)
THEOREM NoLostWakeups == Spec => []NoLostWakeup
BY Invariant, AwakeWhenFree, PTL

-------------------------------------------------------------------------------
LEMMA InitRefines == Init => Abstract!Init
BY DEF Init, Abstract!Init, In

(* A step maps to a step of the abstract lock or changes nobody's hold. *)
LEMMA StepRefines == IInv /\ [Next]_vars => [Abstract!Next]_Abstract!vars
<1> SUFFICES ASSUME IInv, [Next]_vars
             PROVE  Abstract!Next \/ UNCHANGED <<In("reading"), In("writing")>>
  BY DEF Abstract!vars
<1> USE DEF IInv, Controls
<1>a. /\ numActiveReaders = 0 <=> In("reading") = {}
      /\ numActiveWriters = 0 <=> In("writing") = {}
      /\ numActiveReaders >= 0 /\ numActiveWriters >= 0
  BY InFinite, FS_EmptySet DEF CountersAgree, TypeOK
<1>1. ASSUME NEW t \in Threads, NEW from \in {"outside", "queuedReader"},
             control[t] = from, Goto(t, "reading"), ~ShouldQueueReader
      PROVE  Abstract!StartReading(t)
  <2>1. /\ In("reading")' = In("reading") \cup {t}
        /\ In("writing")' = In("writing")
    BY <1>1, Move DEF TypeOK
  <2>2. t \notin In("reading") /\ In("writing") = {}
    BY <1>1, <1>a DEF In, ShouldQueueReader, TypeOK
  <2> QED BY <2>1, <2>2 DEF Abstract!StartReading
<1>2. ASSUME NEW t \in Threads, NEW from \in {"outside", "queuedWriter"},
             control[t] = from, Goto(t, "writing"), ~ShouldQueueWriter
      PROVE  Abstract!StartWriting(t)
  <2>1. /\ In("writing")' = In("writing") \cup {t}
        /\ In("reading")' = In("reading")
    BY <1>2, Move DEF TypeOK
  <2>2. In("reading") = {} /\ In("writing") = {}
    BY <1>2, <1>a DEF ShouldQueueWriter, TypeOK
  <2> QED BY <2>1, <2>2 DEF Abstract!StartWriting
<1>3. ASSUME NEW t \in Threads, NEW from \in {"reading", "writing"},
             control[t] = from, Goto(t, "outside")
      PROVE  Abstract!Release(t)
  <2>1. control' = [control EXCEPT ![t] = "outside"]
        /\ control \in [Threads -> Controls]
    BY <1>3 DEF Goto, TypeOK
  <2>2. t \in In("reading") \cup In("writing") BY <1>3 DEF In
  <2>3. /\ In("reading")' = In("reading") \ {t}
        /\ In("writing")' = In("writing") \ {t}
    BY <2>1 DEF In
  <2> QED BY <2>2, <2>3 DEF Abstract!Release
<1>4. ASSUME NEW t \in Threads, NEW to \in {"queuedReader", "queuedWriter"},
             control[t] = "outside", Goto(t, to)
      PROVE  UNCHANGED <<In("reading"), In("writing")>>
  BY <1>4, Move DEF TypeOK
<1>5. ASSUME UNCHANGED control
      PROVE  UNCHANGED <<In("reading"), In("writing")>>
  BY <1>5 DEF In
<1>6. ASSUME NEW t \in Threads,
             \/ ReaderLock(t) \/ ReaderRetry(t) \/ ReaderTryLock(t)
             \/ ReaderUnlock(t)
      PROVE  Abstract!Next \/ UNCHANGED <<In("reading"), In("writing")>>
  BY <1>6, <1>1, <1>3, <1>4, <1>5
     DEF ReaderLock, ReaderRetry, ReaderTryLock, ReaderUnlock, Abstract!Next
<1>7. ASSUME NEW t \in Threads,
             \/ WriterLock(t) \/ WriterRetry(t) \/ WriterTryLock(t)
             \/ WriterUnlock(t)
      PROVE  Abstract!Next \/ UNCHANGED <<In("reading"), In("writing")>>
  BY <1>7, <1>2, <1>3, <1>4, <1>5
     DEF WriterLock, WriterRetry, WriterTryLock, WriterUnlock, Abstract!Next
<1>8. CASE (\E t \in Threads : SpuriousWakeup(t)) \/ UNCHANGED vars
  BY <1>8, <1>5 DEF SpuriousWakeup, vars
<1> QED BY <1>6, <1>7, <1>8 DEF Next

(* The methods implement the lock that the class comment promises. *)
THEOREM Implements == Spec => ImplementsReadWriteLock
<1>1. Spec => Abstract!Init /\ [][Abstract!Next]_Abstract!vars
  BY Invariant, InitRefines, StepRefines, PTL DEF Spec
<1> QED BY <1>1 DEF ImplementsReadWriteLock, Abstract!Spec
===============================================================================
