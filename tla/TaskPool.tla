------------------------------- MODULE TaskPool -------------------------------
(***************************************************************************)
(* std.parallelism.TaskPool with the Tasks that are put on it: worker      *)
(* threads take tasks from the front of a doubly linked queue, and threads *)
(* that need a result take their task out of the middle of it and run it   *)
(* themselves, or wait until whoever runs it is through.                   *)
(*                                                                         *)
(* What runs under queueMutex or waiterMutex is one step; taskStatus and   *)
(* status are also read and written without them, in steps of their own.   *)
(* What a task does is one step that ends; it does not call the pool.      *)
(***************************************************************************)
EXTENDS Integers, FiniteSets, SequencesExt, PosixCondition

CONSTANTS
  Workers,   \* the threads of the pool
  Clients,   \* the other threads
  Tasks,     \* the Task objects, each put at most once
  Null,
  Forces     \* the pairs <<c, t>> such that client c may force task t

Threads == Workers \cup Clients

ASSUME ThreadsAssumption == IsFiniteSet(Threads) /\ Workers \cap Clients = {}
ASSUME TasksAssumption == IsFiniteSet(Tasks) /\ Null \notin Tasks
ASSUME ForcesAssumption == Forces \subseteq Clients \X Tasks

VARIABLES
  head, tail, next, prev,   \* the queue: AbstractTask pointers
  taskStatus,               \* [Tasks -> "notStarted", "inProgress", "done"]
  status,                   \* of the pool: "running", "finishing", "stopNow"
  pooled,                   \* the tasks whose pool is set
  putting,                  \* of these, the ones a client has still to queue
  sleepers,                 \* threads asleep in workerCondition
  waiters,                  \* threads asleep in waiterCondition
  pc,                       \* where each thread is
  call,                     \* the operation it is in
  goal,                     \* the task it forces
  job,                      \* the task it runs
  runs,                     \* how often each task has been run
  stopped                   \* stop has been called

queue == <<head, tail, next, prev>>
puts == <<pooled, putting>>
vars == <<queue, taskStatus, status, puts, sleepers, waiters, pc, call, goal,
          job, runs, stopped>>

At(t, where) == pc[t] = where
Goto(t, where) == pc' = [pc EXCEPT ![t] = where]
Enter(c, op, where) ==
  call' = [call EXCEPT ![c] = op] /\ pc' = [pc EXCEPT ![c] = where]

Mark(t, s) == taskStatus' = [taskStatus EXCEPT ![t] = s]

-------------------------------------------------------------------------------
(* The queue, with queueMutex held.                                        *)

(* popNoSync of a queue that is not empty.  tail stays what it was. *)
PopNoSync ==
  /\ head' = next[head]
  /\ next' = [next EXCEPT ![head] = Null]
  /\ prev' = [t \in Tasks |-> IF t \in {head, next[head]} THEN Null ELSE prev[t]]
  /\ UNCHANGED tail

(* Seeded fault: the element before the one removed keeps its successor. *)
DeleteItemNoSync_KeepsNext(t) ==
  IF t = head THEN PopNoSync
  ELSE /\ tail' = IF t = tail THEN prev[t] ELSE tail
       /\ next' = [next EXCEPT ![t] = Null]
       /\ prev' = [u \in Tasks |-> IF u = t THEN Null
                                   ELSE IF u = next[t] THEN prev[t]
                                   ELSE prev[u]]
       /\ UNCHANGED head

(* deleteItemNoSync: a task that was never queued is in no list, and its   *)
(* pointers are null already.                                              *)
DeleteItemNoSync(t) ==
  IF t = head THEN PopNoSync
  ELSE /\ tail' = IF t = tail THEN prev[t] ELSE tail
       /\ next' = [u \in Tasks |-> IF u = t THEN Null
                                   ELSE IF u = prev[t] THEN next[t]
                                   ELSE next[u]]
       /\ prev' = [u \in Tasks |-> IF u = t THEN Null
                                   ELSE IF u = next[t] THEN prev[t]
                                   ELSE prev[u]]
       /\ UNCHANGED head

(* abstractPutNoSync, and abstractPutGroupNoSync of a linked group: the    *)
(* sequence g of tasks is put at the end.                                  *)
Enqueue(g) ==
  LET before == IF head = Null THEN Null ELSE tail
      Index(t) == CHOOSE i \in DOMAIN g : g[i] = t
  IN  /\ head' = IF head = Null THEN g[1] ELSE head
      /\ tail' = g[Len(g)]
      /\ next' = [t \in Tasks |->
                    IF t \in Range(Front(g)) THEN g[Index(t) + 1]
                    ELSE IF t = Last(g) THEN Null
                    ELSE IF t = before THEN g[1] ELSE next[t]]
      /\ prev' = [t \in Tasks |->
                    IF t \in Range(Tail(g)) THEN g[Index(t) - 1]
                    ELSE IF t = g[1] THEN before ELSE prev[t]]

-------------------------------------------------------------------------------
(* Operations of the clients.                                              *)

(* put of one task, and the group that parallel foreach puts, set the pool *)
(* of the tasks before they take queueMutex.                               *)
SetPool(c, g) ==
  /\ At(c, "idle")
  /\ Range(g) \cap pooled = {}
  /\ pooled' = pooled \cup Range(g)
  /\ putting' = [putting EXCEPT ![c] = g]
  /\ Goto(c, "put")
  /\ UNCHANGED <<queue, taskStatus, status, sleepers, waiters, call, goal, job,
                 runs, stopped>>

(* Seeded fault: the workers are not notified. *)
PutNoSync_WithoutNotify(c, woken) ==
  /\ At(c, "put") /\ Goto(c, "idle")
  /\ putting' = [putting EXCEPT ![c] = <<>>]
  /\ IF status = "running" THEN Enqueue(putting[c]) ELSE UNCHANGED queue
  /\ UNCHANGED <<taskStatus, status, pooled, sleepers, waiters, call, goal, job,
                 runs, stopped>>

(* Seeded fault: a pool that is finishing accepts tasks. *)
PutNoSync_WhileFinishing(c, woken) ==
  /\ At(c, "put") /\ Goto(c, "idle")
  /\ putting' = [putting EXCEPT ![c] = <<>>]
  /\ Enqueue(putting[c]) /\ sleepers' \in woken
  /\ UNCHANGED <<taskStatus, status, pooled, waiters, call, goal, job, runs, stopped>>

(* With queueMutex held: the tasks are queued and workers are woken, one   *)
(* of the sets woken is left asleep.  After finish or stop an Error is     *)
(* thrown, and the tasks' pool is set all the same.                        *)
PutNoSync(c, woken) ==
  /\ At(c, "put") /\ Goto(c, "idle")
  /\ putting' = [putting EXCEPT ![c] = <<>>]
  /\ IF status = "running"
     THEN Enqueue(putting[c]) /\ sleepers' \in woken
     ELSE UNCHANGED <<queue, sleepers>>
  /\ UNCHANGED <<taskStatus, status, pooled, waiters, call, goal, job, runs, stopped>>

(* The group may be of one task; put of a task never has more. *)
Put(c) == Len(putting[c]) = 1 /\ PutNoSync(c, AfterNotify(sleepers))
PutGroup(c) == PutNoSync(c, {AfterNotifyAll(sleepers)})

(* The tasks whose put is under way. *)
BeingPut == UNION {Range(putting[c]) : c \in Clients}

(* spinForce, yieldForce and workForce: tryDeleteExecute takes the task    *)
(* out of the queue if it is not started.  Nobody is given a task to force *)
(* before its put has returned.                                            *)
ForceTask(c, t, op) ==
  /\ At(c, "idle")
  /\ t \in pooled \ BeingPut /\ <<c, t>> \in Forces
  /\ goal' = [goal EXCEPT ![c] = t]
  /\ IF taskStatus[t] = "notStarted"
     THEN /\ Mark(t, "inProgress") /\ DeleteItemNoSync(t)
          /\ job' = [job EXCEPT ![c] = t]
          /\ Enter(c, op, "own")
     ELSE UNCHANGED <<taskStatus, queue, job>> /\ Enter(c, op, "force")
  /\ UNCHANGED <<status, puts, sleepers, waiters, runs, stopped>>

(* tryDeleteExecute marks the task that it has run as done.  It does not   *)
(* notify those who wait for it.                                           *)
OwnDone(c) ==
  /\ At(c, "ownRun")
  /\ Mark(job[c], "done")
  /\ Goto(c, "force")
  /\ UNCHANGED <<queue, status, puts, sleepers, waiters, call, goal, job, runs,
                 stopped>>

(* The three ways to force a task return when it is done. *)
ForceDone(c) ==
  /\ At(c, "force")
  /\ taskStatus[goal[c]] = "done"
  /\ Goto(c, "idle")
  /\ UNCHANGED <<queue, taskStatus, status, puts, sleepers, waiters, call, goal,
                 job, runs, stopped>>

(* Seeded fault: the task is not looked at again under waiterMutex. *)
YieldForce_WithoutTest(c) ==
  /\ At(c, "force") /\ call[c] = "yieldForce"
  /\ Goto(c, "await")
  /\ waiters' = AfterWait(waiters, c)
  /\ UNCHANGED <<queue, taskStatus, status, puts, sleepers, call, goal, job,
                 runs, stopped>>

(* yieldForce waits if it is not; spinForce tests again. *)
YieldForce(c) ==
  /\ At(c, "force") /\ call[c] = "yieldForce"
  /\ taskStatus[goal[c]] # "done"
  /\ Goto(c, "await")
  /\ waiters' = AfterWait(waiters, c)
  /\ UNCHANGED <<queue, taskStatus, status, puts, sleepers, call, goal, job,
                 runs, stopped>>

(* A return from waitUntilCompletion: taskStatus is tested again. *)
YieldAgain(c) ==
  /\ At(c, "await") /\ c \notin waiters
  /\ Goto(c, "force")
  /\ UNCHANGED <<queue, taskStatus, status, puts, sleepers, waiters, call,
                 goal, job, runs, stopped>>

(* workForce goes to look for something else to do, and calls yieldForce   *)
(* when there is nothing.                                                  *)
WorkForce(c) ==
  /\ At(c, "force") /\ call[c] = "workForce"
  /\ taskStatus[goal[c]] # "done"
  /\ Goto(c, "workPop")
  /\ UNCHANGED <<queue, taskStatus, status, puts, sleepers, waiters, call, goal,
                 job, runs, stopped>>

WorkPop(c) ==
  /\ At(c, "workPop")
  /\ IF head # Null
     THEN /\ Mark(head, "inProgress") /\ PopNoSync
          /\ job' = [job EXCEPT ![c] = head]
          /\ Goto(c, "job")
          /\ UNCHANGED call
     ELSE /\ Enter(c, "yieldForce", "force")
          /\ UNCHANGED <<taskStatus, queue, job>>
  /\ UNCHANGED <<status, puts, sleepers, waiters, goal, runs, stopped>>

(* stop *)
Stop(c) ==
  /\ At(c, "idle")
  /\ status' = "stopNow" /\ stopped' = TRUE
  /\ sleepers' = AfterNotifyAll(sleepers)
  /\ UNCHANGED <<queue, taskStatus, puts, waiters, pc, call, goal, job, runs>>

(* Seeded fault: the workers that sleep are not woken. *)
Finish_WithoutNotify(c, blocking) ==
  /\ At(c, "idle")
  /\ status' = IF status = "running" THEN "finishing" ELSE status
  /\ IF blocking THEN Enter(c, "finish", "loop") ELSE UNCHANGED <<pc, call>>
  /\ UNCHANGED <<queue, taskStatus, puts, sleepers, waiters, goal, job, runs,
                 stopped>>

(* finish, up to the call of executeWorkLoop if it is blocking. *)
Finish(c, blocking) ==
  /\ At(c, "idle")
  /\ status' = IF status = "running" THEN "finishing" ELSE status
  /\ sleepers' = AfterNotifyAll(sleepers)
  /\ IF blocking THEN Enter(c, "finish", "loop") ELSE UNCHANGED <<pc, call>>
  /\ UNCHANGED <<queue, taskStatus, puts, waiters, goal, job, runs, stopped>>

(* A blocking finish joins the workers after its own work loop. *)
Join(c) ==
  /\ At(c, "join")
  /\ \A w \in Workers : At(w, "gone")
  /\ Goto(c, "idle")
  /\ UNCHANGED <<queue, taskStatus, status, puts, sleepers, waiters, call, goal,
                 job, runs, stopped>>

-------------------------------------------------------------------------------
(* executeWorkLoop, by the workers and by a blocking finish.               *)

LoopEnd(t) == IF t \in Workers THEN "gone" ELSE "join"

(* The test of the loop. *)
Loop(t) ==
  /\ At(t, "loop")
  /\ Goto(t, IF status = "stopNow" THEN LoopEnd(t) ELSE "pop")
  /\ UNCHANGED <<queue, taskStatus, status, puts, sleepers, waiters, call, goal,
                 job, runs, stopped>>

(* pop, up to its next wait or its end. *)
Pop(t) ==
  /\ At(t, "pop") /\ t \notin sleepers
  /\ \/ /\ head # Null
        /\ Mark(head, "inProgress") /\ PopNoSync
        /\ job' = [job EXCEPT ![t] = head]
        /\ Goto(t, "job")
        /\ UNCHANGED sleepers
     \/ /\ head = Null /\ status = "running"
        /\ sleepers' = AfterWait(sleepers, t)
        /\ UNCHANGED <<queue, taskStatus, job, pc>>
     \/ /\ head = Null /\ status # "running"
        /\ Goto(t, "drained")
        /\ UNCHANGED <<queue, taskStatus, job, sleepers>>
  /\ UNCHANGED <<status, puts, waiters, call, goal, runs, stopped>>

(* pop has returned null: the first thread to notice that a pool that is   *)
(* finishing has no task left stops the others.                            *)
Drained(t) ==
  /\ At(t, "drained")
  /\ IF status = "finishing"
     THEN status' = "stopNow" /\ Goto(t, LoopEnd(t))
     ELSE UNCHANGED status /\ Goto(t, "loop")
  /\ UNCHANGED <<queue, taskStatus, puts, sleepers, waiters, call, goal, job,
                 runs, stopped>>

(* The task does what it does, in doJob or in tryDeleteExecute. *)
Run(t) ==
  /\ \/ At(t, "job") /\ Goto(t, "jobRun")
     \/ At(t, "own") /\ Goto(t, "ownRun")
  /\ runs' = [runs EXCEPT ![job[t]] = @ + 1]
  /\ UNCHANGED <<queue, taskStatus, status, puts, sleepers, waiters, call, goal,
                 job, stopped>>

(* doJob sets taskStatus before it takes waiterMutex ... *)
JobDone(t) ==
  /\ At(t, "jobRun")
  /\ Mark(job[t], "done")
  /\ Goto(t, "notify")
  /\ UNCHANGED <<queue, status, puts, sleepers, waiters, call, goal, job, runs,
                 stopped>>

(* ... to notify those who wait for any task. *)
NotifyWaiters(t) ==
  /\ At(t, "notify")
  /\ waiters' = AfterNotifyAll(waiters)
  /\ Goto(t, IF call[t] = "workForce" THEN "force" ELSE "loop")
  /\ UNCHANGED <<queue, taskStatus, status, puts, sleepers, call, goal, job,
                 runs, stopped>>

(* A wait that returns without a notification. *)
SpuriousWakeup(t) ==
  /\ t \in sleepers \cup waiters
  /\ sleepers' = sleepers \ {t}
  /\ waiters' = waiters \ {t}
  /\ UNCHANGED <<queue, taskStatus, status, puts, pc, call, goal, job, runs,
                 stopped>>

-------------------------------------------------------------------------------
Init ==
  /\ head = Null /\ tail = Null
  /\ next = [t \in Tasks |-> Null] /\ prev = [t \in Tasks |-> Null]
  /\ taskStatus = [t \in Tasks |-> "notStarted"]
  /\ status = "running" /\ pooled = {} /\ putting = [c \in Clients |-> <<>>]
  /\ sleepers = {} /\ waiters = {}
  /\ pc = [t \in Threads |-> IF t \in Workers THEN "loop" ELSE "idle"]
  /\ call = [t \in Threads |-> "none"]
  /\ goal = [t \in Threads |-> Null] /\ job = [t \in Threads |-> Null]
  /\ runs = [t \in Tasks |-> 0]
  /\ stopped = FALSE

Groups == {<<t>> : t \in Tasks} \cup
          {g \in Tasks \X Tasks : g[1] # g[2]}

ClientCalls(c) ==
  \/ \E g \in Groups : SetPool(c, g)
  \/ \E t \in Tasks, op \in {"spinForce", "yieldForce", "workForce"} :
       ForceTask(c, t, op)
  \/ Stop(c) \/ Finish(c, TRUE) \/ Finish(c, FALSE)

(* What a thread does once it is inside the pool's code. *)
Proceed(t) ==
  \/ Loop(t) \/ Pop(t) \/ Drained(t) \/ Run(t) \/ JobDone(t) \/ NotifyWaiters(t)
  \/ OwnDone(t) \/ ForceDone(t) \/ YieldForce(t) \/ YieldAgain(t)
  \/ WorkForce(t) \/ WorkPop(t) \/ Join(t)
  \/ t \in Clients /\ (Put(t) \/ PutGroup(t))

Next ==
  \/ \E c \in Clients : ClientCalls(c)
  \/ \E t \in Threads : Proceed(t) \/ SpuriousWakeup(t)

Spec == Init /\ [][Next]_vars

(* A thread inside the pool's code goes on when it can, and tasks end.     *)
(* Clients need not call anything.                                         *)
FairSpec == Spec /\ \A t \in Threads : WF_vars(Proceed(t))

-------------------------------------------------------------------------------
(* The tasks from head on, following next. *)
Queue ==
  LET ith[i \in 1..Cardinality(Tasks)] ==
        IF i = 1 THEN head
        ELSE IF ith[i - 1] = Null THEN Null ELSE next[ith[i - 1]]
      length == Cardinality({i \in DOMAIN ith : ith[i] # Null})
  IN  [i \in 1..length |-> ith[i]]

(* The type of the state. *)
TypeOK ==
  /\ {head, tail} \subseteq Tasks \cup {Null}
  /\ next \in [Tasks -> Tasks \cup {Null}] /\ prev \in [Tasks -> Tasks \cup {Null}]
  /\ taskStatus \in [Tasks -> {"notStarted", "inProgress", "done"}]
  /\ status \in {"running", "finishing", "stopNow"}
  /\ pooled \subseteq Tasks /\ putting \in [Clients -> Groups \cup {<<>>}]
  /\ \A t \in sleepers : At(t, "pop")
  /\ \A t \in waiters : At(t, "await")
  /\ runs \in [Tasks -> Nat] /\ stopped \in BOOLEAN

(* The queue is one doubly linked list of tasks that are not started, its  *)
(* end is tail, and a task that is in no list points nowhere: whoever took *)
(* a task out of it, at the front, at the end or in the middle.            *)
QueueWellFormed ==
  /\ \A i \in DOMAIN Queue : prev[Queue[i]] = IF i = 1 THEN Null ELSE Queue[i - 1]
  /\ head # Null => tail = Last(Queue) /\ next[tail] = Null
  /\ \A t \in Tasks \ Range(Queue) : next[t] = Null /\ prev[t] = Null
  /\ \A t \in Range(Queue) : taskStatus[t] = "notStarted"

(* No task is run by two threads, and none is done without having run. *)
RunOnce ==
  \A t \in Tasks : (taskStatus[t] = "done" => runs[t] = 1) /\ runs[t] <= 1

(* While the pool runs and tasks wait, not all workers are asleep. *)
SomeWorkerAwake ==
  status = "running" /\ head # Null /\ Workers # {} => ~(Workers \subseteq sleepers)

(* finish lets nothing it accepted go: when the work loops stop and nobody *)
(* called stop, the queue is empty.                                        *)
FinishDrains == status = "stopNow" /\ ~stopped => head = Null

(* Finishing and stopping reach every worker. *)
WorkersEnd == status # "running" ~> \A w \in Workers : At(w, "gone")

(* A task that has been queued is started, unless the pool is stopped. *)
QueuedTaskStarts ==
  \A t \in Tasks : t \in Range(Queue) ~> taskStatus[t] # "notStarted" \/ stopped

(* spinForce, yieldForce and workForce return. *)
ForceReturns ==
  \A c \in Clients :
    pc[c] \in {"own", "ownRun", "force", "await", "workPop"} ~> At(c, "idle")

(* The linked list is a FIFO queue: tasks are put at its end, workers take *)
(* the first, a client that forces a task takes that one, and a task is    *)
(* executed by one thread, until taskStatus says that it is done.          *)
Abstract ==
  INSTANCE TaskQueue
    WITH waiting <- Queue, Idle <- Null,
         executing <- [t \in Threads |->
                         IF pc[t] \in {"own", "ownRun", "job", "jobRun"}
                         THEN job[t] ELSE Null],
         done <- {k \in Tasks : taskStatus[k] = "done"}
ImplementsTaskQueue == Abstract!Spec
===============================================================================
