# A verification of GDC: its libraries' concurrency, its compiler's control flow

GDC is the D front end of GCC together with the libraries that every D program
is linked with: `libdruntime` (threads, monitors, the collector) and `phobos`
(the standard library `std`).  Paths below are relative to `src/`; `druntime/`
stands for `libphobos/libdruntime/`, `std/` for `libphobos/src/std/` and
`dfrontend/` for `gcc/d/dfrontend/`.

This directory holds TLA+ models of two kinds of code.  In the libraries, of the
parts in which several threads meet.  In the compiler, of the algorithms whose
result is hard to judge from the inside: what a statement does when jumps and
exceptions cross it, interpreted at compile time, analysed and compiled; and
what is known of the value of an integer expression.  TLC configurations check
them on small instances, TLAPS proofs for instances of any size.
`PROJECT.json` lists the runs, the properties each checks, the seeded faults
that break each property, the theorems, and for each definition the source
lines it stands for.

Contents: [1 Inventory](#1-inventory) · [2 Modules](#2-modules-and-the-code)
· [3 Runs](#3-the-runs-and-what-they-show) · [4 Bounds](#4-bounds)
· [5 Fairness](#5-fairness) · [6 Proofs](#6-what-is-proved)
· [7 Findings](#7-where-code-and-documentation-disagree)
· [8 Limits](#8-what-is-not-modelled) · [9 Plan](#9-plan)

## 1 Inventory

The libraries hold the state that several threads share, and there an order of
steps nobody tested can go wrong.  The compiler is sequential; there it is the
program compiled that nobody wrote a test for: three statements nested in an
order that makes one visitor undo what another one relied on.

### Components that are modelled

**Condition variables** (`druntime/core/sync/condition.d`).  State: who sleeps.
Operations: `wait`, `wait(duration)`, `notify`, `notifyAll`, over pthreads.  A
notification is not remembered, and a wait may return without one.

**Readers-writer mutex** (`druntime/core/sync/rwmutex.d`).  State: one mutex,
two conditions, four counters (queued and active readers and writers) and a
policy.  Operations: `lock`, `tryLock`, `unlock` of the `Reader` and the
`Writer`.  Hard: threads leave a wait in any order while others come and go, and
each `unlock` decides from the counters alone whom to wake.  Correct when a
writer is alone, the counters count what they say, nobody sleeps on a mutex he
could have, and the preferred side gets in.

**Barrier** (`druntime/core/sync/barrier.d`).  State: `m_count` (what the group
still lacks), `m_group` (its number, 32 bits), a condition.  Operation: `wait`.
Hard: a thread may be back for the next group before the others of its group
have woken up.  Correct when threads pass in groups of exactly the limit and
every thread of a complete group leaves.

**Mailboxes** (`MessageBox` in `std/concurrency.d`).  State: two lists that
senders write under `m_lock`, two that only the receiver touches, counters for
the limit, two conditions, and the links and owner of the receiver.  Operations:
`put` (from `send`, `prioritySend` and the end of a thread), `get` with and
without a timeout, `setMaxMsgs`, `close`.  Hard: messages are fetched in batches
and scanned selectively outside the lock; the receiver counts what it has
fetched later than it fetches it; senders and receiver sleep on each other.
Correct when messages of a kind keep their order, none is lost or handled
twice, a receive that can end does, and the limit works.

**Thread registry** (`register`, `unregister`, `locate`, `unregisterMe` in
`std/concurrency.d`).  State: two maps under one mutex, name to thread and
thread to names.  Hard: the two must agree, although a thread registers,
unregisters and terminates through different functions, and another thread may
register it while it terminates.  Correct when no name leads to a thread that
has left, and no thread's end takes another thread's name.

**Task pool** (`TaskPool` and `Task` in `std/parallelism.d`).  State: a doubly
linked queue of tasks, each task's `taskStatus`, the pool's `status`, two
mutexes with a condition each.  Operations: `put`, the group put by `foreach`,
`spinForce`, `yieldForce`, `workForce`, `finish`, `stop`, and the workers' loop.
Hard: clients take tasks out of the middle of the queue; `taskStatus` and
`status` are accessed both with and without the mutexes; the first thread that
finds a finishing pool empty stops the others.  Correct when each task runs
once, the queue stays a list, `finish` leaves nothing behind, and whoever waits
for a task that ends goes on.

**Critical sections** (`druntime/rt/critical_.d`).  State: a static record for
each `synchronized` statement, with a mutex and a link `next` that is also the
flag that the mutex exists; a list of the records.  Operations:
`_d_criticalenter`, `_d_criticalexit`, `_d_critical_init`, `_d_critical_term`.
Hard: first entries race, through a double check without a lock.  Correct when
each mutex is created once and before it is locked, at most one thread is
inside a statement, and the end of the program destroys what was created.

**Lowering of statements** (`gcc/d/toir.cc`, `gcc/d/d-codegen.cc`).  State: the
chain of binding levels, and for each label of the function an entry with its
level, two flags and the jumps that wait for it; the break and continue labels
of the enclosing statements.  Operations: one visitor per statement class,
`push_binding_level`, `pop_binding_level`, `check_goto`, `check_previous_goto`,
`define_label`, `lookup_bc_label`.  Hard: the legality of a jump is judged in
one pass in which scopes have ended by the time a label is met.  Correct when a
legal jump is accepted and one into a `try` or `catch` block reported, and the
code does what the statement says.

**Statement analysis** (`dfrontend/statement.c`, `statementsem.c`).  State: the
statement tree, which is rewritten in place, and the `Scope` of each statement.
Operations: `blockExit`, `comeFrom`, the checks of jumps, the rewriting of scope
guards to `try` statements and the dropping of `try` statements nobody needs.
Hard: the rewriting relies on `blockExit`, which judges a statement by its
parts, while jumps go past them.  Correct when the function does the same
before and after, `blockExit` names every way out, and a guard runs once for
each time it was reached.

**Compile-time interpreter** (`dfrontend/interpret.c`).  State: `InterState`
(`start`, `gotoTarget`), the result of a visitor (a jump or an exception is a
result), and `CtfeStack`, where a variable has one address for all activations
of its function.  Operations: a visitor per statement, the calls, `push`, `pop`,
`popAll`.  Hard: jumps bubble up and are looked for by walking the tree again;
recursion with reference parameters to one's own variables.  Correct when a
function does at compile time what it does at run time, and variables read as
if each activation had its own.

**Constructor flow analysis** (`dfrontend/scope.c`, `func.c`, `expression.c`).
State: `callSuper`, `fieldinit`, `noctor`.  Operations: the merge of two paths,
the calls of `super` and assignments to fields, `return`, loops, labels, and
the operands of `&&`, `||` and `?:`.
Correct when an accepted constructor calls the base constructor exactly once
and initialises once what has to be.

**Integer ranges and constant folding** (`dfrontend/intrange.c`, `cast.c`,
`constfold.c`, `optimize.c`; `gcc/d/expr.cc`).  State: for an expression its
range (two 65-bit numbers) or its folded word.  Operations: one per operator.
Hard: widths, signs, bounds that wrap or saturate.  Correct when the value
that the compiled code computes is in the range and is what the expression
folds to: on it depend implicit narrowing and the bounds checks left out.

**Exception handling** (`druntime/gcc/deh.d`), in part: which of two collided
exceptions goes on, as far as the compiled code of a function shows it.

### How they interact

    std.parallelism.TaskPool ---+
    std.concurrency.MessageBox -+--> core.sync.condition --> pthreads
    core.sync.rwmutex ----------+          (PosixCondition)
    core.sync.barrier ----------+
    std.concurrency: the end of a thread --> MessageBox.close of its own mailbox,
        MessageBox.put (linkDead) into those of linked threads and of its owner,
        then registry.unregisterMe
    synchronized statement --> rt.critical_ --> rt.monitor_ (initMutex, lockMutex)

    statement tree --> semantic (statementsem.c, with blockExit and the flow analysis)
        --> interpret.c, when the function is called at compile time
        --> toir.cc --> GENERIC --> GCC, unwinder, gcc.deh at run time
    expression --> getIntRange (narrowing, index checks), constfold.c, expr.cc

`ControlFlow` composes the four models of the first line, `ValueRange` the three
of the second.  The mailbox and the registry meet in `ThreadInfo.cleanup`: the mailbox is closed
first, and `register` looks at `isClosed`.  `Registry` models that order;
`MessageBox` models the mailbox side (`Terminate`, `Close`).

### Components that are not modelled yet, or not at all

| component | state and operations | what makes it correct | status |
|---|---|---|---|
| object monitors, `druntime/rt/monitor_.d` | a lazily created, reference-counted monitor per object; enter, exit, `setSameMutex`, dispose events | one monitor per object, freed once and after the last use | planned first |
| fibers and generators, `std/concurrency.d` | a scheduler's list of fibers, conditions that yield | every fiber that can run does; no lost notification | planned |
| `initOnce`, `std/concurrency.d` | a flag with a double check | initialised once | planned |
| threads, `druntime/core/thread.d` | lists of threads and contexts; start, attach, detach, suspend, resume, join, critical regions | a suspended world is complete; no thread is lost between start and registration | planned |
| start and end, `druntime/rt/dmain2.d`, `rt/minfo.d` | count of `rt_init`; order of module constructors | paired calls; constructors follow imports | planned |
| shared libraries, `druntime/rt/sections_elf_shared.d` | reference counts per thread and library | a library is unloaded once and not before its last user | planned |
| mutex, semaphore, `druntime/core/sync/` | thin wrappers of pthreads | that of the system | modelled where they are used |
| collector, `druntime/gc/` | pools, bins, bit maps, roots | reachable memory is kept | the array append cache only, later |
| associative arrays, lifetime, `druntime/rt/` | sequential tables | map laws; no stale slice is appended in place | after the concurrent parts |
| exception tables, `druntime/gcc/deh.d` | the unwinder's contexts, tables | innermost handler | not: the state is the machine's stack |
| expressions at compile time, `dfrontend/interpret.c`, `ctfeexpr.c` | literals, slices, pointers | the language | not: case analyses over trees |
| rest of the front end, `dfrontend/` | tokens, types, templates, declarations, deferred modules | the language | deferred modules, later |
| rest of the GCC glue, `gcc/d/*.cc` | declarations, type information | GCC's | not: its state is GCC's |
| rest of `std` | sequential algorithms, text, files, sockets | each its own | not: unit tests reach it |
| zlib, libbacktrace, headers, test suite | third party, declarations, tests | | not |

## 2 Modules and the code

Each component has a module that is translated from the source, and most have a
smaller one that says what the component promises; the first is shown to
implement the second.  Where a variable or an action stands for something in
the code it has the name of it.  **What runs under one mutex is one step, and a
wait ends it**: nobody can observe the middle.  Accesses without the mutex are
steps of their own.

| module | stands for | with |
|---|---|---|
| `PosixCondition` | `core.sync.condition` over pthreads: the set of sleepers after `wait`, `notify`, `notifyAll` | used by the four below |
| `ReadWriteLock` | the promise of `rwmutex` | |
| `ReadWriteMutex` | `rwmutex.d` | implements `ReadWriteLock` |
| `ReadWriteMutexProofs` | theorems | |
| `BarrierGroups` | the promise of `barrier` | |
| `Barrier` | `barrier.d` | implements `BarrierGroups` |
| `BarrierProofs` | theorems | |
| `Mailbox` | the promise of `send` and `receive` | |
| `MessageBox` | `MessageBox`, links and owner | implements `Mailbox` |
| `MCMessageBox` | instances for TLC | |
| `MailboxDocumented` | what the documentation says of mailboxes and does not hold | |
| `TaskQueue` | the promise of a task pool | |
| `TaskPool` | `TaskPool`, `Task`, workers | implements `TaskQueue` |
| `TaskPoolProofs` | theorems | |
| `MCTaskPool` | instances for TLC | |
| `CriticalSection` | `critical_.d` with the mutexes of `monitor_.d` | |
| `MCCriticalSection` | instances for TLC | |
| `CriticalSectionProofs` | theorems | |
| `Registry` | `register`, `unregister`, `unregisterMe` and `remove` of `std.algorithm` | |
| `ConcurrencyProofs` | theorems about `MessageBox` and `Registry` | |
| `JumpScopes` | binding levels and labels of `d-codegen.cc` | |
| `JumpScopesProofs` | theorems | |
| `Statements` | statement trees, `blockExit`, legality of jumps, rewriting (`statement.c`, `statementsem.c`) | used by the three below |
| `CtfeStatements` | the statement visitors of `interpret.c` | |
| `Lowering` | the statement visitors of `toir.cc` | |
| `CtorFlow` | the flow analysis of constructors | |
| `ControlFlow` | a function run as compiled | compares the four above |
| `MCControlFlow` | the function bodies for TLC | |
| `CtfeStack` | `CtfeStack` and the calls of `interpret.c` | with a reference memory |
| `MCCtfeStack` | two functions for TLC | |
| `CompileTimeProofs` | theorems about `CtfeStack` | |
| `SignExtendedNumber` | 65-bit numbers of `intrange.c` | |
| `IntRange` | `IntRange` and `IntRangeVisitor` of `cast.c` | |
| `ConstFold` | `constfold.c`, and `build_binary_op` of `expr.cc` | |
| `ValueRange` | an expression that grows | compares the two above |
| `MCValueRange` | small integer types for TLC | |
| `ValueRangeProofs` | theorems about the four | |

Definitions marked "seeded fault" are not part of a
specification.  Each is the operator below it with a plausible mistake; with the
mistake in its place TLC finds the property it is listed with violated.

**PosixCondition.**  A condition is the set of its sleepers.  `AfterNotify` is
the set of possible results: any one of them leaves, none if there is none.  A
wait that returns without a notification is an action of each module that waits.

**ReadWriteMutex.**  `policy` is the field that the constructor sets; runs and
proofs cover both values.  `control[t]` is where a thread is: `idle`, queued, or
holding the lock as a reader or a writer.  `ReaderLock` is `Reader.lock` up to
its first wait or its end, `ReaderRetry` what follows a return of the wait;
`tryLock` and `unlock` are one step each.  The counters are variables of their
own and are never computed from `control`: that they agree is a property.

**Barrier.**  `Arrive` and `Resume` are `wait` before and after its condition.
`group` is taken modulo `Modulus`, which stands for 2^32.

**MessageBox.**  One mailbox, its receiver, and its peers.  A message has a
type (`standard`, `priority`, `linkDead`), a kind, on which the operations of
`receive` match, and the number under which it was accepted, which only the
properties look at.  `Send` and `SendAgain` are `put` up to its next wait.  The
receiver runs `get` in the steps `Receive`, `Fetch` or `Wait`, `Sort`,
`LookAgain`; `arrived` is the local list of `get` between its critical section
and its end.  An operation takes the message it is run on when it returns or
throws, and the call ends; returning and throwing differ in `Pty`.  Operations on
the kinds in `Choosy` return a `bool`: with `false` they *decline* the message,
which stays where it is, and `scan` goes on, or `pty` throws
`PriorityMessageException`.  When `get` has found nothing and looks again, or in
a later `receive`, they are run on it again.  `declined` and `delivered` record,
for the properties, what operations of this call have declined and what was
taken.  In `Mailbox`, too, a `receive` takes the oldest match that it has not
declined.  `Terminate` is the end of a peer, which sends `linkDead`; `Close` is the
receiver's own end.  `SetMaxMsgs` may come at any time.

**TaskPool.**  The queue is the code's: `head`, `tail` and each task's `next`
and `prev`.  `call[c]` is which of `spinForce`, `yieldForce`, `workForce` and
`finish` a client is in, `pc[t]` where in it.  The workers and a blocking
`finish` run the same loop (`Loop`, `Pop`, `Drained`), as in `executeWorkLoop`.
`doJob` is three steps, `Run`, `JobDone`, `NotifyWaiters`: it sets `taskStatus`
before it takes `waiterMutex`.  `put` is two steps: `SetPool` sets the task's
`pool` outside the mutex, and `Put` takes `queueMutex` and enqueues, or throws
when the pool does not run.  `PutGroup` is the put of `submitAndExecute`, with
the same steps for a group; `putting` has what is between the two.  A task is
forced only after its `put` has returned, which a program sees to, or else it
would read `pool` while it is set.  `Queue`, the sequence that the pointers form,
is used by properties only.

**CriticalSection.**  The finest of the models: a step is one access to shared
memory.  `next` is read with acquire and written with release ordering, all
else is written under the mutex of `gcs`, so that steps in their order are all
the executions there are.

**Registry.**  Each operation runs under `registryLock`, so each is a step.
`RemoveUnstable` is `remove!(SwapStrategy.unstable)` on an array whose shorter
result the code does not use.  The variables and definitions have names of their
own (`closedTids`, `RegistrySpec`), so that `ConcurrencyProofs` can extend the
module beside `MessageBox`; `TidInit` is `Tid.init`.

**JumpScopes.**  `scopes` is the chain from `current_binding_level` outward,
`labels[l]` the `d_label_entry`.  Pushing and popping levels, jumps and label
definitions come in any order, as any function body can have them; only `places`
and `jumps` know what really happened.  `closed` has the jumps that were pending
when some scope ended.

**Statements.**  A statement is a record, and the visitors are operators over
it: `BlockExit`, `Semantic`, and `Legal` with an operator for each class of jump
(`BreakLegal` to `ReturnLegal`).  Expression statements are events, calls
that may throw, or `&&`, `||` and `?:` of these; conditions are constant or open.  `Semantic(s, FALSE)`
rewrites scope guards but keeps every `try` statement, for comparison.

**CtfeStatements.**  `Interpret(s, st)` is `interpret(s, istate)`; `st` has the
fields of `InterState`, the result, and the choices it will be given, which are
those that the compiled run made.

**Lowering, ControlFlow.**  `Lower` gives the instructions of a statement, each
with the exception regions it stands in; `ControlFlow` runs them.  `Transfer` is
what GCC's lowering of `TRY_FINALLY_EXPR` and the unwinder do when control
leaves regions: the cleanups run from the inside, with the transfer pending.  A
state of `ControlFlow` is one point of one run of one of `Programs`.

**CtorFlow.**  `Flow` is the walk of semantic analysis, `Pop` and `Merge` are
what `Scope::pop`, `mergeCallSuper` and `mergeFieldInit` do at its joints.

**CtfeStack.**  `adr`, `slots`, `fp` and `frames` are the code's; `envs` and
`store` are an ordinary memory with one location per variable and activation,
which only the properties compare with.  A declaration is two steps: `Declare`
pushes the variable, `Initialize` gives it the value of its initializer, which is
interpreted in between and may call functions, the same one included.  `open` has
the variables, and the `$` of index expressions, for which this is under way.

**SignExtendedNumber, IntRange, ConstFold, ValueRange.**  Numbers are as in the
code, a word and a sign, with `Bits` for 64; `Beyond` is what a shift by the
full width gives, which C++ leaves undefined.  The bitwise operators on words are
`WordAnd`, a function that recurs from the lowest bit up, and the two that
follow from it, `a + b - (a & b)` and `a + b - 2 (a & b)`.  A step of `ValueRange` puts one
more operator around the expression, and does to its range, its folded word and
its run-time number what the three parts of the compiler do.

## 3 The runs and what they show

| run | question | answer |
|---|---|---|
| `rw_mutex` | with each policy: is it a readers-writer lock, is no thread asleep on a mutex it could have, and does the preferred side get in? | yes; with `PREFER_READERS` each queued reader gets in, with `PREFER_WRITERS` some writer does |
| `barrier` | more threads than the limit: are released threads awake, do threads pass in groups, and does everybody of a complete group leave? | yes |
| `mailbox_order` | an owner, a linked thread, two kinds, selective receives whose operations may decline, priority messages, a limit of two: does the mailbox keep the order of each kind and lose nothing, does the receiver never sleep on a match nor a sender when there is room, how much does the mailbox hold? | yes, for standard messages; at most twice the limit |
| `mailbox_live` | three senders on a mailbox of one: do receives return and senders get room? | yes, while the receiver goes on receiving |
| `pool_shared` | two workers and a client with three tasks: is the queue always a list, does each task run once, is there a worker awake for a queued task, does `finish` drain? | yes, and the pool implements a FIFO queue from which tasks may be taken |
| `pool_live` | two clients force a task each: do workers end, do queued tasks start, do forces return? | yes |
| `critical_two` | three threads, nested and recursive statements: is each mutex created once, before it is used, and destroyed at the end? | yes |
| `registry_names` | do the two maps agree, and does no name lead to a thread that has left? | yes |
| `jump_scopes` | are legal jumps accepted and jumps into `try` and `catch` blocks reported? | yes, except forward jumps over the end of a scope ([section 7](#7-where-code-and-documentation-disagree)) |
| `ctfe_stack` | do variables read as if each activation had its own, do the interpreter's assertions hold, are the addresses back after a call? | yes, when a call does not pass one variable of its own function twice |
| `control_flow` | does a function do the same interpreted, compiled, and with every `try` statement kept; does it end in a way that `blockExit` names; do guards run once; do constructors construct once? | yes, for the bodies that section 4 delimits |
| `value_range` | is the value in its range, does it fold to what is computed, do the bounds saturate? | yes, for the expressions that section 4 delimits |

The properties that relate most and are the easiest to get wrong:

- `NoLostWakeup` (`ReadWriteMutex`): when the mutex is free for somebody who is
  queued, somebody who could take it is awake.  `unlock` notifies one condition,
  chosen by policy and counters that other threads may change before anyone
  wakes up.
- `ReleasedAreAwake` (`Barrier`): the members of a complete group are awake,
  although threads of the next group wait on the same condition.
- `SleepsOnlyWithoutMatch` (`MessageBox`): the receiver does not sleep while one
  of four lists holds something that would end its call, except what an
  operation of this call has declined.
- `ImplementsMailbox`: what is taken is the oldest match that was not declined,
  over three lists that are spliced, scanned and fetched at different times, and
  it is taken off, whether its operation returned or threw.
- `QueueWellFormed` (`TaskPool`): `tail` is stale when the queue is empty, and
  `deleteItemNoSync` is called for tasks that were never in the queue.
- `SomeWorkerAwake`, `FinishDrains` (`TaskPool`): notifications to single
  workers, and the hand-over from `finishing` to `stopNow`.
- `CreatedOnce`, `AllDestroyed` (`CriticalSection`): depend on `gcs` ending the
  list, and on `next` being stored last.
- `LegalJumpsAccepted` against `BackwardJumpsChecked` and `ForwardJumpsChecked`
  (`JumpScopes`): where a pending jump is believed to stand must be neither too
  far in nor too far out.
- `FramesRestored`, `ReadsAgree` (`CtfeStack`): an address saved in one frame is
  put back after others have moved it; a parameter that took over the address
  of another activation's variable still reads it.
- `CompileTimeAsRunTime` (`ControlFlow`): two implementations of all statements,
  one by walking trees and one by jumps and cleanups, agree on the events, the
  exception that goes on, and the end.
- `RewritingKeepsMeaning`, `BlockExitSound`: what `blockExit` says is enough to
  drop a `try` statement, and nothing ends in a way it does not name.
- `GuardsRunOnce`: a success and a failure guard after each other run exactly one
  of the two, however the rest is left.
- `ConstructsOnce` (`CtorFlow` on the runs of `ControlFlow`): a flow analysis by
  flags against what constructors really do.
- `RangeSound` (`ValueRange`): holds after every sequence of operators, not only
  for one.
- `LeaversUnnamed` (`Registry`): depends on the mailbox being closed before
  `unregisterMe`, and on `register` looking at it.

## 4 Bounds

These constants bound something the code does not: `MaxAccepted` (messages
that a mailbox accepts in one behaviour), `MaxListed` (the length of a list
in `namesByTid`), `MaxNesting` (how deep a thread nests statements),
`MaxLevels`, `MaxDepth` and `MaxJumps` (scopes and jumps of a function),
`MaxFrames` and `MaxValues` (calls and stored values of an interpretation), and
`MaxChoices`, `MaxEvents` and `MaxRounds` (how long a run of a function is
followed).  They stand in guards; everything else is bounded by the sets of
threads, tasks, names, limits, programs and operands.

| run | instance | why it is enough |
|---|---|---|
| `rw_mutex` | 4 threads, both policies, each reader or writer at any time | two readers and two writers, one on each side holding or leaving while the other waits |
| `barrier` | 5 threads, limit 3, 3 group numbers | a group and most of the next together; a thread may be late by one group |
| `mailbox_order` | 2 peers, 2 kinds, limit 2, 5 messages | a batch with a message that is skipped, one taken and one left behind, and a priority message or a notice between them; the mailbox full twice over and one more |
| `mailbox_live` | 3 peers, limit 1, 5 messages | two senders asleep while a third overtakes |
| `pool_shared` | 2 workers, 1 client, 3 tasks | a queue with a first, a middle and a last task; groups of two; two workers that race to stop |
| `pool_live` | 1 worker, 2 clients, 2 tasks | one client's task executed by the other one or by the worker |
| `critical_two` | 3 threads, 2 statements, nesting 3 | two threads at the first entry of one statement and a third at the other, so that the list has both orders |
| `registry_names` | 3 threads, 2 names, lists of 3 | a name that moves between threads, and a list with a leftover at each place |
| `jump_scopes` | 2 labels, 4 levels, 2 jumps | a jump pending while a scope opens and another ends, and a second one to the same label or back to another |
| `ctfe_stack` | 2 functions with 2 and 1 reference parameters, 5 frames, 4 values | each function under itself and under the other, references through two frames, and values in three activations |
| `control_flow` | every one of 15 leaves within two nested statements of 17 forms, two leaves within one: 5,521 accepted bodies, of which 4,924 are run; 1,037 constructors of two parts; 3 choices, 8 events | every visitor inside every other one, jumps to both of two nested loops or switches; a loop that goes round twice and is then left |
| `value_range` | types of 1, 2, 3 and 5 bits, 0 to 5 literals of each, any number of operators | the reachable set is finite and is exhausted; products of two `int`s fit in a `long`, as with 32 and 64 bits |

In `barrier` a thread that sleeps through a full cycle of `m_group`
would take the new group for its own.  With 2^32 numbers that takes 2^32 groups
between a notification and the return of its wait, with three it takes three;
the guard of `Complete` excludes it.  `NeverLapped` says that with as many
threads as the limit, the usual case, the guard excludes nothing, and is proved.

`MCCriticalSection` and `MCTaskPool` use symmetry of threads that nothing
distinguishes, in runs without liveness properties.

`control_flow` and `value_range` leave out the inputs on which the code is known
to fail, each by a named condition whose failure section 7 reproduces:
`Followed` (a `goto`, `goto case` or `goto default` that stands in a `finally` body,
whether it stays there or leaves it, or whose target is in the body of a `try`
statement with handlers), `BreakCounted` (a `do` loop that can be left but
whose body does not reach its end), `CallRemembered` (constructors with branches
that end in `assert(0)` and make the flow analysis forget a call),
`AssignedForSure` (constructors that assign a field behind `&&` or `||`), labelled
`continue` of an unrolled loop, and in `Avoided` casts to `bool` and `dchar` of
other values, shifts whose count may be negative, and bounds that are cut off.
`RepeatedArgs = FALSE` does the same for `ctfe_stack`.  Of the properties of
`control_flow`, `GuardsRunOnce` holds without any of them.

An outer loop or switch of a body has the name `L`, the label in front of it
too; an inner one has the name `I`.  The leaves are jumps to either, so that
among the bodies run are labelled breaks of a switch, `goto case` and `goto
default` of the inner and of the outer switch, and those that leave a `try`
body on their way (16).  A `goto default` always means the nearest switch; a
`goto case` finds a case of the outer one too, if it comes before.

`registry_names` disables the deadlock check: when all threads have left there is
nothing more to do; so do `ctfe_stack`, `control_flow` and `value_range`, whose
runs end.  In every other run the system never stops: a reader or
writer may always come, `SetMaxMsgs` may always be called, clients may always
ask, and `Ended` in `CriticalSection` is the program after its end.

## 5 Fairness

Fairness is weak fairness, and on steps inside library code only: a thread that
has been woken, or that is inside a method and not blocked, goes on.  That is
what the operating system's scheduler gives a program.  Nowhere is a mutex or a
condition assumed to be fair among those who wait for it: `AfterNotify` wakes
any one, and a thread that has just arrived may overtake one that was woken.

- `ReadWriteMutex!FairSpec`: retries, and that whoever holds the lock gives it
  back.
- `Barrier!FairSpec`: the resumption of a woken thread.  Nobody has to arrive.
- `MessageBox!FairSpec`: the steps of a `get` or `put` under way.
  `ReceivingSpec` adds that the receiver calls `receive` again; only
  `SendersGetRoom` needs it, and its statement is about receivers that do.
- `TaskPool!FairSpec`: the steps of a thread inside the pool's code, which
  include the end of a task.  A client need not call anything.

The models of the compiler state no liveness: the passes are recursions over
finite trees, and whether the function compiled ends is up to its author.

Spurious wakeups are never fair, so no liveness property relies on them.

## 6 What is proved

TLAPS checks the following for every value of the constants that the `ASSUME`s
of the modules allow: any finite set of threads, any limit, any modulus from two
on, any set of names, statements and nestings, any functions of the interpreter,
any integer types up to any width of the word.

| theorem | says |
|---|---|
| `ReadWriteMutexProofs!TypeCorrect`, `Counting`, `MutualExclusion`, `NoLostWakeups` | `[]TypeOK`, `[]CountersAgree`, `[]Exclusion`, `[]NoLostWakeup` |
| `ReadWriteMutexProofs!Implements` | `ReadWriteMutex` implements `ReadWriteLock` |
| `BarrierProofs!TypeCorrect`, `Counting`, `NoLostWakeups`, `NotLapped` | `[]TypeOK`, `[]CountAgrees`, `[]ReleasedAreAwake`, `[]NeverLapped` |
| `BarrierProofs!Implements` | `Barrier` implements `BarrierGroups` |
| `ConcurrencyProofs!TypeCorrect`, `PutQueueExact`, `NoLostWakeup`, `EachDeliveredOnce` | `[]TypeOK`, `[]PutQueueCounts`, `[]SleepsOnlyWithoutMatch`, `[]DeliveredOnce` |
| `ConcurrencyProofs!PriorityFirst`, `BoundedTwice` | `PriorityNotOvertaken`, `[]UserMessagesBounded` |
| `ConcurrencyProofs!SendersWokenWhenRoom` | `[]SendersSleepOnlyWhenFull` of the behaviours in which the limit stays |
| `ConcurrencyProofs!ImplementsAbstract` | `MessageBox` implements `Mailbox` |
| `TaskPoolProofs!TypeCorrect`, `QueueAlwaysWellFormed`, `RunAtMostOnce`, `NotAllAsleep`, `FinishAlwaysDrains` | `[]TypeOK`, `[]QueueWellFormed`, `[]RunOnce`, `[]SomeWorkerAwake`, `[]FinishDrains` |
| `TaskPoolProofs!ImplementsQueue` | `TaskPool` implements `TaskQueue` |
| `CriticalSectionProofs!TypeCorrect`, `CreatedOnceAlways`, `MutualExclusion`, `AllDestroyedAlways` | `[]TypeOK`, `[]CreatedOnce`, `[]Exclusion`, `[]AllDestroyed` |
| `ConcurrencyProofs!RegistryTypeCorrect`, `RegistryListed`, `RegistryUnnamed` | `[]RegistryTypeOK`, `[]NamesListed`, `[]LeaversUnnamed` |
| `JumpScopesProofs!LegalAccepted`, `BackwardChecked`, `ForwardChecked` | `[]LegalJumpsAccepted`, `[]BackwardJumpsChecked`, `[]ForwardJumpsChecked` |
| `CompileTimeProofs!StackInvariance`, `TypeCorrect`, `ReadsAlwaysAgree`, `AssertionsAlwaysHold`, `FramesAlwaysRestored` | the invariant below, `[]TypeOK`, `[]ReadsAgree`, `[]AssertionsHold`, `FramesRestored`, for calls whose arguments are apart |
| `ValueRangeProofs!PlusSaturates`, `SubtractSaturates`, `TimesSaturates`, `DivideSaturates`, `LessIsLess` | `+`, `-`, `*`, `/` and `<` of 65-bit numbers are those of the numbers meant, cut off at the ends |
| `ValueRangeProofs!FoldsAsCompiled` | `[]FoldAsCompiled`, without any exception |
| `ValueRangeProofs!RangesSound`, `AlwaysSaturates` | `[]RangeSound`, `[]Saturates`, where the four exceptions of `Avoided` are made |

**ReadWriteMutex.**  The inductive invariant is type correctness, the counters,
exclusion and two facts that `NoLostWakeup` follows from.  It is not inductive
itself: it says that somebody awake gets in, but the step after one such thread
has changed its mind (it goes back to sleep because another one took the lock,
and then that one unlocks) needs to know which side was notified.  So the
invariant says it of each side: no reader sleeps while no writer is active (and,
with `PREFER_WRITERS`, none queued), which is `NoWriterMeansReadersAwake`; and a
free mutex has an awake writer among the queued ones where the policy gives it
to a writer (`FreeMeansWriterAwake`).  The
lemma `Move` about how the sets of threads in each state change, and their
cardinalities, carries the counting.

**Barrier.**  The invariant is the conjunction of what is to be proved.
`ReleasedAreAwake` needs that the next group number differs from this one
(`NextGroupDiffers`), which is where a modulus of one would fail.

**MessageBox.**  The invariant has four parts besides the type.  `Counting`:
`m_putQueue` is the number of senders that wait, and a number is left for the
message of each of them.  `Sleeping`: what the receiver has been through in this
`receive` holds no match that was not declined, `m_localBox` is all it has been through when it sleeps,
and it sleeps only when nothing is shared; `SleepsOnlyWithoutMatch` follows.
`Numbers`: the lists are in order of acceptance, what has been fetched is before
what is shared, and what an operation has taken is in no list; this is
what makes the concatenation of three lists one queue, so `DeliveredOnce`,
`PriorityNotOvertaken` and the refinement follow.  Two properties need more.
`Bounded` says of each list how much it may hold: `put` compares the limit with
what is shared and what *had been* fetched when `m_localMsgs` was set, so the
bound is twice the limit and no better.  `SendersSleepOnlyWhenFull` is not a
property of all behaviours: `setMaxMsgs` may raise the limit under senders that
wait and notifies nobody (`concurrency.d:1841`, one of the hazards).  The
theorem says it of the behaviours in which nobody does.  The module assumes
that kinds of messages are not threads (`KindsAssumption`), so that a notice of
the end of a thread matches no operation on values.  `EachDeliveredOnce` says
that an operation takes a standard message once at most: it returns, or throws,
and no later one is run on it.  It does not say that one operation only is run on a
message: one that declines leaves it for others, and `get` runs the same one on it
again when it goes through its lists once more.

**TaskPool.**  `Chain(q)` says that `head`, `tail`, `next` and `prev` are a list
of the elements of the sequence `q`.  The lemmas `PopChain`, `DeleteChain`,
`DeleteStranger` and `EnqueueChain` say what the code's operations make of a
chain: the tail, the sequence without its `k`-th element, the same, and the
concatenation with the group.  `QueueIsChain` says that following `next` from
`head`, the definition `Queue` that TLC evaluates, gives that `q`.  The actions
fall into five `Effect`s: nothing happens to a task, a thread takes one, runs
it, ends it, or a client puts some; `Listed` (the chain holds tasks that are put
and not started) and `Jobs` (a task that a thread has taken is that thread's
alone) are preserved by effect, not by action.  A task counts as put (`Submitted`)
from the step that queues it; `InPut` says that what one client is about to queue
no other one is, nor is it `Submitted`.  `Awake` adds that while the pool
runs only workers sleep in `pop`: with a client among the sleepers, `put` could
wake it in place of a worker.  That needs `Control`, which says that a client is
in the work loop only after it has called `finish`.  `Drains` adds that a thread
on its way from an empty queue to the assignment of `stopNow` still finds it
empty: `put` is refused then.  The refinement follows from `Listed` and `Jobs`.

**CriticalSection.**  `CreatedOnce` needs what the double check establishes in
between.  `GcsMutex`: between the two checks and the store, the thread has the
mutex of `gcs`.  `Flags`: a section whose `next` is set has its mutex; one
whose `next` is not set has none, except the one that the holder of `gcs` is
linking.  `Progress`: what each step of `ensureMutex` may rely on, among it that
`ohead` is never null, which holds because the list is not empty at first.
`Holds` then gives exclusion: whoever is inside owns a mutex that exists, and
`InitMutex`, which would take it away, can only run on a section without one.
`AllDestroyed` needs that the sections with a `next` are a list from `head`
(`IsList`: a position for each, one more than that of its `next`); `LinkedIsList`
shows by the least counterexample that following `next` meets all of them.

**Registry.**  The invariant is the conjunction.  `NamesListed` is preserved by
`Unregister` because the element that is overwritten is the first of that name
and the one that takes its place is kept at the end as well; the least element
of a set of naturals is obtained from well-foundedness (`RegistryMin`).

**JumpScopes.**  None of the three properties is inductive: they speak of where
labels and jumps really stand, the code of the levels it believes them in.  The
invariant connects the two.  `Numbered`: levels have distinct numbers.
`Standing`: the level of a defined label is the innermost open one of those it
was defined in.  `Flagged`: its flags say whether one of those that ended was a
`try` or `catch` block.  `Waiting`: a pending jump is believed to stand in an
open level, and was not made in any inside that one, so that what
`check_previous_goto` walks over is entered.  `Remembered`: the converse, for
jumps during which no level ended, which is all the code can know.
`BackwardResolved`: a jump to a defined label stays one.  `PopKeeps` is the
heart of it: popping a level moves labels, flags and pending jumps at once.

**CtfeStack.**  The properties speak of the current frame, but the end of a call
uncovers the one below, so the invariant says the same of every level: the
frames on the stack, the current one last.  `LevelOK` is about addresses: every
slot of a level belongs to a variable of its function and has saved the address
this variable has in the level below, and a variable without a slot in a level
has its address from there.  This is what `popAll` needs, because it lets the
highest slot of a variable decide (`PopAllRestores`), and what `pop` does not
disturb when it leaves a slot behind.  `ReadOK` is about values: a variable that
is in scope reads its location, at once or through *one* reference to a variable
of another function.  One is enough: `visit(VarExp)` strips references from an
argument before it is stored, and an argument that is a variable of the function
called is not stored but has its address copied.  So `Lvalue`, which follows at
most as many references as there are variables, follows one (`LvalueOnce`).
`Separate` says that two variables of any two frames share a slot just when they
share a location, which an assignment through a reference needs.  The heart of
it is `Bound`, what is true after some of the parameters have been bound: the
caller's variables are where they were, those bound stand for their arguments,
the slots pushed have saved what they must (`BindStep`, `BoundAfter`).  `open` is
part of every level: a variable whose initializer is being interpreted has its
slot in the level that declares it, whatever that initializer calls, and
`Initialize` finds it there (`EnterStep` covers it, `Declare` and `PushDollar`).
`FramesRestored` follows because only `Return` takes a frame away.  Two
assumptions are made.  `~RepeatedArgs`: no argument is a parameter of the
function called or one of its variables passed twice; without it the
properties fail (section 7).  `DeclaredOnce`: a `VarDeclaration` belongs to one
function and has one role in it; the front end makes a new one for each
declaration.  TLC evaluates this on `CtfeStack.cfg`.

**SignExtendedNumber.**  `WordOf` says what the remainder by 2^64 is within two
lengths of a word; with it, the carry of `operator+` is decided by cases on the
two signs.  `SubtractSaturates` adds `NegateNegates` and the special case of the
least number.  `operator*` finds an overflow by a division, which `ProductBound`
shows to be exact.  `operator/` has three ways to divide the least number, which
no word holds the absolute value of: by one, by other powers of two, and by the
rest, where it divides the greatest word instead; `LeastDivided` shows that this
is the same, because only a power of two divides 2^64.  Together the five
theorems are `Saturates` for every pair of numbers.

**ConstFold.**  The invariant is `Agrees`: the word an expression folds to is the
number it is at run time, taken modulo 2^64, and that number is one of its type.
That is more than `FoldAsCompiled`, which only says what the word means in the
type; a word whose upper bits are not those of the sign would mean the same and
give another quotient.  For `+`, `-`, `*` and the unary operators, numbers that
are congruent modulo the size of the type stay so (`SumsAgree`), and
`NormalizeIs` says that `IntegerExp::normalize` picks the one of the type.
Divisions and shifts to the right are not compatible with congruence; there the
operands are the numbers themselves or, unsigned, their words.  `&`, `|` and `^`
do not look beyond the bits of the type (`BitwiseAgree`), because the bits above
and below any place are taken for themselves (`AndSplit`, by the least place
where that fails).  This uses that `WordAndTable` is a function with the equation
it is written with, which `AndTableExists` shows.

**IntRange, ValueRange.**  The inductive invariant is `AlwaysSound`: `Agrees`, and
the range *covers* the number, which is that its bounds are 65-bit numbers in
order, with the number between them.  Each kind of operator has lemmas which
say that the range made of ranges that cover the operands covers the result
before it is cut to the type, if no bound was cut off:

- Casts.  `castUnsigned` and `castSigned` move a range that lies in one chunk of
  the type's length and give the whole type otherwise (`CastUnsignedCovers`,
  `CastSignedCovers`).  A number moves with its range because it lies in the same
  chunk; in the signed case chunks start at half their length.
- `+`, `-`, `*`: the extremes are at the corners (`ProductBetween` for `*`).  `/`:
  the quotient that C++ truncates rises or falls with the dividend and with the
  divisor, by their signs (`QuotientRises`, `QuotientShrinks`), and a range of
  divisors with zero in it gives the whole type.  `%`: what is left is smaller than
  the largest divisor and has the sign of the dividend (`ModCovers`).
- Shifts.  `CountPowers` turns a count into a power of two between those of the
  bounds; then `<<` is a product (`ShiftLeftSaturates`), and `>>` is a quotient
  rounded down (`ShiftRightFloors`), which has its extremes at the corners again
  (`FloorMonotone`).  The width itself may be the bound of a count, and there
  `Beyond` decides.
- `&`, `|`, `^`: the ranges are split at zero (`HalvesCover`), so that all numbers
  of a part have one sign.  Then every word of a part has the bits of its bounds
  above the mask of the bits that vary (`SameAbove`, `MaskFacts`), which gives
  `AndBetween`, `OrBetween` and `XorBetween`.

`RangeSound` is not true of every expression: section 7 has four ways in which
the code fails.  The theorem assumes that these four are not made (`Avoids`, the
value of `Avoided` with which TLC runs `value_range`).  Of the guards that leave
them out, `Truth` is used for casts to `bool`, `Character` for casts to `dchar`,
`Steady` for counts that may be the width, and `Reached` for results whose bounds
were cut off and are then moved by a cast; operators, types, literals and nesting
are otherwise unrestricted.  `FoldsAsCompiled` does not need them.  `Saturates`
speaks of the bounds that arise; it follows from the five theorems about numbers
once bounds are known to be numbers.

The provers know no powers.  That `2 ^ 0 = 1`, and that each power up to
the width is a natural and the next one twice as large, are assumptions of
`SignExtendedNumber` (`WordAssumption`, `PowersAssumption`), true of every width.
All else is derived from them: sums of exponents, that powers divide larger ones
and that nothing else does (`PowerSum`, `PowerDivides`, `DivisorsOfPowers`).
`IntRange` assumes that there are the types which the code names, that `bool` has
one bit and that characters fit into `dchar` (`TypesAssumption`).  TLC evaluates
all of them for the types of the run.

The type invariants of `ReadWriteMutex`, `Barrier`, `MessageBox`, `TaskPool`,
`CriticalSection`, `Registry`, `JumpScopes` and `CtfeStack`, and `CountersAgree`,
`CountAgrees`, `PutQueueCounts`, `DeliveredOnce`, `RunOnce` and the `Exclusion` of
readers and writers, are proved and are no longer part of a run; most of them are
contained in the refinements that runs check.

Only model-checked:

- Liveness under fairness: `QueuedReaderEnters`, `SomeWriterEnters`,
  `ReleasedLeave`, `ReceiveReturns`, `SendersGetRoom`, `WorkersEnd`,
  `QueuedTaskStarts`, `ForceReturns`.  TLAPS does not reason about fairness and
  `ENABLED`.
- `CtfeStack` with `RepeatedArgs = TRUE`, where the properties do not hold.
- The five invariants of `ControlFlow`.  `BlockExit`, `Semantic`, `Interpret`,
  `Lower` and `Flow` recur over statement trees in `RECURSIVE` operators, of which
  the provers know nothing.

The library's induction theorems take an operator as a parameter, which the
installed provers cannot instantiate.  Where a proof needs an induction over
numbers (`LinkedIsList`, `QueueIsChain`, `RegistryMin`, `BoundAfter`, and the
lemmas about bits and powers) it takes the least
counterexample instead, which exists because `<` is well-founded on the naturals,
a fact the library states about a set of pairs.

## 7 Where code and documentation disagree

Each line below is a behaviour of the code that contradicts a sentence of its
documentation, a comment, or what the code elsewhere relies on, and TLC shows
it.  The passing runs leave these cases out by name or state what still holds;
to see one, run TLC with the configuration named, or with that of the run and
the change named.

In the libraries:

| configuration | the text | what the code does |
|---|---|---|
| `MailboxDeadNotice.cfg` (`SendersGetRoom`) | a sender waits until room is available (`concurrency.d`:884) | the notice of a thread that was spawned without a link is never removed and counts against the limit: with a limit of one the next sender waits for ever |
| `PoolTwoForce.cfg` (`ForceReturns`) | a task in progress is waited for (`parallelism.d`:602) | a thread that executes its own task in `tryDeleteExecute` (1270) does not wake others that wait for it |
| `RegistryStale.cfg` (`OthersKeepNames`) | the names of a thread that terminates are unregistered (`concurrency.d`:996) | `unregister` (1041) leaves the name in the thread's list, and the thread's end takes the name from whoever has it since |
| `LimitRespected.cfg` of `MailboxDocumented` | `setMaxMailboxSize` limits the user messages in a mailbox (914) | what `get` has fetched is counted only when it looks at the shared lists again, so there may be up to twice as many |
| `MailboxOrder.cfg` with `Limits = {1, 2}` (`SendersSleepOnlyWhenFull`) | a sender waits until room is available (884) | raising the limit notifies nobody |
| `ClosedStaysEmpty.cfg` of `MailboxDocumented` | `close` rejects future messages (2130) | a sender that waited for room does not look at `m_closed` again |
| `PriorityTakenFirst.cfg` of `MailboxDocumented` | a priority message goes to the front (610) | what an earlier `receive` has fetched is looked at first |
| `OwnerEndReportedLast.cfg` of `MailboxDocumented` | `OwnerTerminated` if no existing message matches (1911) | the notice ends the scan where it stands in the list; a matching message behind it is not looked at |
| `UrgentDeliveredOnce.cfg` of `MailboxDocumented` | a message whose handler throws was handled (2004) | `pty` keeps it, and the next `receive` handles it again |

In the compiler.  A configuration for `MCControlFlow` is `ControlFlow.cfg` with
`SPECIFICATION Spec` and `Programs <-` the operator named, which has the one or
two functions in question.

| configuration | what was to be expected | what the code does |
|---|---|---|
| `JumpScopes.cfg` with `EveryJumpChecked` | "Need to error if the goto is jumping into a try or catch block" (`toir.cc`:369) | `pop_binding_label` moves all pending jumps of a label outward when any scope ends, also those made outside of it: a jump forward into a `try` block in which a scope has ended is accepted |
| `CtfeStack.cfg` with `RepeatedArgs = TRUE` | the assertions at `interpret.c`:978 and 983, and what they protect | a function that passes one of its variables twice to itself by reference, or its own parameter, binds the second to the first one's fresh slot: an assertion fails or a variable reads another one's value |
| `Programs <- FinallyJumps`, `FinallyJumpHandled` | a jump inside the `finally` body "will be handled by the ScopeStatement" and one out of it is "disabled in semantic analysis" (`interpret.c`:1826, `visit(TryFinallyStatement)`) | nothing handles the first; what stands behind the jump is not run at compile time.  A `goto case` or `goto default` out of the body is accepted (`statementsem.c`:2315 and 2326 do not look at `tf`), the compiled code jumps, and the interpreter drops the jump (1860) |
| `Programs <- TryJumps`, `CompileTimeAsRunTime` | handlers apply to the whole `try` body | after a `goto` within the body, found by walking the tree with `start` set, the handlers are passed over |
| `Programs <- DoBreaks`, `RewritingKeepsMeaning` | `blockExit` names every way out | for a `do` loop whose body does not reach its end, a `break` (`statement.c`:331) is overlooked when there is another way out; the code behind is believed unreachable and its `try` statement dropped |
| `Programs <- HaltingBranches`, `ConstructsOnce` | "one path skips constructor", "multiple constructor calls" are errors | where two branches end in `assert(0)`, `mergeCallSuper` (`scope.c`:264) forgets that `super()` was called on a path that has returned; the implicit call comes on top |
| `Programs <- LogicalAssignments`, `ConstructsOnce` | "field %s must be initialized in constructor" is an error (`func.c`:1678) | `AndAndExp::semantic` and `OrOrExp::semantic` (`expression.c`:13768) merge `callSuper` and leave `fieldinit` as the right operand made it: a field assigned behind `&&` counts as initialised though the operand may be skipped.  `CondExp::semantic` merges both |
| `Programs <- LabelledContinues`, `EveryLabelDefined` | a labelled `continue` of a `foreach` over a tuple | the label is made for the loop, and defined for its iterations only (`toir.cc`:672): GCC reports an undefined label |
| `ValueRange.cfg` without `"truth"` | a value is in its range | `castUnsigned` takes a range modulo 2 for `bool`; 2 is `true` and gets the range [0, 0] |
| `ValueRange.cfg` without `"character"` | the same | `castDchar` cuts the range at the last character, which the conversion does not do |
| `ValueRange.cfg` without `"count"` | the same | a count that may be negative gets the range [0, 64], and a word shifted right by 64 is the word itself on x86 |
| `ValueRange.cfg` without `"cut"` | the same | a bound that saturated is then taken for exact and moved by whole chunks, away from the values beyond it |

## 8 What is not modelled

- *Data.*  Messages are types and kinds, tasks are names; variants, delegates
  and results are left out, and so is memory management, with the free list of
  `MessageBox`'s nodes.
- *Time.*  A timed wait may end at any time.  That `receiveTimeout` starts its
  period again after each wakeup is not visible.
- *Nested calls.*  An operation given to `receive` does not call `receive`; a
  task does not call the pool.
- *Failures of tasks.*  A task that throws is not distinguished from one that
  returns; one that throws an `Error` inside `tryDeleteExecute`, and so never
  becomes done, is not modelled.
- *The program's end with daemon threads*, which go on while
  `_d_critical_term` destroys mutexes.
- *The Windows build* of condition variables, which has an algorithm of its own.
- *Reordered accesses.*  Outside the mutexes `taskStatus` and `status` are read
  and written with `atomicLoad` and `atomicStore`, which are sequentially
  consistent by default.  The destructor of a scoped task (`parallelism.d`:752),
  which reads `taskStatus` plainly before it calls `yieldForce`, is left out.
- *A sender that waits when the receiver terminates* waits for ever: `close`
  does not notify `m_notFull`.  Nothing is documented of that case, and
  `SendersGetRoom` excludes it.
- *Expressions in statements.*  The control flow models know events, calls that
  may throw, and `&&`, `||` and `?:` of these, behind conditions that are open
  and do nothing themselves.  `assert(0)` as an operand and the destructors of
  temporaries are left out.  Destructors of variables are `finally` bodies, as
  the front end makes them.
- *Statements that are rewritten first*: `foreach`, `while`, `synchronized`,
  `with` over a temporary; and `asm`, which CTFE refuses.  A switch has one
  `case` and a `default`.
- *GCC after GENERIC.*  `Lowering` and `ControlFlow` take GCC's own passes and
  the unwinder to be correct; what they do with `TRY_FINALLY_EXPR` is marked
  external.  Exceptions of two functions on the stack are not combined there.
- *Values.*  `CtfeStack` knows numbers and references to variables, not arrays,
  structs, pointers or slices, and the value that is assigned to an existing
  variable is computed without a call.  `ValueRange` knows integers; floating point,
  comparisons and pointer arithmetic are left out.
- *Types, templates, overloads, parsing*: most of the front end's lines.  They
  define the language; there is nothing shorter to check them against.
- The components listed as such in section 1.

## 9 Plan

Done, in this order: `PosixCondition`, `ReadWriteMutex` with its abstract lock
and proofs, `Barrier` with its groups and proofs, `MessageBox` with `Mailbox` and proofs,
`TaskPool` with `TaskQueue` and proofs, `CriticalSection` and `Registry` with
proofs,
`JumpScopes` with proofs, `CtfeStack` with proofs, the five modules of `ControlFlow`, and
the four of `ValueRange` with proofs.

Next modules, the most shared state first:

1. `ObjectMonitor` (`rt/monitor_.d`): the race of `ensureMonitor`, shared
   monitors and their count, dispose events.  Abstract specification: one
   monitor per object, freed once.  Two objects, three threads.
2. `InitOnce` and `FiberScheduler` (`concurrency.d`): flag and lock; dispatcher,
   fibers, `FiberCondition`, generators.  Abstract: a fair round of fibers.
3. `ThreadSuspension` (`core/thread.d`): start, attach and detach, suspend and
   resume, critical regions, join at the end.  Abstract: a world that is either
   running or stopped.  Three threads.
4. `Threads` with several mailboxes, links both ways and `Registry`, composed:
   the end of a thread as one protocol (`ThreadInfo.cleanup`, `MessageBox`,
   `Registry`), with nested receives.
5. `TaskPool` with throwing tasks, pools of one task (`executeInNewThread`) and
   daemon workers.
6. `RuntimeInit` and `SharedLibraries` (`rt/dmain2.d`,
   `rt/sections_elf_shared.d`): paired counts per thread and process.
7. `ModuleOrder` (`rt/minfo.d`): the order of constructors against a reference
   definition over small import graphs.
8. `WindowsCondition` (`core/sync/condition.d`): shown to implement
   `PosixCondition`, with spurious wakeups.
9. `AppendCache` (`rt/lifetime.d`), `AssocArray` (`rt/aaA.d`), each against a
   map or a set of extents; and of the front end the deferred semantic analysis
   of modules.

Next proofs:

1. `ControlFlow`, with statements as elements of a finite set, each with its
   children, and the visitors as recursive functions over that set; first
   `BlockExitSound`, by induction over the nesting.
2. `ObjectMonitor` and `ThreadSuspension`: their safety invariants.
