# The Absolute runtime in TLA+

Absolute is a compiled language. Its repository holds a parser, an analyzer that
checks ownership, a code generator for LLVM, a standard library written in
Absolute, and a native runtime in C++. The state machines are in the runtime:
fibers on worker threads, wake-ups between them, synchronization objects that
serve fibers and native threads at once, and a table of generation-checked
pointers that is read without a lock. This directory models that runtime, model
checks it with TLC and proves its safety properties with TLAPS.

## 1. Inventory

Paths are relative to the repository; `tasks.cpp` and `pointers.cpp` are in
`Absolute-Runtime/src/`.

| Component | State | Operations | What is hard | What makes it correct |
|---|---|---|---|---|
| Fiber scheduler (`tasks.cpp`, `scheduler_fiber.h`) | per task: state, owner worker, wakePending, completion waiters; per worker: ready and pinned lanes; timer heap, `queued`, `stopping` | spawn, run, steal, suspend, resume, delay, await, destroy, shut down | a wake-up races with the switch off the fiber; timers are promoted by any worker; a Task is deleted by its awaiter | no wake-up is lost, nothing sleeps beside work, a fiber stays on its worker, no deleted Task is referenced |
| Priority lanes (`tasks.cpp`) | per worker two sets of lanes by priority and role, the list of roles with work, credits of the owner and of thieves | enqueue, choose, take | owner and thieves share lanes; credits of lanes that run dry; starvation | roles listed exactly once; a level, and new tasks beside continuations, are served within a bound |
| Managed slots (`pointers.cpp`) | slot: pointer, type, generation; free stack | create, adopt, get, type, destroy, transfer | lock-free reads beside reuse; 32-bit generations | a handle leads to its object or to nothing |
| Capsules, transfer channels (`pointers.cpp`, `tasks.cpp`) | handle, `transferred` flag; queue of capsules | create, unwrap, destroy, send, receive | who owns the object when a send fails or the channel is destroyed | one owner at a time |
| Channels, semaphore, RwLock, Once, Mutex, ConditionVariable (`tasks.cpp`, `std/concurrent.abs`) | a mutex, a condition variable for threads, deques of Task pointers, the object's own state | the blocking calls, the try calls, close and notify | a woken caller competes with others; two kinds of waiters | exclusion, nobody stranded beside what it waits for |
| Task groups, cancellation, deadlines (`tasks.cpp`, `std/task.abs`) | children, closed flag, flags of the control blocks and their chain of parents | add, cancel, join, destroy, await with timeout, when_any | join takes the children out of reach of cancel; a child is added between the two | a child is consumed once; a cancelled parent cancels its descendants; a group outlives its users |
| Blocking-I/O executor (`tasks.cpp`) | queue of calls, threads, `stopping` | submit, run, stop | a call submitted while stopping | every suspended caller is resumed once |
| Socket reactors (`socket_reactor.cpp`, `socket_reactor_kqueue.cpp`) | submitted and registered waits by socket, deadlines, what the kernel watches | submit, register, complete, time out, fail, stop | completion beside timeout, one-shot rearming, several waits at one socket, stopping beside a submission | a wait completes once, and it does |
| Network, HTTP, TLS, files, processes, time, JSON, strings | none shared between calls | conversions and system calls | errors of the system | functional |
| WebAssembly runtime (`Absolute-Runtime/wasm`) | a cooperative, single-threaded counterpart | the same calls | agreement with the native runtime | the task contract |
| Collections (`std/collections`) | arrays, buckets, ring buffers | insert, remove, iterate, grow | tombstones, growth, wrap-around of indices | agreement with a map or a sequence |
| Parser, analyzer, code generator, driver, plugins | per compilation | passes | ownership analysis over branches and loops; rollback of a failed plugin | deterministic functions of the source |
| Editor extension, tools, benchmarks, examples | - | - | - | - |

How the parts meet: user code calls the runtime; a blocking call of a fiber
(await, delay, I/O, any synchronization object) marks the task Suspending, leaves
its Task pointer with a waker and switches to the worker. The waker (a worker
that finishes a task or promotes a timer, an I/O thread, a process that unlocks,
sends or notifies) calls `Scheduler::Resume`. A native thread blocks on the
`std::condition_variable` of the object instead.

The hazards of this code, each at its line and with the properties that cover it,
are listed in `PROJECT.json` under `hazards`.

## 2. Modules

| Module | Models | Extended by |
|---|---|---|
| `FiberScheduler` | class `Scheduler`, `Wait`, delay, spawn, await, destroy, the hand-over to I/O threads | `MCFiberScheduler`, `FiberSchedulerProof` |
| `TaskContract` | what the task runtime promises a program, the abstract specification: who holds a handle, how it moves, when it is consumed, which worker runs a task | instanced by `FiberScheduler` |
| `FiberSchedulerProof`, `FiberContractProof` | theorems about `FiberScheduler` | |
| `Lanes` | the queue of one worker: `LaneSet`, `ChoosePriorityLocked`, the take calls | `MCLanes`, `LanesProof` |
| `ManagedSlots` | `pointers.cpp`: slots and capsules | `MCManagedSlots`, `ManagedSlotsProof` |
| `Blocking` | what every synchronization object shares: registering, popping, notifying, resuming | the five modules below |
| `Semaphore`, `Channel`, `RwLock`, `Once`, `Monitor` | the objects; `Monitor` is `Mutex` and `ConditionVariable` together | `MCSemaphoreOnce`, `RwLockProof`, `BlockingProof` |
| `TaskGroups` | handles, groups, cancellation and deadlines | `TaskGroupsProof` |
| `SocketReactor` | `EpollReactor` and `WaitSocketReady` | `SocketReactorProof` |
| `...Proof` | the theorems about each | |

A definition whose comment begins with `Fault:` is a deliberately broken variant
of the definition after it. Nothing uses it; it is there to show, by replacing
the definition, that a property notices that bug.

### FiberScheduler

One action per critical section of `Scheduler::mutex` or `Task::mutex` and one
per stretch of code under neither. `state`, `ownerWorker`, `wakePending`,
`waiters` are the fields of `Task`; `fiber` says what the code on the fiber does
while it holds its worker (user code, between `PrepareSuspend` and the arming of
its timer or I/O call, about to yield, finished); `ready`, `pinned`, `queued`,
`timers` are the queues; `due` are the timers whose deadline has passed, which
the code reads off the clock; `pc`, `cur`, `resuming` are where a worker thread
is in `Run` and `Execute`; `sleepsUntil` is the set of timers the worker's
`wait_until` takes into account. The main thread spawns and awaits and then
destroys the scheduler.

Deliberate simplifications: `notify_all` is part of the critical section it
follows (a worker that locks after the section sees the work anyway, so it
cannot park in between); `suspensionActive` changes with the state `Suspended`
and has no variable; which lane is taken is left open (`Lanes` decides it); a failed task is a
finished one.

Handles are linear tokens (`docs/task-scheduling.md`, 184-186): `holder` says who
has the handle of each task, in a variable or in a task group. A handle moves
when it is put into a group (`HandOver`); its new holder is whoever destroys that
group. Groups are passed down to the tasks in them, so this is an ancestor in the
forest of holders (`Elders`), and a task may complete before a task it has
spawned and handed over. What a holder still has when a scope ends is consumed
there: the code generator destroys task variables and the groups of a scope with
it (`EmitScopeCleanup`; `docs/task-scheduling.md`, 56-63), and a group's
destruction joins what is in it. So a task returns from its entry function, and
main from its own, with nothing left to consume (`HandlesConsumed`, the guard of
`Finish` and `Shutdown`). `TaskMain` makes no such check, and a native program that
calls the runtime itself and drops handles is outside the model. Which group a
handle is in, and when groups close, is the matter of `TaskGroups`.

### Lanes

One action per call, since all happens under `Scheduler::mutex`. A lane is the
number of its entries, which leave it in the order they came. `credits` are
`localCredits` and `stealCredits`, `Selected` and `Paid` the smooth weighted
round-robin of `ChoosePriorityLocked`, `roles` the lists `readyRoles`.
`TakeLocal` chooses a level and then between new tasks and continuations by
`takePinnedNext`. Two history variables count for how many choices a level, or
one side of a level, has been passed over while it had work.

### ManagedSlots

One action per load of the lock-free readers and one per store they can tell
apart: `destroy` takes the pointer out, clears the type, bumps the generation,
and runs the deleter after the unlock, in four actions between which readers
move. Readers load with acquire and the publishing stores are releases, so the
interleaving of these actions covers what the hardware may show: a reader that
sees a later object's pointer or type sees the generation that was stored before.
`issued` records every handle ever made with the object it was made for: the
properties are stated with it. An object stands for an allocation and its type.
Sealing an owner in a capsule (`Transfer`) makes a handle that only the capsule
has (`sealed`, as opposed to `known`), until it is opened (`Unwrap`) or destroyed
with its object (`DestroyCapsule`), by a receiver or by the channel it is queued
in. Aliases the sender keeps may be used at any time.

### Blocking and the synchronization objects

`Blocking` gives every process a control point (outside, at the head of the
loop, in a deque, popped from it, asleep on the condition variable, about to
notify, about to resume) and the steps between them. An object adds its own
state and says when a call succeeds, whom it pops and whom it notifies. The
critical section is one action; the notification and each resume are actions of
their own, so others can barge in. Condition variables may wake spuriously. The
order in a deque is left open, and so every order is covered. In `Channel` only
the number of queued elements counts, which makes it a model of the transfer
channel too. `Semaphore` computes in integers of a fixed width. `Monitor` adds
the program the documentation asks for: consumers that wait in a loop, producers
that notify once, before or after they unlock. `Once` follows `Once.call` of
`std/concurrent.abs`, which completes, or resets when the initializer throws.
In `RwLock` a process asks for the lock only while it holds none: a read
lock inside a read lock, which the code grants until a writer waits and then never
grants, is left out. Names that these modules would share begin with `Sem`,
`Chan`, `Once` or `Mon`, so that one module can extend them and prove about all,
and one, `MCSemaphoreOnce`, can check two of them in one run.

A resumed fiber runs again: that is `SuspendedRunsAgain` and `NoLostWakeup` of
`FiberScheduler`, and `Blocking` relies on it.

### TaskGroups

`status` says which runtime call a task is in; `handles`, `children` and
`awaited` are the three places a task handle can be: with the task that owns it,
in a group, or in the call that consumes it. A call that locks the group's mutex
is one action up to the unlock; `absolute_task_group_cancel_and_join` is two,
since it unlocks between marking the children and taking them, and other tasks
may add children there. `Add` to a closed group cancels the child and waits for
it, as `absolute_task_group_add` does. `Ancestry` walks the chain of
`TaskControl::parent`, which is how a cancellation reaches descendants. How a
call waits for a task is `FiberScheduler`'s matter. Bounded: a task creates one
group and joins it itself.

### SocketReactor

The fiber's side is `WaitSocketReady` with the two looks at `stopping` in
`Submit` (`Begin`, `Enqueue`) and the write to the eventfd after the unlock
(`Wake`). The thread's side is `Run` statement by statement: expiry, the
`epoll_wait` (`Poll`, which takes a batch of what the kernel reports), each ready
descriptor, the drained eventfd, the swap of `pending`, each registration, the
end of the batch. Every completion is a step of its own, after which the fiber,
and the wait on its stack, may be gone. `interest` and `known` are the kernel's
one-shot registration, changed only by `epoll_ctl`, which may refuse at any
time, and emptied when an event fires. A socket is ready to read, to write, for
both or has hung up, and changes in one of these at a time. The destructor sets `stopping` and then
wakes the thread.

## 3. What TLC checks

| Run | Instance | Properties |
|---|---|---|
| `scheduler_safety` | 3 tasks, 2 workers, 1 delay or I/O call per task, symmetry | `NoLostWakeup`, `NoSleepingOnWork`, `OnePlace`, `NoWorkDropped`, `StaysOnItsWorker`, `NoDanglingReference`, `GaugesExact`, `ImplementsContract` |
| `scheduler_liveness` | 2 tasks, 2 workers, 1 delay or I/O call per task | `SuspendedRunsAgain`, `ProgramEnds` |
| `lanes` | 2 levels, 2 roles, 3 entries, symmetry | `RolesExact`, `ShareKept`, `SourcesAlternate` |
| `slots_safety` | 2 threads, 3 objects, 2 slots, 3 generation changes, symmetry | `NoRevival`, `ReadsOwnObject`, `NullMeansExpired`, `EveryObjectOnce` |
| `slots_wrap` | 1 thread, 1 slot, generations 1..2 | `NoRevival` is violated |
| `semaphore_once` | a semaphore or a Once, 2 fibers, 2 threads, integers up to 3 | `PermitsInRange`, `NoStrandedWaiter`, `PermitIsOffered`, `ReturnsInitialized`, `ExactlyOnce`, `CallersGoOn` |
| `channel` | 2 fibers, 2 threads, capacity 2 | `NoneStranded`, `EndMeansDrained`, `ValueIsOffered`, `CloseReleasesAll` |
| `channel_close` | 1 fiber, 1 thread, capacity 2 | `CloseDestroysQueued` is violated |
| `rwlock` | 2 fibers, 2 threads | `Exclusion`, `NoStrandedWaiter`, `WritersGetIn` |
| `monitor` | 1 fiber, 2 threads, 2 tokens | `NoStrandedConsumer`, `ConsumerIsWoken` |
| `groups` | the main task and 2 others, 1 deadline | `OneOwner`, `GroupOutlivesMembers`, `WaitsForCancelled`, `DestroyReturns` |
| `reactor` | 2 waits, 1 socket | `OneHolder`, `ArmedExactly`, `EndsInTime`, `ReadyIsSeen` |

What the runs show beyond the names. `ImplementsContract` says that, in all
these interleavings, a fiber stays on one worker and runs in one place, and that
the handle of a task is consumed once, after the task has completed, by the
living holder it has come to. `GaugesExact` is about the counters between
critical sections: whoever holds the mutex a counter changes under, and a task
that has awaited another, finds them in agreement with the states; a snapshot
taken without a lock may fall between. `NoStrandedWaiter` and its relatives say that
nobody waits beside what they wait for unless somebody who will take it, or a
notification, is on its way; they are the safety half of the liveness properties
of the same run. `ShareKept` bounds how often a level with work is passed over:
of two levels of weights w and v, one is served in every (w + v) / w choices,
also when the other one runs dry and refills. This is so for two levels only.
Three levels that run dry in turns leave unbalanced credits behind, and a level
may then wait longer than its share (with weights 1, 2 and 3, eleven choices).
`OneOwner` is what makes `delete` of a task safe, and `WaitsForCancelled` why
destroying a group does not hang on a child that was added behind its back: such
a child descends from one that was marked. `OneHolder` is the same for a wait on
the stack of a fiber, and `ArmedExactly` is what one-shot registration needs
when several fibers wait at one socket.

Bounds. Three tasks on two workers are enough for a task that awaits a task that
awaits a third, for a task that hands its child to its own holder and completes
first, for stealing while the victim runs, and for a waker on another worker than
the sleeper's. `MaxSuspensions` bounds how often a task suspends on
its own account; a second suspension adds no new order of events between two
wake-ups, since the first one is settled before the fiber runs on. Two slots and
three objects let a slot be reused while another is not; `MaxChanges` bounds how
often generations change, and is smaller than `MaxGeneration` except in
`slots_wrap`. Two fibers and two threads give each object a waiter of each kind,
a process that wakes them and one that barges in. `MaxInt` is the width of the
semaphore's integers, `MaxTokens` bounds the tokens of the monitor's program,
`MaxCount` the queue of an unbounded channel (not used when `Capacity` is
positive). Two levels and two roles with three entries let each lane, each role
and each level run dry while the others have work. Main and two tasks are enough
for a child that adds its own child to its parent's group while the group is
cancelled, closed or destroyed; `MaxLate` bounds the deadlines that pass, which
act like cancellations. Two waits at one socket let one leave while the other
needs the registration, one be late while the other is ready, and one be
submitted while the thread stops or fails. A semaphore, a channel or a monitor
may leave all its users waiting for something nobody provides, and a reactor or
a family of tasks comes to an end, so these runs do not look for deadlocks; the
others do.

Fairness. `scheduler_liveness` assumes that worker threads, the main thread and
I/O calls make progress, that deadlines pass and that fiber code between two
runtime calls ends; it does not assume that lanes are served in any order. The
synchronization objects assume that a call that has begun goes on (weak fairness
of `Continue`), that an initializer ends or throws, and that a lock is unlocked
in the end; nobody is assumed to call anything, and no mutex is assumed fair.
`WritersGetIn` needs no fairness towards the writer beyond that, which is the
writer priority the documentation promises. `reactor` assumes that the reactor
thread runs, that a fiber in `WaitSocketReady` and a destructor that has begun go
on; sockets become ready, and `epoll_ctl` refuses, as they like. `groups` assumes
that runtime calls go on and that a cancelled task ends its scope: it destroys
its group, awaits its handles and returns, which is the cooperation the
documentation asks of cancelled tasks. A task that is not cancelled may run for
ever.

### The findings

`docs/weak-managed-references.md` says of reusing a slot that it "cannot revive
an old weak reference because its saved generation no longer matches". The
generation is a 32-bit counter that skips 0 and wraps around, and the free list
is a stack, so a loop that creates and destroys one object drives one slot
through all generations. `slots_wrap` shows the old handle leading to a new
object with a counter of two values; with the real counter it takes 2^32 - 1
reuses of one slot while the weak reference is kept. The theorems about
`ManagedSlots` state the promise with its exact precondition, fewer changes than
generations.

`docs/standard-library.md` (185-186) says: "Closing or destroying a transfer channel
destroys every queued owner that was not received." Destroying it does. Closing it
does not: `absolute_transfer_channel_close` sets `closed`, takes the waiters and
wakes them, as closing a plain channel does, and the queue stays. `channel_close`
shows a value still queued after a close has returned (a send, then the close). Its
owner can still be received, and lives on until then or until the channel is
destroyed. `EndMeansDrained`, which holds, states what the code does instead for
both kinds of channel: what was accepted before a close is received before the end
is reported.

## 4. What is proved

TLAPS checks the theorems below for every number of tasks, workers, threads,
objects, slots and generations. The assumptions on constants are the named
`ASSUME`s of the modules.

`FiberSchedulerProof`: an inductive invariant `IInv` is initial and preserved by
every action (`Invariance`), and implies `TypeOK`, `NoLostWakeup`, `OnePlace`,
`StaysOnItsWorker`, `NoDanglingReference` and `NoSleepingOnWork`. None of these
is inductive alone. Where a task is follows from its state and from its fiber's
point (a Running task is `cur` of the worker it is pinned to; a Suspended one is
on no queue and has exactly one waker), and `wakePending` may be set only while
the task is Suspending and its waker is gone: that is what makes the epilogue's
choice between suspending and running on right. Deletion is safe because a waker
of a task is never left when the task is done, which in turn needs that a task in
`Wait` has one awaited child and that the child's waiters are handed over under
the child's mutex. `NoSleepingOnWork` needs that parked workers covered every
timer then in the heap and that arming a timer wakes them.

The same module proves `NoWorkDropped` and `GaugesExact` from further invariants
beside `IInv`. A worker may leave the loop with a task in its hands while
`stopping` is set, and what it took would be lost; nothing is, since there is
nothing to take then. That rests on `FamilyInv`: handles form a forest rooted in
the main thread, which `HandOver` keeps since it moves a handle towards the root
(`NoWayRound`), and a finished fiber holds no handle that is not consumed
(`NothingHeldInv`), so the main thread, when it has consumed what it holds, has
outlived every task, whoever spawned it (`ShutdownFindsNoTask`, `StopInv`). While
the scheduler runs, `OwnedInv` and `RunnableInv` follow a task from queue to
queue, including the way from the timer heap or a waker to the pinned lane of
its owner. For `GaugesExact`, `TaskMoves` states for each action which tasks
change state and place, and the cardinalities follow.

`FiberContractProof`: every step of the scheduler maps to a step of
`TaskContract` or to a stutter (`Implementation`), from `IInv` and `FamilyInv`.
That `HandOver` is one takes that the elders of a running task live
(`EldersLive`), so that the handle can still be consumed, and that the task handed
over is not among them (`NoWayRound`). The contract says nothing of the order in
which a task and the tasks it spawned complete.

`ManagedSlotsProof`: assuming `MaxChanges < MaxGeneration`, an invariant relates
every issued handle to the generations its slot has been through, and gives
`TypeOK`, `NoRevival`, `ReadsOwnObject`, `NullMeansExpired`, `EveryObjectOnce`
and `DestroysOwnObject`. The reader's part needs, for each point between its
loads, what the value it holds says about the slot's generation then and now.
The handle in a capsule is level with its slot and known to nobody
(`CapsuleInv`), so nothing can expire it: two known handles of one slot and
generation are the same handle. That an allocation is nowhere twice and never
nowhere (`ApartInv`, `PlaceInv`) needs that the slot being filled is empty.

`LanesProof`: `RolesExact` and `SourcesAlternate`, for any levels, roles and
amount of work. `RolesExact` is inductive with the types. `SourcesAlternate`
needs that the side passed over is the one `takePinnedNext` prefers next
(`TurnKept`), which thieves do not change. `TwoLevelsShare` is `ShareKept` for
any two levels. The invariant (`Balanced`) bounds, for the owner and for the
thieves apart, how far the credit of the higher level is ahead of the lower
one's: by less than one round either way, and by as much less as the passed-over
level's waits are worth. A level that runs dry loses its credit but cannot leave
the bounds, since the sum of both stays within one round too.

`SocketReactorProof`: `OneHolder` and `ArmedExactly`, for any number of waits and
sockets. The invariant says where every outstanding wait is (`Holders`), what the
thread's place says of its lists (`Phases`), and that outside the descriptors
still to be processed in the batch the kernel's interest is what the waits ask
for (`Armed`).

`TaskGroupsProof`: `OneOwner`, `GroupOutlivesMembers` and `WaitsForCancelled`, for
any set of tasks. Handles stay with the task that spawned the child (`Family`),
and a living task that knows another task's group is among that group's children
or waited for by the call that closes it (`Membership`); so the group cannot be
deleted under it, and what it adds descends from a marked task (`Marked`).
`Ancestry` is defined as a least closed set, which needs no recursion.

`RwLockProof`: `Exclusion` and `NoStrandedWaiter`, for any number of fibers and
threads. The counters agree with the processes they count, waiting writers are
registered, and a fiber that is to be resumed is so by one process. From these
`NoStrandedWaiter` is inductive: whoever makes a condition true pops a waiter or
is about to notify, and whoever was popped still tries.

`BlockingProof`, for any number of fibers and threads, is about the other
synchronization objects:

- What they share is `HandedOver`: a fiber that has been popped is in the hands of
  exactly one process, which is about to resume it.
- `Semaphore`: `PermitsInRange` and `NoStrandedWaiter`. Registered waiters stay
  registered only while there are no more permits than callers that are up and
  will try, and no thread stays asleep beside a permit unless a notifier is on its
  way (`SemInv`). The check in `release` keeps every sum within the integers of
  the counter (`SemNoOverflow`).
- `Channel`: `ChanTypeOK`, `NoneStranded` and `EndMeansDrained`. The same argument
  for both ends at once: receivers wait while each queued element, senders while
  each free place, is spoken for (`Supplied`), which a thread that wakes for no
  reason, or a caller that barges in, must not upset.
- `Once`: `ReturnsInitialized` and `ExactlyOnce`, from the state and who is inside
  the initializer (`OnceInv`).
- `Monitor`: `MonTypeOK`, with mutual exclusion, and `NoStrandedConsumer`. That a
  token may lie beside a consumer that sleeps is excluded by `TokenInv`, which
  tells the sleepers that registered since the last notification (`Fresh`) from
  those whose generation has passed without their having been woken (`Passed`):
  beside a fresh sleeper each token has a process that is up (`Awake`), beside the
  others a notifier counts as well. `GenerationInv` makes `nativeWaiters` the
  number of the registered threads, which is what a notifier reads.

Every safety property that a run checks is thus a theorem, `ShareKept` for two
levels, which is what it is true of, and `NoRevival` and its relatives below the
wrap-around of the generations. Only model-checked: all liveness
(`SuspendedRunsAgain`, `ProgramEnds`, `PermitIsOffered`, `ValueIsOffered`,
`CloseReleasesAll`, `WritersGetIn`, `ConsumerIsWoken`, `CallersGoOn`, `EndsInTime`,
`ReadyIsSeen`, `DestroyReturns`), which rests on fairness and so on ENABLED, out
of the prover's reach.

## 5. Not modelled, and the plan

Not modelled: exceptions of tasks beyond their completion, exit from inside a
task, destruction of an object while somebody uses it (the type system's part),
the metrics other than `queued`, `suspendedTasks` and `completedTasks`, core
affinity, context switches themselves; cancellation tokens (one flag), `when_all`,
`when_any` and `await_timeout`, which poll other tasks; the IOCP and kqueue
reactors; initialization errors of the epoll reactor; and everything the table of
section 1 calls functional. Which queue holds a capsule is left out too: `Channel`
counts what is queued.

Most of the repository is the compiler: parser, analyzer, code generator and
driver run once per compilation, on one thread, over syntax trees. Their results
are functions of the source text, which small instances of a state machine say
little about, and the same holds of the graphics plugins, the WebAssembly platform
layer and the tools, which bind system interfaces. They are listed in
`PROJECT.json` with the reason.

Next, in order:

1. `when_all`, `when_any` and `await_timeout` over `TaskGroups`;
2. `BlockingIoExecutor`, and the executor and `SocketReactor` shown to implement
   the foreign waker of `FiberScheduler` (one resume per submitted call);
3. the queue of a transfer channel over the capsules of `ManagedSlots`, and the
   kqueue and IOCP reactors against the contract of `SocketReactor`;
4. collections (`hash_map`, `deque`) against reference definitions, the plugin
   loader's rollback, and the flow merge of the move analysis.

Abstract specifications worth stating: a semaphore, channel and lock without
waiters (who may proceed when), implemented by the modules over `Blocking`; a
reactor that completes every submitted operation once.
