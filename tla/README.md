# Verification of libasync

TLA+ models, TLC runs and TLAPS proofs for libasync, an asynchronous C++ library: promises, task loops, event
targets, TCP sockets on epoll or kqueue, generators and async functions. Source paths are those of the repository
(`headers/` and `src/`, under `src/` here). Every definition is translated from the C++ code; the lines it models
are listed in `PROJECT.json` under `map`.

## 1. The system

| Component | State | Operations |
|---|---|---|
| **Promise** (`headers/promise.h`, `src/promise.cpp`) | per promise: status, value or error, `pending_callback`, two lists of wrappers; per thread: `pending_callback_queue` | constructor with executor, `PromiseCtx::resolve/reject`, `resolved/rejected`, `then`, `_catch`; `promise_task`, `call_back`, `associate_status` |
| **TaskLoop** (`headers/taskloop.h`, `src/taskloop.cpp`) | permanent and oneshot queue of each loop | `add`, `oneshot`, `run_once`, `run` |
| **EventMixin** (`headers/event.h`, `src/event.cpp`) | handlers by event and handle, a handle counter | `on`, `off`, `trigger` |
| **Socket** (`headers/socket.h`, `src/socket.cpp`, `socket1.cpp` of `src/Linux` and `src/FreeBSD`) | status, write buffer, `bytes_written`, queue of write promises, descriptor | `connect`, `write`, `close`, `reactor_on_event` |
| **ServerSocket** (same files) | status, descriptor | `listen`, `close`, `reactor_on_event` (accept loop) |
| **Reactor** (`reactor1.cpp` of `src/Linux`, epoll, and `src/FreeBSD`, kqueue) | descriptor table, a batch of events | `reactor_task`, `reactor_register`, `reactor_unreg` |
| **Generator** (`headers/generator.h`) | status, two saved contexts, value slots | `next`, `_throw`, `yield`, `yield_from` |
| **AsyncFunc** (`headers/async_func.h`) | a generator and a promise | `async_func`, `await` |

How they interact:

* `TaskLoop::run` is the only scheduler of a thread. `promise_init` and `reactor_init` add `promise_task` and
  `reactor_task` as permanent tasks of the thread's loop.
* Settling a promise does not call anybody: it appends the promise to the thread's `pending_callback_queue`, and
  `promise_task` runs the callbacks in the next round. Callbacks are user code and call every API again.
* `reactor_task` blocks in `epoll_wait` (on FreeBSD it asks `kevent` without waiting), then calls `reactor_on_event` of each reported socket, which triggers
  events, that is user handlers, and resolves write promises through `PromiseCtx`.
* `connect` resolves its promise from a "connect" handler, which ties Socket to EventMixin and to Promise.
* `await` registers callbacks on a promise that resume the generator, and suspends it.

There are no locks; within a thread the difficulty is **re-entrancy**. Almost every loop of the library is a
range-for loop over a container that the body, user code, may change; or it copies the container first. Further
sources of trouble are exceptions that leave such a loop halfway, edges that epoll reports only once, partial writes,
and contexts that are saved on one stack and resumed from another.

What makes each component correct:

* **Promise.** A promise settles once. Every callback whose promise settles its way is called once, in order, and
  never lost, whatever is registered while callbacks run. A derived promise settles as its callback said.
* **TaskLoop.** Oneshot tasks are started in order of submission, exactly once, and none is dropped by `clear()`.
* **EventMixin.** A trigger reaches exactly the handlers registered when it began; a removed handler is not called.
* **Socket.** Every byte reaches the kernel once and in order. A write promise is resolved when its last byte is
  with the kernel: not earlier, and eventually.
* **Reactor, life cycle.** An event reaches the socket it was raised for; "end" and "close" fire once.
* **Generator.** A yield returns to the last caller; no stack is lost or entered twice.
* **AsyncFunc.** An await resumes once, with the outcome of its promise, and never while the function runs.

## 2. Plan

| Step | Modules | State |
|---|---|---|
| 1 | `Promise`, `PromiseContract`, `PromiseInv`, `MCPromise`, `PromiseProofs` | done |
| 2 | `TaskLoop`, `TaskQueue`, `TaskLoopProofs` | done |
| 3 | `EventMixin`, `MCEventMixin`, `EventMixinProofs` | done |
| 4 | `SocketWrite`, `SocketWriteProofs` | done |
| 5 | `Generator`, `Coroutines`, `GeneratorProofs` | done |
| 6 | `Reactor`: descriptor table, batches, reuse of numbers, read side, `close`, `ServerSocket`, on epoll and kqueue; `ReactorProofs` | done |
| 7 | `AsyncFunc`: composes `Generator` with promises; `AsyncFuncProofs` uses `GeneratorProofs` | done |
| 8 | `EventLoop`: the loop as a whole, `promise_task` and a blocking `reactor_task` in both orders; `EventLoopProofs` | done |

Every safety property and every refinement of a passing run is also a theorem (section 5). Left open: a stack of
positions in `Promise` and `Reactor` for handlers that run the loop themselves (section 6).

## 3. The modules

Actions have the names of the functions they model where TLA+ allows it. Operators whose comment says "Broken
variant" are not part of the models: each is a definition as a plausible bug would make it, kept to show that a
property notices it (`mutants` in `PROJECT.json`). Variables under the comment "History" are read by properties
and bounds only.

### Promise

`Promises` stands for `PromiseData` objects, allocated one by one. A wrapper is a record: either the adoption that
`associate_status` stores on a pending inner promise, or a user callback with the promise it settles and the set of
errors its parameter type accepts. The thread's position is `pc` with a cursor into the queue and one into the
wrapper list; both containers grow under the cursors. User code is not written down: while `pc` is `idle` or `user`,
any API call may happen, any number of times, and a callback ends by returning a value, returning a promise, or
throwing. Details that matter and are kept:

* `Promise<T>::resolved` does not queue the promise, `Promise<void>::resolved` does, so a helper's own promise
  also passes through the queue (`Helper`). It has no wrappers and nobody holds it, hence one name is enough.
* `pending_callback` stays true until `call_back` ends; `then` relies on it.
* `eptr_cast` runs outside the helper's `try`: `BadCast` leaves everything as it is. Whoever called `run_once`
  may catch the exception (`idle`), or the process ends (`terminated`). `escapes` counts these exceptions for each
  promise whose `call_back` they left: `CallbackOnce` and `DerivedOutcome` give way for the callbacks of that promise
  only, and hold for all others although `promise_task` starts over on the same queue.

`PromiseContract` is the abstract specification: promises, reactions and their delivery, without queue or task.

### TaskLoop, TaskQueue

A call of `run_once` is a frame (loop, which of the two walks, position); tasks may run any loop, so frames form a
stack. `clear()` marks frames of outer calls that stand in the cleared list as dangling; going on from there is
undefined behaviour (`WalkFreed`). An exception unwinds one frame or ends the process. `TaskQueue` is what
`oneshot` promises: a FIFO per loop.

### EventMixin

`trigger` copies the store; a call is a record of the handlers still to be called, in the arbitrary order of an
`unordered_map`. Triggers nest. Handles are numbers from the counter. The bound on handles is `MaxHandles`.

### SocketWrite

One socket, from creation through `connect` and `write` to the `EPOLLOUT` half of `reactor_on_event`. Bytes are
numbers in order of submission, so the stream is checked byte by byte. The kernel is external: a send buffer of
`Capacity` bytes that the peer drains, a connection attempt that succeeds or fails, and edges. An edge is raised by
the end of the attempt, by space freed after an `EAGAIN` (at some moment before the buffer is empty), and by data
from the peer, with which epoll reports `EPOLLOUT` too. Each system call takes any number of bytes that fits.

### Generator, Coroutines

A saved context is modelled by the stack it continues on: `gen_ctx` by the stack of the code that called `yield`
(the generator's own, unless inner code yields an outer generator), `caller_ctx` by the stack that called `next`.
A switch is one action, because nothing runs between the assignments and `swapcontext`. `undefined` is reached by
the two dangling accesses the code has: `caller_ctx` after its frame returned, and `*in_val` when it is null.
Calls that change nothing (`next` on a finished generator, refused calls) are left out. `Coroutines` is the
abstract specification: a stack of coroutines, from which a suspension cuts off a segment and a resumption puts
it back. The refinement mapping computes stack and segments by following `caller_ctx`.

### Reactor

The reactor, sockets and server sockets of one thread, for both platforms: `platform` is chosen once, and the
handlers, whose text is the same in the Linux and the FreeBSD files, are modelled once (`map` names lines of either).
What differs is what the kernel reports (`EpollReady`, `KqueueReady`) and what happens to a number that is not in
the table (`Dispatch`). `reactor_on_event` is a sequence of steps (`step`), with a point after each `trigger` where
user code (`user`) calls the API; so `data->status` is tested in one step and used in another, as in the code.
`Close` ends in the middle too: its "close" handler runs before `reactor_unreg` (`closing`, a stack, because handlers
close sockets). `reactor_unreg` deletes the target, which may be the one whose member function is running (`freed`).
A descriptor number is the key of three tables: `fd` of the object, `table` of the reactor and `kfd` of the kernel,
which hands out the lowest free number. A connection is what system calls can tell of it: unread data, end of
stream, error, and for epoll whether an edge is unreported. The network is external and may do anything to a
connection at any time, within the bounds stated at its actions.

Errors are kept where they change what happens next: a read or a flush that meets the error of a connection clears it
and throws (`ReadThrows`, `FlushThrows`). epoll does not report again what the exception drops. kqueue does, but then
it also reports again what is thrown for, perhaps ahead of the rest: a broken connection with unsent data in the
buffer, and a waiting connection for which there is no number (`ThrowsAgain`). `ServerSocket::close` may be called any
number of times; on a number that has no owner any more it still deletes the object the table has under it.

`OwnDescriptor`, `Registered`, `ConnectedIsReal`, `SafeDispatch` and `LifeCycle` hold for everything a program does,
except for the things the code does not survive. These are recorded in `seen` and named in the properties: an event
in the batch of a socket that is closed, a `connect()` between two events of a batch, a "close" handler that opens
a socket, a server closed twice or by its own "connect" handler, an exception that drops a batch. Each exception was
found by TLC as a counterexample to the property without it.

### AsyncFunc

`Call`, `Await`, `Deliver` and `Ends` call the actions `next`, `yield`, `_throw` and `gen_wrapper` of `Generator`
(`INSTANCE`), so what is proved of `Generator` holds of async functions. Promises are used at the level of `PromiseContract`: an outcome and a list
of reactions, each delivered once by the task after the promise settled. An async call and its promise have one name.
`Await` may be called with the context of any function by any code, as long as the bound `MaxAwaits` lasts. A function
for which it is called while that is not being executed joins `misused`, and has callbacks in a queue that may resume
a later await of it (`crossed`). The properties are stated per function: what happens to `misused` ones must not
affect the others, whose reactions stand in the same queues.

### EventLoop

`TaskLoop::run` with the two permanent tasks, in the order in which the program initialised the modules. Any user
code may make promise callbacks due and submit oneshot tasks. The details of the lists are those of the other
modules; a list that is walked while it grows is a set here.

## 4. The runs

| Run | Instance | What it shows |
|---|---|---|
| `promise_safety` | 3 promises, one of them `Promise<void>`, 2 error types, typed and untyped `_catch`, 1 caught exception out of each promise's `call_back` | `NoLostCallback`; `CallbackOnce` and `DerivedOutcome` of every promise whose own `call_back` no exception left; the inductive invariant `IInv` |
| `promise_contract` | the same, one error type, handlers that accept it | `PromiseContract` is implemented; every due reaction is delivered; adopting promises settle |
| `promise_pass_through` | the same | **violated**: `then` / `_catch` do not pass on the other outcome |
| `task_loop` | 2 loops, 3 tasks, 3 frames, 2 nested calls, 1 exception | FIFO, nothing dropped, once unless interrupted, no dangling walk without self-nesting |
| `event_mixin` | 2 events, 3 handlers, 3 nested triggers | snapshot delivery |
| `event_off` | 2 events, 2 handlers | **violated**: `off` has no effect |
| `socket_write` | 3 writes of 0 to 2 bytes, send buffer of 2, 2 and 1 bytes per system call | the byte stream, promises not early, promises of a connected socket not never |
| `generator` | 3 generators | nested coroutines are implemented; no stack lost; undefined behaviour only after a stray yield or `_throw` |
| `reactor` | 2 sockets, or 1 socket and 2 servers; 2 descriptor numbers, epoll and kqueue, 1 of the exceptions in `seen` | events reach their socket, the stages of its life are told in order and once, `CONNECTED` is true, and what undefined behaviour takes |
| `reactor_servers` | 1 server with 1 socket whose peer sends, ends and resets, or with 2 sockets whose peers do not; 3 numbers | data, connection attempts and waiting connections are never left behind |
| `async_func` | 2 functions, 1 other promise, 2 awaits each, any of them misused | each await of a function used properly resumes once and with its own outcome; every await resumes, until a `RUNNING` function is suspended from outside; undefined behaviour takes misuse |
| `event_loop` | 3 callbacks, 3 oneshot tasks | what a blocking `epoll_wait` leaves undone, and what never starves |

Why the bounds are enough. Three promises allow a promise, a derived promise and a promise its callback returns, in
both orders of settlement, and a void promise with its helper's; a fourth adds no new relation between two cursors
and one queue. Two loops and three frames allow a loop to be run from its own task directly and through the other
loop. Two bytes of buffer with unequal system call sizes let each of the two write loops stop midway, at the end
and at zero. Three generators allow a segment of two to be suspended by the innermost and resumed from elsewhere.
Two numbers for two sockets (or a socket and two servers) make every `close` hand its number to the next object, and
two events in a batch are enough for the first handler to disturb the second; two servers let a closed one lose its
number to the other, or delete a socket that had it. Two connections to one server may arrive together, during the
accept loop or after it; `Programs` says which objects each program considered may make, `Talkers` whose peers send,
so that a server with two connections and a connection with data are separate instances of one run. Two functions with two awaits each nest, await each other, and leave a stale reaction to be
confused with a later await. `MaxSeen`, `MaxAwaits`, `MaxWrappers`, `MaxEscapes`,
`MaxDepth`, `MaxNested`, `MaxThrows`, `MaxHandles`, `MaxWrites`, `MaxLength`, `Programs` and `Talkers` are bounds of
the model only. `CHECK_DEADLOCK FALSE` is set where a program may really stop: the process terminated,
no promise is left to allocate, everything is written, all generators are done.

Symmetry is used for promises of the same type and for events, in runs that check only safety.

### Fairness

* `Promise`: weak fairness of the task's own steps. `TaskLoop::run` is an endless loop, and `promise_task` is one of
  its permanent tasks. Callbacks are assumed to return. No API call is assumed to happen.
* `TaskLoop`: weak fairness of the steps of `run_once` and of the return of tasks, strong fairness of the next
  round of the root loop, because `run` does nothing else but the model also lets the caller run other loops.
* `SocketWrite`: weak fairness of the two write loops, of the report of a raised edge (`reactor_task` is permanent),
  and of the kernel: the peer reads, and a connection attempt ends. `ConnectedWriteSettles` needs all of them.
* `Reactor`: weak fairness of the reactor's steps (the task is permanent) and of the return of handlers. Nothing is
  assumed of the network or of the program.
* `AsyncFunc`: weak fairness of the end of a body (it runs to an await or to its end), and of the delivery of each
  due reaction, which `promise_contract` checks of the promise machinery.
* `EventLoop`: weak fairness of the loop. No event is assumed to come: that is the question.
* `EventMixin`, `Generator`: none; their properties are about safety.

### What disagrees with the documents

The two violation runs are disagreements between the code and what the README says of it; each is described under
`findings` in `PROJECT.json`. Other places where the code falls short are stated as the exceptions of properties
that hold:

* A mistyped `_catch` handler makes callbacks of the same promise run twice (`CallbackOnce` allows it for these), and
  a task that throws makes oneshot tasks run twice (`OnceUnlessInterrupted`).
* Data written while a socket is connecting stays in the buffer (`ConnectedWriteSettles` leaves it out).
* A failed connection never rejects the promise of `connect`. On Linux "error" is not even triggered, because
  the read half of the event throws first; on FreeBSD a "connect" may follow.
* `connect` of a peer that has already ended its stream never settles (`ConnectSettles` leaves it out).
* `close()` of a connected socket never triggers "close" and leaves the table entry behind; on FreeBSD a peer that
  closes makes the socket CLOSED with its descriptor open for ever (`LifeCycle` and `SafeDispatch` allow for both).
* An exception drops the rest of the batch: for good on epoll, again and again on kqueue when its cause persists
  (`Excused` in `DataDelivered`, `ConnectSettles` and `BacklogAccepted`).
* An `await` called from outside its function throws, and its callbacks resume a later `await` of that function
  (`OwnOutcome` allows it for the function concerned).
* A blocking `epoll_wait` keeps callbacks or oneshot tasks waiting, depending on the order of initialisation
  (`BlockedLeaves`).

## 5. The proofs

Every safety invariant, every refinement and no liveness property of the passing runs is proved, for all values of the
constants. Each proof has the same shape: an inductive invariant `Inv` (named differently where noted), a lemma for
the initial states, one lemma per action, and a theorem per property that follows from `Spec => []Inv`. The invariants
were checked by TLC on the instances of the runs before they were proved; `IInv` still is, in `promise_safety`.

Each proof rests on the module's `ASSUME` and nothing else: that sets which name different things are disjoint, that a
handler accepts a set of errors, that bounds are numbers and sizes of buffers positive, and that the generators and
the descriptor numbers are finitely many. The bounds that are constants are arbitrary in the proofs. Those that are
written into a guard, and marked `Bound` in a comment, hold in the proofs too; the ones that matter are in `Reactor`
(unread data and a reset on one connection at a time, no handler throws after an exception has escaped).

| Module | Theorem | States |
|---|---|---|
| `PromiseProofs` | `TypeCorrect` | `TypeOK` |
| | `NoCallbackLost` | `NoLostCallback` |
| | `EnteredOnce` | `CallbackOnce` |
| | `SettlesAsProduced` | `DerivedOutcome` |
| | `Inductive` | `IInv` |
| | `Implements` | `ImplementsContract` |
| `TaskLoopProofs` | `TypeCorrect` | `TypeOK` |
| | `WalksAreSafe` | `SafeWalk` |
| | `EnteredOnce` | `OnceUnlessInterrupted` |
| | `Implements` | `ImplementsQueue` |
| `EventMixinProofs` | `TypeCorrect`, `Snapshot` | `TypeOK`, `SnapshotDelivery` |
| `SocketWriteProofs` | `TypeCorrect` | `TypeOK` |
| | `BytesInOrder` | `ByteStream` |
| | `NoneResolvedEarly` | `ResolvedMeansSent` |
| `GeneratorProofs` | `TypeCorrect` | `TypeOK` |
| | `NoStackLost` | `OneWayBack` |
| | `SafelyUsed` | `SafeUse` |
| | `Implements` | `ImplementsCoroutines` |
| `AsyncFuncProofs` | `OwnOutcomes` | `OwnOutcome` |
| | `NoneLost` | `NoLostWake` |
| | `AwaitsAreSafe` | `SafeAwait` |
| `ReactorProofs` | `TypeCorrect` | `TypeOK` |
| | `DescriptorsAreOwn` | `OwnDescriptor` |
| | `EventsFindTheirSocket` | `Registered` |
| | `DispatchIsSafe` | `SafeDispatch` |
| | `StagesInOrder` | `LifeCycle` |
| | `ConnectionsAreReal` | `ConnectedIsReal` |
| `EventLoopProofs` | `WhatBlocks` | `BlockedLeaves` |

### Promise

The invariant is `IInv` of `PromiseInv`. `TypeOK` alone is not inductive: `RunAdoption` and the ends of callbacks
update the promise named by the wrapper under the cursor, which has to be within a list that API calls extend.
`LoopInv` keeps the cursors within their lists and the current promise settled, `FreshInv` an unallocated promise
blank, `OuterInv` says that the promise a wrapper settles exists. The argument is monotonicity: every API call,
adoption and end of a callback is a `GrowStep`, which only appends to queue and lists and never touches a settled
promise's outcome, so the cursors stay valid (`GrowKeeps`); only the ends of the two loops clear anything.

* `NoLostCallback` is not inductive because a callback may be registered while `pending_callback` is still set and
  the promise is not queued again: `PendingInv` says that the flag implies a place ahead of the task, and that a
  settled promise with something to run has the flag.
* `CallbackOnce` needs that a stored callback belongs to one list (`StoredInv`: the order of registration), and that
  its count is zero exactly ahead of the cursor (`PassedInv`, `OnceInv`). An exception moves the cursor back only for
  the promise it was at: all others have been cleared or not been come to (`Quiet`).
* `DerivedOutcome` needs where a derived promise's outcome comes from (`OriginInv`, `ResultInv`): a wrapper that
  adopts is stored only on the promise the callback returned.
* The refinement needs that nothing registered is missing (`CompleteInv`). A round of `call_back` then is a delivery
  of the contract, an adoption one of its adoptions, and everything else a step of the API or a stutter.

### TaskLoop

Oneshot tasks are distinct (`DistinctInv`) and those that were entered are a prefix of each queue (`StartedInv`),
which is the refinement: entering the next task takes the head of the abstract queue. A call above another of the same
loop in its oneshot walk was made by a task (`ReenterInv`), so without that no frame dangles. `OnceInv` ties every
entered task that is still queued to the frame that is walking past it.

### EventMixin, EventLoop, SocketWrite

`EventMixin`: handles in a store are below the counter, and no call began with a higher counter than it has now
(`HandleInv`), so no handler can be mistaken for one that was registered before. `EventLoop`: `reactor_task` is
entered from the end of `promise_task` or from the begin of a round (`PhaseInv`), and what that leaves empty stays
empty until the wait returns (`WaitInv`). `SocketWrite`: bytes are numbered; what was sent and what is buffered are
consecutive (`StreamInv`), nothing is sent before the connection stands, so that an exception never leaves bytes sent
and not removed (`NetInv`), and every queued promise waits for the last byte of its own write (`FateInv`).

### Generator, AsyncFunc

`OneWayBack`, together with the types, is inductive: `Slot` names the context a generator's status makes the next
switch use, every switch exchanges the executing stack with the content of one slot (`Swap`, `SwapKeeps`), and the end
of an executor removes one generator with its stack. It holds in every state a stray yield leads to.

The refinement needs more, because the mapping follows `caller_ctx` and a step must not change the chains it does not
concern. `Nested` says that the generators fall into disjoint lanes, one for the main stack and one for each suspended
generator, in which each is the caller of the next, and that the innermost of the main lane executes. A resumption
appends a lane to the main one, a yield cuts the main lane, an end drops its last element; each is a lemma, and each
is the abstract step on the stack the mapping reads off the lanes. That the recursive function `Below` of the mapping
exists and is determined by its equations is proved with least elements of sets of numbers, since the library's
induction cannot be used here. A stray yield destroys the lanes, and the refinement allows for it (`Abused`).

`AsyncFuncProofs` composes: every step of an async function is a step of `Generator` (a lemma), so the invariant of
`GeneratorProofs` (included with `INSTANCE`) holds of the generators inside. On top of it, a suspended function has
the reaction of its await, always (`WakeInv`); and, if it is not `misused`, no other (`OneInv`), and that reaction is
of the current await of a suspended function (`ReactionInv`), until a RUNNING function is suspended from outside. A
delivery takes the first reaction of a queue, which shifts the others, those of misused functions among them
(`Shifts`); only a misused `await` can stray.

### Reactor

`Good` has four parts. `ObjInv`: the kernel's numbers are a bijection with the open descriptors, and a table entry may
be of a socket that is gone but never hides an open one. `ConnInv`: what status and connection say of each other.
`TaskInv`: where `reactor_task` may stand after a handler did what it liked, that is which sockets may be closed,
freed or unregistered at each step; it is the long part, because each point where user code runs lets the whole API in
between a test and its use. `EventsInv`: no event of a socket is ahead of its status. They hold until a server is
closed twice (`stolen`). That undefined behaviour has one of the named causes follows from them for each of the two
ways into it (`UndefinedBy`).

`ConnectedIsReal` has a second invariant, `AttemptInv`: the batch has no event of an attempt that is under way, and a
failed attempt whose error was read (only kqueue reports writability without a read in front of it) still has its end
of stream to be read, by an event that is due in the same batch, and this makes the socket HALF_CLOSED before another
event could call the connection established. A `connect()` in the middle of a batch, and an exception that drops the
rest of one, break it; those are the two exceptions of the property.

### What stays with TLC

* Liveness, which TLAPS cannot prove (`ENABLED`, fairness): `EveryReactionDelivered`, `AdoptionSettles`,
  `EveryOneshotRuns`, `ConnectedWriteSettles`, `DataDelivered`, `ConnectSettles`, `BacklogAccepted`, `AwaitReturns`,
  `NothingStarves`.
* The two runs that expect a violation.

## 6. What is not modelled

* `bind`, `local_addr`, `remote_addr`: they pass addresses on. Values that generators exchange.
* `epoll_wait` and `kevent` that fail, after which the reactor's descriptor is closed for good; SIGPIPE from writing to
  a connection that was reset; batches that fill the buffer of 64 events.
* Threads: there is no synchronisation in the code; each module is one thread.
* `run_once` called from inside a promise callback or a socket's handler, which re-enters `promise_task` and
  `reactor_task`: needs a stack of positions in each. `TaskLoop` has it for the loop itself.
* The two-argument `then`, which returns no value although it is declared to.
* Type machinery (`func_traits.h`, most of `misc.h`), error classes, memory management.
