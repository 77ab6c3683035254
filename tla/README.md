# TLA+ verification of pyObscuraProto

pyObscuraProto is the Python layer of a secure messaging protocol:
`src/src/ObscuraProto/__init__.py` (1985 lines) over pybind11 bindings
(`bindings.cpp`, 592 lines) of a C++ core that is a git submodule and not in
the repository. The Python layer's own logic is a bridge between three worlds
that schedule work differently: the core's I/O threads, Python's thread pools
and asyncio's event loop. That bridge is what is modelled here.

## 1. Inventory

| Part | State | Operations | Interacts with |
|---|---|---|---|
| **Await bridge**: `async_request`, `async_request_to_identity`, `_await_cpp_future`, `_consume_cpp_future`, `CppPayloadFuture` | `_consumed_cpp_futures`, `_request_executor` and its queue, one `result_future` a call, the `std::future` | submit, poll `ready()`, check the deadline, sleep, register, `get()`, `call_soon_threadsafe`, `_publish`, `wait_for` | the core settles futures; the loop runs callbacks; exit shuts the pool |
| **Callback dispatcher**: `_CallbackDispatcher`, `_wait_future_with_polling`, `_abandon_timed_out_future` | thread-local callback flag, error handler, loop, concurrent futures | `wrap`, `wrap_fire_and_forget`, `wrap_identity`, `set_error_handler`, abandon, forward an error | called on I/O threads; schedules on the loop; guards `stop`, `disconnect`, `sync_request` |
| **Stream executor**: `_get_executor`, `_run_in_stream_executor`, `_shutdown_executors`, `Stream.write/end/cancel` and their `async_` forms | `_stream_executor`, `_executor_lock`, the pool's queue | submit, fall back to `to_thread`, await, cancel, drain | tasks of any loop; interpreter exit |
| **Stream handlers**: `Stream.on_*` | the handlers of a stream | register | share the endpoint's dispatcher and its one error handler |
| **Payload unpacking and codec** | `handler_kwargs`, the reader's position | `add_param`, `read_*`, the two unpacking wrappers | between the core's payloads and handlers |
| **Server, Client** | core object, dispatcher with the loop it was attached to | `start/stop`, `connect/disconnect`, `__aenter__/__aexit__`, `attach_event_loop`, `send`, requests, streams, the `on_*` decorators | all of the above |
| C++ core | unknown | handshake, sessions, sockets | external: an environment |
| Crypto, keys, config, rate limiter | none of their own | one-line bindings | - |

Hard behaviours:

- *Interleaving.* Two awaits of one future race around `ready()`, the registry
  and `get()`; the locked section covers only the registry.
- *Timeouts.* A request has three that race: the core's `timeout_ms`, the
  fetch's deadline and `wait_for`. A handler has one, racing its coroutine.
- *Resource limits.* A fetch holds one of four workers while it polls.
- *Threads that wait for each other.* `stop` joins I/O threads; I/O threads poll
  for coroutines; coroutines may be blocked in `sync_request` or in `stop`.
- *Shutdown.* A pool is drained, recreated, or lost to interpreter exit between
  two operations; a loop closes under a fetch or a callback.
- *Errors.* Nested except clauses, an error handler read at one moment and used
  at another, one handler slot for the endpoint and all its streams.
- *Composition.* A handler may do whatever an application may: send, await a
  request to the peer whose message it handles, register handlers. Which thread
  waits for it depends on the decorator that registered it, and whether a
  coroutine runs at all on when its endpoint got a loop.
- *Conversions.* The width of an integer is chosen by overload order on one side
  and read by size on the other.

What makes each part correct: a future is consumed once, a caller returns once
and with a truthful outcome, no caller is forgotten (bridge); no thread waits
for itself, threads come back, a late *yes* is not an answer, an error reaches
someone (dispatcher); operations take effect in the order they were accepted
and awaited, a task is told what happened, nothing accepted is forgotten at exit
(streams); a handler gets the arguments that were sent (codec); what a request
returns is what its handler gave in time, no thread waits for what only it can deliver, a
stream's handlers begin in order and miss no event, and every program of the
application ends (session). `PROJECT.json` lists each hazard at its line with the properties that cover it, or why none
does.

## 2. Modules

| Module | Models |
|---|---|
| `RequestPromise` | abstract: what an asynchronous request promises - one outcome a future, one taker, each caller returns once |
| `AwaitCppFuture` | the await bridge; implements `RequestPromise` by a refinement mapping |
| `CallbackDispatcher` | the dispatcher, its event loop, `stop`/`disconnect`/`sync_request` guards |
| `OrderedOperations` | abstract: what asynchronous stream operations promise - one line, nothing overtakes, nothing is lost, callers told the truth |
| `StreamExecutor` | stream operations, the pool of one worker, fallback, shutdown and exit; implements `OrderedOperations` by a refinement mapping |
| `PayloadCodec` | `add_param` to handler arguments |
| `Session` | a server and a client put together: programs of handlers and coroutines on one loop and two I/O threads |
| `AwaitCppFuture_proofs`, `CallbackDispatcher_proofs`, `StreamExecutor_proofs`, `PayloadCodec_proofs` | theorems about the bridge, the dispatcher, the stream executor, the codec |
| `Session_proofs` | theorems about the session: types, and answers that are earned |
| `SessionOrder_proofs` | on top of it: in which order handlers begin, whom an I/O thread waits for |
| `SessionEvents_proofs` | on top of that: the events of a stream find their handlers |
| `MC*` | instances for TLC |

### AwaitCppFuture

One element of `Awaits` is one call of `_await_cpp_future`; `FutureOf` gives the
`CppPayloadFuture` it awaits, so that two calls may share one. `pc` is the
position of the call's `_fetch`: `queued` in the pool, `polling`, `checking` the
deadline after a `ready()` that was false, `sleeping`, `consuming` (before the
lock), `getting` (after it, before `get()`), `posting`, `finished`. Each is a
place where another thread may run, and nothing else is: the locked section is
one step, `ready()` one, `get()` one, `call_soon_threadsafe` one. `fut` is
`result_future`, `posted` the callbacks the loop has accepted, `ret` what the
caller got. Getting the executor, which holds its lock, and submitting to it are one
step (`Submit`): the request pool is created once and never replaced. `Abandon` is a caller that leaves (`wait_for` expired, or it was
cancelled): it cancels `result_future` if pending and discards its result if
the wake-up has not been served yet, the race inside `asyncio.wait_for`.
`exiting` makes `submit` refuse, and the fetch runs on a daemon thread. Core
limits are `CoreLimit`: `int(timeout * 1000)` for `async_request`, nothing for
`async_request_to_identity`. The core (external) settles an in-flight future
with an answer at any time, or with its own timeout when it is due.

### CallbackDispatcher

One element of `Calls` is one callback the core makes on thread `ThreadOf`; its
`Kind` is the wrapper: `result` (`wrap`: request handlers), `forget`
(`wrap_fire_and_forget`), `identity`. `pc` follows the wrapper: `body`,
`polling`/`checking` in `_wait_future_with_polling`, `failing` (the inner except
clause of `_wrap_async_with_result`), `failing_again` (the outer, or the only
one). `self_join` is a thread that waits for itself; the callback flag must make
it unreachable. On the loop, `ready` holds scheduled coroutines, `task` their
state, `cf` the concurrent future between the two threads; `blockedBy` is
whoever blocks the loop's thread (a coroutine in `sync_request`, or `stop` in
`__aexit__`). A handler that is given up has its concurrent future cancelled;
`CancelTask` throws `CancelledError` into its coroutine, which ends or goes on
(`stopping`: it catches the error, or is in its cleanup) and then ends as any other,
or never. `attach()` is folded into `Loopless`: a handler is wrapped with a
loop or without one.

### StreamExecutor

Each task performs its `Program` of operations, one await at a time, on its
loop's thread. An asynchronous operation is four steps: it comes to the lock,
`_get_executor` returns a pool, `submit` accepts or refuses, the await returns.
While a task is between the first and the third its loop's thread is held, so no
task of that loop moves. `pools` numbers the pools: a task may hold one that has
been shut down. `_shutdown_executors` is three steps, with the lock held from
the first to the last: it shuts the stream pool down (`ShutdownBegins`), its
worker has drained the queue (`ShutdownDrains`), the request pool's fetches have
ended too (`ShutdownEnds`). `Exit` follows CPython: executors refuse work, their
workers are joined, then `atexit` runs; therefore the `to_thread` fallback is
refused too at exit. At CPython's exit the workers that were joined have set the
pools' own `_shutdown`, so that `_shutdown_executors` finds nothing left to do; the
model takes its three steps all the same.

`Ordered` maps this to `OrderedOperations`. The line is the queue of the last
pool - a new pool is created only after the old one was drained, which is why
there is one line and not one a pool. `Submit` is `Accept`; `FallBack` is
`Leave`, or `Tell` of a refusal; `TakeItem` is `Serve`; `FinishItem` is
`Complete`; a synchronous operation is `AtOnce`; a cancellation is `Cancel`.
Coming to the lock, getting a pool, creating, draining and closing one are
stutters.

### PayloadCodec

A sender adds values; `Chosen` is pybind11's two passes (v2.11.1, as
`CMakeLists.txt` pins it) over `Overloads` in the order `bindings.cpp` declares
them. `Byte` is the number of values of a byte, `Span` that of a width. A wrapper goes through the handler's annotations one by one: `PassOn` (the
handle, payload, reader), `Unpack`, `LeaveOut` (an unannotated argument of an
`on_payload` handler, or a handle or payload that a later one supersedes:
`hdl_param` and `payload_param` keep the last), `UnpackFails`, then
`CallHandler`, whose result `CheckResult` looks at when the handler serves
requests. Registration and delivery are one step (`Deliver`), since nothing
happens between them.

### Session

What the other modules model in detail is one step here - a poll, a fetch, an
ordered write - and what they take from outside is inside: the handlers, the
coroutines, both endpoints and the loop they share. `Body` gives each main
coroutine and each handler a program, a sequence of instructions (`send`,
`async_request`, `register`, `stop`, ...). A *frame* is a run of a program: a
main's, or that of the handler of a message. `run` says where it is (queued for
the loop, running on it, awaiting, blocking it, on its I/O thread, ended) and
`at` which instruction it has come to. `Raise` sends an exception through a
frame: to what follows `return` in its program, which is what its `async with`
blocks do on an exception, or out of it. A cancellation goes through a coroutine
in the same way.

Each endpoint has one I/O thread. It takes messages in order (`inbox`), runs
synchronous handlers itself, and puts coroutines on the loop (`ready`); `io` is
the message it is in. `Waits` are the decorators that use `wrap` or
`wrap_identity`: for these the thread waits, and passes the result on
(`ResultArrives`, `Conclude`) or gives the coroutine up (`ResultExpires`; `late`).
`bound` tells, for each handler, whether it was wrapped before or after its
dispatcher had a loop (`attached`). `set()` on an I/O thread does not wake the
loop up, so `noticed` lags behind `events` until the loop does something else.
`sent` is a history of what was put on the wire to each endpoint; properties about
order speak of messages that were sent once (`Once`): a message of the model is one
call of `send`, and one sent twice would be two of them. A handler of the model is
one registration, so that all its messages go to one endpoint (`Fits`).
The limits - of results, requests, waits - may run out at any time, except in a
*patient* scene, where they do only when nothing else can happen. A *lossy*
scene may lose the session and all that is on the wire.

`MCSession` has two applications. `main` is `examples/async_server_client.py`,
handler by handler. `service` and `uploader` are two coroutines that share a
loop and do what the example leaves out: an anonymous request, a stream opened by
a coroutine, a handler registered before the loop runs, an answer that cannot be
unpacked, a `sync_request` that blocks the loop. `nested` is a request handler
that itself makes a request.

## 3. Runs

| Run | Question | Result |
|---|---|---|
| `bridge_safety` | two awaits of one future, cancellation, closing loop, exit | passes, outcomes are set once; also the inductive invariant and the refinement |
| `bridge_timely` | a request and one to an identity, enough workers, clock at half a millisecond; failures, cancellation, closing loop, exit | no early timeout, none after an answer in time |
| `bridge_live` | a guarded and an unguarded call on one worker | guarded calls return; settled ones return; fetches end |
| `dispatch_safety` | request and identity handlers on two threads, one with no loop, closing loop, stop | passes; also the inductive invariant |
| `dispatch_live` | hanging and blocking coroutines, closing loop, stop joining, an error handler that raises | threads come back, stop ends, abandoned coroutines end or are told to |
| `stream_order` | two tasks on two loops; write, end, a synchronous `end()` after it; restart, cancel, exit | order, truth, completeness, termination; the inductive invariant and the refinement |
| `codec_values` | messages of up to two values, handlers of up to two arguments | arguments arrive; what matches is accepted; also the inductive invariant |
| `session_example` | the example's program, with ample limits and with a lossy session; two coroutines that share a loop | answers are earned, handlers begin in order, no event is lost, programs end; also the inductive invariant |
| `bridge_saturated` | more requests than workers | **violation** |
| `dispatch_swallowed` | a fire-and-forget coroutine fails, no error handler | **violation** |
| `dispatch_abandoned` | a handler's coroutine is running when it is given up | **violation** |
| `session_nested` | a request from inside a request handler | **violation** |

Every property of a passing run has a mutant in `PROJECT.json`: a plausible bug
in one definition under which TLC finds the property violated.

### Bounds, and why they are enough

- *Bridge.* Two calls and one or two futures: the races are between two fetches
  of one future, or between one call and the clock. One worker makes the second
  call wait for the first; two make them independent. `Horizon` (2 to 6 ticks)
  lets deadlines, core limits and poll intervals pass in every order; `IssueUntil`
  bounds when a call may start. Where time is a question (`bridge_timely`), the
  identity request falls under `request_ms`, which is shorter than its guard,
  `TicksPerMs = 2` and a timeout of 1.5 ms make `int(timeout * 1000)` lose
  something, and `Urgent` lets the clock advance only when no thread can: the
  property is about delays the code itself causes. Elsewhere the clock runs
  freely and a step may take any time. A fetch's sleep is cut at `Horizon`, so
  that the end of the clock does not stop it.
- *Dispatcher.* Three calls on two threads: one thread serves two callbacks in
  turn, which is what a flag left behind needs. Two owners of error handlers, so
  that one may replace the other's between two except clauses. One tick of `ResultTimeout`.
- *Streams.* Two tasks, four operations, two pools before exit and one more
  after: enough for an operation to meet a pool between its `_get_executor` and
  its `submit`, and for a task to be cancelled in one and go on to the next.
- *Codec.* A byte of four values, so that TLC's 32-bit integers hold an 8-byte
  integer; values on both sides of the limits of one and eight bytes, and one that
  sets the sign bit of two. The theorems are for every byte, that of 256 values
  above all.
- *Session.* One session of two endpoints, each message sent at most once, three
  scenes. Programs are finite, so no counter needs a bound. The example is a whole
  program of the repository; what it does not do is in the second application.

`CHECK_DEADLOCK FALSE` is set since every instance ends: its calls, its clock
or its program are finite.

### Fairness

Bridge: threads run (`WF` on each fetch and on the pool), the loop serves
callbacks and timers (`WF` on `Publish`, `Resume`, `GuardExpires`), the core
honours its own limit (`CppExpire`); nothing obliges the remote side to answer.
No liveness run closes the loop: a closed loop runs nothing. `WorkersFreed`
needs a core limit: with `request_ms = 0` and no timeout a fetch may poll for
ever, as the hazards list says. Dispatcher: synchronous handlers end and
wrappers go on; coroutines need not end (no fairness on `TaskEnds`), so that
`ThreadFreed` and `StopEnds` rest on the polling timeout alone. A cancellation
that was queued on the loop has strong fairness: the loop serves its queue in
order, however often it is blocked in between. That delivers the `CancelledError`
and no more; nothing obliges the coroutine to end with it (`AbandonedTaskIsTold`). Streams: threads and loops run
and the core's operation ends (it fills a buffer), as do the request pool's
fetches (`ShutdownEnds`) - by their deadlines or the core's limit, so that a call
with `timeout=None` under `request_ms = 0` is not covered; nobody has to shut down, but an exit runs to its
end. Session: `WF_vars(Goes)`, the weakest there is - the machine does not stop
while something can happen, and no thread, handler or limit is favoured. Programs
are finite, so that is enough.

## 4. What is proved

`AwaitCppFuture_proofs`, checked by TLAPS for all numbers of calls, futures and
workers, all timeouts and limits, under `ConstantsAssumption` and nothing else:

- `Invariance`: `Spec => []IInv`;
- `TypeCorrect`, `ConsumedOnce`, `WakeupKept`, `SetOnce`: `TypeOK`,
  `OneGetPerFuture`, `NoLostWakeup`, `OutcomeSetOnce` follow;
- `TimeoutsAreNotEarly` (`NoEarlyTimeout`);
- `AnswersInTimeReachCallers` (`TimeoutOnlyWithoutAnswer`), which assumes `Prompt`:
  the clock waits for the program (`Urgent`), and there are as many workers as
  calls. Both are needed: `bridge_saturated` is the counterexample with fewer
  workers, and threads that may be late for any time promise nothing about it;
- `Implements`: `Spec => Promise!Spec`.

`OneGetPerFuture` is not inductive: that `gets <= 1` says nothing of a second
fetch that is about to call `get()`. `IInv` adds what the registry really
guarantees (`RegistrantGets`: the registrant of a future is the one fetch that
is getting it or has got it, and `gets` counts exactly that), that a fetch comes
to the registry only past `ready()` (`SettledBeforeGet`), that a fetch is queued
once (`QueuedOnce`, without which the pool could start a fetch twice), that an
outcome is one its caller may be given (`OutcomeAllowed`: the registrant's own,
a guard's timeout, or a misuse when another fetch registered) and that the
caller's side follows the fetch's (`CallerFollows`). The proof has one lemma per
conjunct and in it one step per action.

The properties about time are actions', so what they need of the state is in
`IInv` as well. A timeout is where a limit has run out, the core's or the guard's
(`TimeoutIsDue`), which gives the first of them. For the second, an answer must
reach its caller before the deadline. With a worker for each call nothing stays in
the queue while time passes (`QueueIsComplete`), a fetch sleeps for one poll
interval at most and never from after an answer until beyond the next poll
(`SleepsBriefly`), so that a caller still waits more than a poll interval after the
answer only in the instant of its call (`AnswerReachesCaller`).

The refinement maps `registrant` to the
abstract holder: `Register` is `Take`, `Resume` and `Abandon` are `Return`, a
step of the fetch, the pool or the clock is a stutter.

`CallbackDispatcher_proofs`, for any callbacks, threads, owners and
`ResultTimeout`, under `ConstantsAssumption`: `Invariance`, `TypeCorrect`,
`ThreadsDoNotJoinThemselves` (`NoSelfJoin`), `YesComesFromTheHandler`
(`YesIsTheHandlers`), `CaughtErrorsAreAccounted` (`ErrorAccounted`: it says where an
exception goes that a wrapper has caught, not that anyone is there to hear of it, nor
that it is the owner: `dispatch_swallowed`, and section 5). That a *yes* is
the handler's says nothing of how it travels, so `IInv` follows it: which call a
thread serves, one at a time and with its flag set (`ServingInv`); that a
call's future, its task and its place in the loop's queue agree, above all that
a future holds a result only of a task that has ended with it (`FutureInv`);
what outcome a call may come to (`OutcomeInv`); and where an error is while
neither the core nor a handler has it (`FailureInv`, `ForwardInv`).

`StreamExecutor_proofs`, for any tasks, loops, programs and number of pools
(`ConstantsAssumption`, and `ProgramsAssumption`: no operation is done twice):
`Invariance`, `TypeCorrect`, `InProgramOrder` (`ProgramOrder`), `Truthful`
(`ToldTheTruth`), `Complete` (`NothingForgotten`), `Implements`
(`Spec => OrderedSpec`). `IInv` relates what the code keeps in different places:
the pool there is and who holds the lock (`PoolInv`), the line (`LineInv`: only
the last pool has work, and an operation is in its queue at most once), that what
was accepted stays in the line and the exit waits for it (`KeptInv`), where each
task is in its program (`TaskInv`), and what has happened and been told
(`OutcomeInv`). The refinement needs `LineInv` most: work in the queue of an older
pool would be a second line. `InSubmissionOrder` (`SubmissionOrder`) says the same
of the history, for operations of all tasks and across pools: `AcceptedInv` relates
the queues to the order of acceptance, and an operation that a worker takes is the
first of those accepted that is still to be done (`FirstInLine`).

`Session_proofs`, under `ConstantsAssumption` and for all programs of handlers and
coroutines that `ProgramsAssumption` admits (each instruction names things of
its own kind, each handler is registered where its decorator exists):
`SafeInvariance`, `PassInvariance`, `TypeCorrect`, and `Earned` (`AnswersAreEarned`: who
goes past a request has a payload that the request's handler ended with, in time; or
has caught an exception since, the timeout perhaps. A payload of a wrapper that could
not unpack the request counts, since the requester cannot tell). One difficulty is
that an answer is taken long after its handler gave it: a response may be in
`inbox` while the handler is given up, so `SafeInv` says that this cannot be
(`WireInv`, `ThreadInv`: a thread that may still give up a handler has not sent
its response), that a request comes to its handler once (`WireInv`, `QueueInv`)
and that one which was never made or taken has done nothing (`RequestInv`). The other
is what a program has come past (`PassInv`): each step leaves it, moves it by one
instruction, or to what follows a `return` (`Passes`), and a payload stays one
(`AnswersStay`).

`SessionOrder_proofs`, under the same assumptions: `Invariance` (`IInv`, which is
`SafeInv`, `PassInv`, `RouteInv` and `OrderInv`), `InOrder` (`SessionInOrder`) and
`NeverForItself` (`NoSelfWait`). A message passes through up to three places before
its handler begins - the inbox, an I/O thread, the loop's queue - and may be
dropped at each. `PlaceInv` says which of them it is in, `LineInv` that each keeps the
order in which the messages were sent, `WaitInv` that an I/O thread has gone past a
handler it waits for only when that has ended or was given up. The exception in
`SessionInOrder` is real: a synchronous handler runs at once while the coroutine
of an earlier message is still queued. The proof divides steps into those that
start a handler, one lemma each (`TakeOrder`, `StartOrder`), and the rest, of which
one lemma shows that they only move programs on and messages along (`PlainStep`),
another that this is enough (`MoveOrder`). `NeverForItself` assumes a rule for
programs, `AsksElsewhere`: a coroutine whose result its I/O thread needs makes no
request, awaited or synchronous, through its own endpoint. By `RouteInv` a response is in the requester's
inbox and a thread waits for no other coroutines, so the rule is enough.
`session_nested` is a program that breaks it, and the violation; the programs of
`session_example` keep it.

`SessionEvents_proofs`: `EventsFindHandlers` and `CoroutinesKeepEvents`
(`NoEventLost`). By `WaitInv` the handler of a stream has ended, or was given up,
before the I/O thread comes to the stream's events. That it has then registered their
handlers is what `BindingInv` says: a handler that returned has executed its whole
program. A registration is of use only where the endpoint has a loop. A coroutine
brings its own, which the decorators adopt, so `CoroutinesKeepEvents` holds for
all programs whose stream handlers are coroutines (`CoroutineOpeners`). A
synchronous handler does not, and in an endpoint without a loop the handlers it
registers as coroutines are called and never run; `EventsFindHandlers` therefore
supposes that the endpoint has a loop when a message for such a handler comes in
(`[]AttachedInTime`). Both applications of `session_example` attach the server
first, and TLC finds `AttachedInTime` and `BindingInv` true of every state of it when
they are added to the run's invariants.

`PayloadCodec_proofs`, for a byte of any even number of values, any values of the
sender and messages and handlers of any length, under `ConstantsAssumption`:
`Invariance`, `TypeCorrect`, `Arrival` (`ArgumentsArrive`), `Acceptance`
(`MatchingIsAccepted`). This is where the proof reaches what TLC cannot: integers
of 64 bits. The argument has two halves. One is about values only: which overload
pybind11 chooses (`ChosenForInt`, `ChosenForOthers`), what bits that leaves
(`IntBits`, `OtherBits`), and that the reader of the type takes them (`SizeFits`)
and gives the value back (`RoundTrip`). The other is about the wrapper: its reader
stands at the parameter of the argument it has come to (`WrapperInv`), which is
one more than the number of arguments it has unpacked (`Counting`).

Only model-checked:

- all liveness: `GuardedReturns`, `SettledReturns`, `WorkersFreed`, `ThreadFreed`,
  `StopEnds`, `AbandonedTaskIsTold`, `CallsReturn`, `MainsEnd`, `MainsSucceed`,
  `ThreadsFreed` (they rest on fairness, and on `ENABLED`);
- that the programs of an instance keep `AttachedInTime`, which depends on when the
  application attaches its loop.

Every invariant and every action property of a passing run has a theorem.

## 5. Divergences between code and documentation

With a run (`findings` in `PROJECT.json`):

1. *Saturation.* Each `async_request` holds a pool worker while it waits; past
   four, a call whose answer came in time raises `TimeoutError`. README:166 says
   no thread-pool thread is blocked.
2. *A failed fire-and-forget coroutine* is silent when no error handler is set.
3. *A request from inside a request handler* waits for a response that only the
   I/O thread that waits for the handler can deliver, until a limit runs out;
   README:344 recommends `async_request` inside handlers, which works from
   `on_payload` handlers only.
4. *A timed-out handler's coroutine* does not keep running: its cancellation is no
   no-op (`__init__.py:136-138`, 166-168 and 118 say it is), since
   `run_coroutine_threadsafe` chains the future's to the task's. What the model
   shows is the code's part: the error is thrown in; the coroutine may ignore it.

Seen while modelling, without a run:

- *`Stream.on_error`* (`__init__.py:928`) replaces the error handler of the endpoint
  and of every other stream; its docstring speaks of errors on this stream
  (`SetErrorHandler`).
- *Identity requests* do not forward their timeout to the core; README:219 says
  every API does (`CoreLimit`).
- *A handler without type hints* is called without arguments; the docstrings say
  it is called with `(hdl, payload)`, and an example of the README has an
  unannotated `hdl` (`LeaveOut`).
- *`attach_event_loop`* (docstring at `__init__.py:1149`) does not reach handlers
  that were wrapped before it: a coroutine among them is never run
  (`TakeInVain`).
- In `examples/async_server_client.py` a comment (line 44) speaks of an event
  that an `async` handler sets; the `on_ready` handler that sets `client_ready`
  (lines 130-133) is synchronous, and `set()` on an I/O thread may leave the
  waiter asleep until its timeout wakes the loop (`SetEvent`, `WaitExpires`).
- A future awaited again after its `get()` raises the `std::future`'s `no_state`
  from `ready()` (libstdc++; the standard leaves it undefined) and not the
  documented `LogicError` (`PollConsumed`).
- README:166 and 215-216 give `async_request` a default timeout of 30 s; it is `None`
  (`__init__.py:1288`, 1794), which leaves a request to the core's limit
  (`CoreLimit`). Only `async_request_to_identity` has 30 s.
- At interpreter exit the `to_thread` fallback is refused as well (comment at
  `__init__.py:281-284`); `FallBack`.
- A positive integer whose overload is unsigned (200 in one byte) read as `int`
  comes back negative, an `int` of 2^64 or more is stored as the `bool` True, a
  float keeps 32 bits, `bytes` arrive as a list of ints: the exceptions
  `ArgumentsArrive` names.

## 6. Assumptions

asyncio, `concurrent.futures`, CPython's exit and pybind11 are external, modelled
from their documented behaviour. The core calls handlers one at a time on an I/O
thread; it makes no callback once `stop` has joined its threads. Exceptions that
are not modelled: `MemoryError`, thread creation that fails, `KeyboardInterrupt`.
`_consumed_cpp_futures` is a `WeakSet`: an entry lives as long as the future,
which every fetch holds, so the model never removes one. In `Session` the accept
loop runs some tens of milliseconds after `start()`, less than the example sleeps
(README, Known Issues); a cancellation is delivered at an await, and where a
coroutine goes on after it the model may deliver it again; a message is sent at most once and a request is one
call; the example's callbacks that only log are left out.

## 7. Plan

Done: the bridge, the dispatcher, the stream executor and their abstract
specifications, the codec, and the session, which joins the lifecycle of the
endpoints, requests between them and the order of stream handlers; all of them
with proofs.

Left:

1. A rule for programs that is enough for `AttachedInTime`, like `AsksElsewhere` and
   `CoroutineOpeners` for the others.
2. `Session` refined by the detailed modules, where it now has one step for a
   fetch, a poll and an ordered write.

Not modelled and why: the core (not in the repository), crypto, keys, config and
rate-limit bindings (no state of this repository's), packaging, logging.
