------------------------- MODULE CallbackDispatcher -------------------------
(***************************************************************************)
(* The callback dispatcher of ObscuraProto/__init__.py.  The C++ core      *)
(* calls wrapped handlers on its I/O threads, one call at a time on each;  *)
(* a handler that is a coroutine function runs on the event loop, and the  *)
(* wrapper of a request or identity handler polls for its result until     *)
(* result_timeout.  stop() and disconnect() join the I/O threads,          *)
(* sync_request needs one of them: the thread-local callback flag refuses  *)
(* both inside a callback.                                                 *)
(***************************************************************************)
EXTENDS Naturals, Sequences

CONSTANTS
  Calls,          \* callback invocations
  Threads,        \* I/O threads of the core
  ThreadOf,       \* the thread each call is made on
  Kind,           \* "result" (wrap), "forget" (wrap_fire_and_forget), "identity"
  Loopless,       \* calls whose handler was wrapped with no loop attached
  Owners,         \* who registers error handlers: the endpoint and its streams
  ResultTimeout,  \* _CALLBACK_RESULT_TIMEOUT in ticks
  Disturbances,   \* which of "close" (loop), "stop" and "report" may happen
  Horizon,        \* bound: the last tick of the clock
  Nobody          \* no call, no handler, no holder

ASSUME ConstantsAssumption ==
  /\ ThreadOf \in [Calls -> Threads]
  /\ Kind \in [Calls -> {"result", "forget", "identity"}]
  /\ Loopless \subseteq Calls
  /\ ResultTimeout \in Nat /\ Horizon \in Nat
  /\ Nobody \notin Calls \cup Owners /\ "stop" \notin Calls

VARIABLES
  now,        \* the monotonic clock
  pc,         \* where each call is
  serving,    \* the call each I/O thread is in
  flag,       \* _callback_thread_local.in_callback of each I/O thread
  deadline,   \* of a call that polls
  failed,     \* history: the wrapper caught an exception
  out,        \* what each call returned to the core
  cf,         \* the concurrent future of each coroutine
  task,       \* its task on the loop; "stopping": has caught its CancelledError
  ready,      \* coroutines handed to the loop and not started, in order
  loop,       \* "open" or "closed"
  blockedBy,  \* who blocks the loop's thread: a coroutine, "stop" or nobody
  errHandler, \* owner of the dispatcher's error handler
  caught,     \* the error handler a fire-and-forget call captured
  reports,    \* history: the owners whose error handler a call reached, in order
  stop        \* Server.stop / Client.disconnect: "no", "joining" or "done"

thread == <<pc, serving, flag, deadline, failed, out>>
async  == <<cf, task, ready>>
errors == <<errHandler, caught, reports>>
ends   == <<loop, blockedBy, stop>>
vars == <<now, thread, async, errors, ends>>

Values == {"yes", "no"}    \* a truthy and a falsy result
T(c) == ThreadOf[c]
SyncWrapped(c) == c \in Loopless /\ Kind[c] # "identity"

TypeOK ==
  /\ now \in Nat
  /\ pc \in [Calls -> {"idle", "body", "polling", "checking", "failing",
                       "failing_again", "self_join", "done"}]
  /\ serving \in [Threads -> Calls \cup {Nobody}]
  /\ flag \in [Threads -> BOOLEAN]
  /\ deadline \in [Calls -> Nat] /\ failed \in [Calls -> BOOLEAN]
  /\ out \in [Calls -> Values \cup {"pending", "none", "coroutine", "raised"}]
  /\ cf \in [Calls -> Values \cup {"none", "pending", "error", "cancelled"}]
  /\ task \in [Calls -> Values \cup {"none", "running", "stopping", "error", "cancelled"}]
  /\ ready \in Seq(Calls) /\ loop \in {"open", "closed"}
  /\ blockedBy \in Calls \cup {Nobody, "stop"}
  /\ errHandler \in Owners \cup {Nobody}
  /\ caught \in [Calls -> Owners \cup {Nobody}]
  /\ reports \in [Calls -> Seq(Owners)]
  /\ stop \in {"no", "joining", "done"}

Init ==
  /\ now = 0 /\ pc = [c \in Calls |-> "idle"]
  /\ serving = [t \in Threads |-> Nobody] /\ flag = [t \in Threads |-> FALSE]
  /\ deadline = [c \in Calls |-> 0] /\ failed = [c \in Calls |-> FALSE]
  /\ out = [c \in Calls |-> "pending"]
  /\ cf = [c \in Calls |-> "none"] /\ task = [c \in Calls |-> "none"]
  /\ ready = <<>> /\ loop = "open" /\ blockedBy = Nobody
  /\ errHandler = Nobody /\ caught = [c \in Calls |-> Nobody]
  /\ reports = [c \in Calls |-> <<>>] /\ stop = "no"

-----------------------------------------------------------------------------
(* The wrapper, on the I/O thread. *)

Goto(c, where) == pc' = [pc EXCEPT ![c] = where]

\* The core calls the wrapped handler; a thread is in one call at a time.  What
\* the core still has to deliver (on_close, at the least) it may deliver while
\* it is being stopped.
Invoke(c) ==
  /\ pc[c] = "idle" /\ serving[T(c)] = Nobody /\ stop # "done"
  /\ serving' = [serving EXCEPT ![T(c)] = c]
  /\ flag' = [flag EXCEPT ![T(c)] = TRUE]
  /\ Goto(c, "body")
  /\ UNCHANGED <<now, deadline, failed, out, async, errors, ends>>

\* mutant: no finally clause.
ReturnFlagged(c, v) ==
  /\ out' = [out EXCEPT ![c] = v]
  /\ serving' = [serving EXCEPT ![T(c)] = Nobody]
  /\ Goto(c, "done")
  /\ UNCHANGED <<flag, deadline, failed>>

\* The finally clause, and the return or the exception that reaches the core.
Return(c, v) ==
  /\ out' = [out EXCEPT ![c] = v]
  /\ flag' = [flag EXCEPT ![T(c)] = FALSE]
  /\ serving' = [serving EXCEPT ![T(c)] = Nobody]
  /\ Goto(c, "done")
  /\ UNCHANGED <<deadline, failed>>

\* An exception reaches an except clause: the inner one of a with-result
\* wrapper, or the only one.
Fail(c, where) ==
  /\ failed' = [failed EXCEPT ![c] = TRUE]
  /\ Goto(c, where)
  /\ UNCHANGED <<serving, flag, deadline, out>>

\* A synchronous handler returns or raises.
HandlerReturns(c) ==
  /\ pc[c] = "body"
  /\ \E v \in Values : Return(c, v)
  /\ UNCHANGED <<now, async, errors, ends>>

HandlerRaises(c) ==
  /\ pc[c] = "body"
  /\ Fail(c, "failing_again")
  /\ UNCHANGED <<now, async, errors, ends>>

\* mutant: the flag is not looked at.
BlocksUnguarded(c) ==
  /\ pc[c] = "body"
  /\ Fail(c, "self_join")
  /\ UNCHANGED <<now, async, errors, ends>>

\* The handler calls stop, disconnect or sync_request: LogicError under the
\* flag, and without it the thread waits for itself.
HandlerBlocks(c) ==
  /\ pc[c] = "body"
  /\ Fail(c, IF flag[T(c)] THEN "failing_again" ELSE "self_join")
  /\ UNCHANGED <<now, async, errors, ends>>

\* The handler returned a coroutine and nothing can run it: _wrap_sync hands it
\* to the core; run_coroutine_threadsafe raises on a closed loop and
\* identity_wrapper without one.
CoroutineStranded(c) ==
  /\ pc[c] = "body"
  /\ \/ SyncWrapped(c) /\ Return(c, "coroutine")
     \/ ~SyncWrapped(c) /\ (c \in Loopless \/ loop = "closed") /\ Fail(c, "failing_again")
  /\ UNCHANGED <<now, async, errors, ends>>

\* run_coroutine_threadsafe.  A fire-and-forget call captures the error handler
\* of the moment and returns.  (Bound: its deadline is within Horizon.)
CoroutineScheduled(c) ==
  /\ pc[c] = "body" /\ c \notin Loopless /\ loop = "open"
  /\ now + ResultTimeout <= Horizon
  /\ cf' = [cf EXCEPT ![c] = "pending"]
  /\ ready' = Append(ready, c)
  /\ IF Kind[c] = "forget"
     THEN /\ caught' = [caught EXCEPT ![c] = errHandler]
          /\ Return(c, "none")
     ELSE /\ deadline' = [deadline EXCEPT ![c] = now + ResultTimeout]
          /\ Goto(c, "polling")
          /\ UNCHANGED <<serving, flag, failed, out, caught>>
  /\ UNCHANGED <<now, task, errHandler, reports, ends>>

Except(c) == IF Kind[c] = "result" THEN "failing" ELSE "failing_again"

\* mutant: the future's result is taken for a value whatever it is.
PollDoneUnread(c) ==
  /\ pc[c] = "polling" /\ cf[c] # "pending"
  /\ Return(c, cf[c])
  /\ UNCHANGED <<now, async, errors, ends>>

\* future.done() and future.result(): a cancelled future raises too.
PollDone(c) ==
  /\ pc[c] = "polling" /\ cf[c] # "pending"
  /\ IF cf[c] \in Values THEN Return(c, cf[c]) ELSE Fail(c, Except(c))
  /\ UNCHANGED <<now, async, errors, ends>>

PollPending(c) ==
  /\ pc[c] = "polling" /\ cf[c] = "pending"
  /\ Goto(c, "checking")
  /\ UNCHANGED <<now, serving, flag, deadline, failed, out, async, errors, ends>>

\* mutant: the wait is not bounded.
SleepForever(c) ==
  /\ pc[c] = "checking"
  /\ Goto(c, "polling")
  /\ UNCHANGED <<now, serving, flag, deadline, failed, out, async, errors, ends>>

SleepAndPoll(c) ==
  /\ pc[c] = "checking" /\ now < deadline[c]
  /\ Goto(c, "polling")
  /\ UNCHANGED <<now, serving, flag, deadline, failed, out, async, errors, ends>>

\* mutant: a handler that is late is taken to have agreed.
LateIsYes(c) ==
  /\ pc[c] = "checking" /\ now >= deadline[c]
  /\ Return(c, "yes")
  /\ UNCHANGED <<now, async, errors, ends>>

\* _abandon_timed_out_future cancels a future that is still pending.
PollExpires(c) ==
  /\ pc[c] = "checking" /\ now >= deadline[c]
  /\ cf' = IF cf[c] = "pending" THEN [cf EXCEPT ![c] = "cancelled"] ELSE cf
  /\ Fail(c, Except(c))
  /\ UNCHANGED <<now, task, ready, errors, ends>>

Report(c, owner) == reports' = [reports EXCEPT ![c] = Append(@, owner)]

\* mutant: without an error handler the inner clause returns None.
ErrorDropped(c) ==
  /\ errHandler = Nobody
  /\ \/ pc[c] = "failing" /\ Return(c, "none")
     \/ pc[c] = "failing_again" /\ Return(c, "raised")
  /\ UNCHANGED <<now, async, errors, ends>>

\* No error handler: the inner clause re-raises into the outer one, which
\* reads the handler once more and re-raises to the core.
ErrorReraised(c) ==
  /\ errHandler = Nobody
  /\ \/ pc[c] = "failing" /\ Fail(c, "failing_again")
     \/ pc[c] = "failing_again" /\ Return(c, "raised")
  /\ UNCHANGED <<now, async, errors, ends>>

\* The error handler takes the exception; the core gets None, or False.
ErrorHandled(c) ==
  /\ pc[c] \in {"failing", "failing_again"} /\ errHandler # Nobody
  /\ Report(c, errHandler)
  /\ Return(c, IF Kind[c] = "identity" THEN "no" ELSE "none")
  /\ UNCHANGED <<now, async, errHandler, caught, ends>>

\* The error handler itself raises: inner to outer, outer to the core.
ErrorHandlerRaises(c) ==
  /\ "report" \in Disturbances /\ errHandler # Nobody
  /\ Report(c, errHandler)
  /\ \/ pc[c] = "failing" /\ Fail(c, "failing_again")
     \/ pc[c] = "failing_again" /\ Return(c, "raised")
  /\ UNCHANGED <<now, async, errHandler, caught, ends>>

-----------------------------------------------------------------------------
(* The event loop's thread (asyncio is external). *)

LoopFree == loop = "open" /\ blockedBy = Nobody
Runs(c) == task[c] \in {"running", "stopping"}

\* A coroutine whose call has timed out still runs its first step.
StartTask ==
  /\ LoopFree /\ ready # <<>>
  /\ task' = [task EXCEPT ![Head(ready)] = "running"]
  /\ ready' = Tail(ready)
  /\ UNCHANGED <<now, thread, cf, errors, ends>>

\* mutant: the error handler is looked up when the coroutine ends.
ForwardToCurrent(c, v) ==
  IF v \in {"error", "cancelled"} /\ errHandler # Nobody
  THEN Append(reports[c], errHandler) ELSE reports[c]

\* _forward_error, on the future of a fire-and-forget call.
Forward(c, v) ==
  IF v \in {"error", "cancelled"} /\ caught[c] # Nobody
  THEN Append(reports[c], caught[c]) ELSE reports[c]

\* One that was cancelled may end with anything too, or raise the CancelledError
\* again.
TaskEnds(c) ==
  /\ LoopFree /\ Runs(c)
  /\ \E v \in Values \cup {"error"} \cup (IF task[c] = "stopping" THEN {"cancelled"} ELSE {}) :
       /\ task' = [task EXCEPT ![c] = v]
       /\ cf' = IF cf[c] = "pending" THEN [cf EXCEPT ![c] = v] ELSE cf
       /\ reports' = [reports EXCEPT ![c] = Forward(c, v)]
  /\ UNCHANGED <<now, thread, ready, errHandler, caught, ends>>

\* mutant: cancellation of a running coroutine is a no-op.
CancelIgnored(c) ==
  /\ LoopFree /\ task[c] = "running" /\ cf[c] = "cancelled"
  /\ UNCHANGED vars

\* The cancellation of the future reaches the task: CancelledError is thrown into
\* the coroutine, which ends with it, or catches it and goes on: to clean up, or as
\* if nothing had happened.
CancelTask(c) ==
  /\ LoopFree /\ task[c] = "running" /\ cf[c] = "cancelled"
  /\ \E s \in {"cancelled", "stopping"} : task' = [task EXCEPT ![c] = s]
  /\ UNCHANGED <<now, thread, cf, ready, errors, ends>>

\* A coroutine calls sync_request: the loop's thread has no flag, only a
\* warning, and waits for a response that an I/O thread must deliver.
TaskBlocks(c) ==
  /\ LoopFree /\ Runs(c) /\ stop = "no"
  /\ blockedBy' = c
  /\ UNCHANGED <<now, thread, async, errors, loop, stop>>

TaskUnblocks(c) ==
  /\ blockedBy = c /\ serving[T(c)] = Nobody
  /\ blockedBy' = Nobody
  /\ UNCHANGED <<now, thread, async, errors, loop, stop>>

\* asyncio.run ends: what runs is cancelled and waited for (with another end than
\* that, it is TaskEnds before), what waits never starts.
CloseLoop ==
  /\ "close" \in Disturbances /\ LoopFree
  /\ loop' = "closed"
  /\ task' = [c \in Calls |-> IF Runs(c) THEN "cancelled" ELSE task[c]]
  /\ cf' = [c \in Calls |-> IF Runs(c) /\ cf[c] = "pending" THEN "cancelled" ELSE cf[c]]
  /\ reports' = [c \in Calls |-> IF Runs(c) THEN Forward(c, "cancelled") ELSE reports[c]]
  /\ UNCHANGED <<now, thread, ready, errHandler, caught, blockedBy, stop>>

-----------------------------------------------------------------------------
(* The application. *)

\* on_error of the endpoint or of any of its streams: one slot for all.
SetErrorHandler(o) ==
  /\ errHandler # o
  /\ errHandler' = o
  /\ UNCHANGED <<now, thread, async, caught, reports, ends>>

\* stop() from another thread, or from the loop in __aexit__; it joins the I/O
\* threads.
CallStop ==
  /\ "stop" \in Disturbances /\ stop = "no"
  /\ stop' = "joining"
  /\ blockedBy' \in {blockedBy} \cup (IF LoopFree THEN {"stop"} ELSE {})
  /\ UNCHANGED <<now, thread, async, errors, loop>>

StopReturns ==
  /\ stop = "joining" /\ \A t \in Threads : serving[t] = Nobody
  /\ stop' = "done"
  /\ blockedBy' = IF blockedBy = "stop" THEN Nobody ELSE blockedBy
  /\ UNCHANGED <<now, thread, async, errors, loop>>

Tick == /\ now < Horizon
        /\ now' = now + 1
        /\ UNCHANGED <<thread, async, errors, ends>>

CallStep(c) ==
  \/ HandlerReturns(c) \/ HandlerRaises(c) \/ HandlerBlocks(c)
  \/ CoroutineStranded(c) \/ CoroutineScheduled(c)
  \/ PollDone(c) \/ PollPending(c) \/ SleepAndPoll(c) \/ PollExpires(c)
  \/ ErrorReraised(c) \/ ErrorHandled(c) \/ ErrorHandlerRaises(c)

Next ==
  \/ \E c \in Calls : \/ Invoke(c) \/ CallStep(c) \/ TaskEnds(c) \/ CancelTask(c)
                      \/ TaskBlocks(c) \/ TaskUnblocks(c)
  \/ StartTask \/ CloseLoop \/ CallStop \/ StopReturns \/ Tick
  \/ \E o \in Owners \cup {Nobody} : SetErrorHandler(o)

Spec == Init /\ [][Next]_vars

\* Synchronous handlers end; coroutines need not (no fairness on TaskEnds).  A
\* queued cancellation runs when the loop is free again and again: the loop
\* serves its callbacks in order.
Fairness ==
  /\ \A c \in Calls : WF_vars(CallStep(c)) /\ SF_vars(CancelTask(c))
                      /\ WF_vars(TaskUnblocks(c))
  /\ WF_vars(StartTask) /\ WF_vars(StopReturns) /\ WF_vars(Tick)

FairSpec == Spec /\ Fairness

-----------------------------------------------------------------------------
(* Properties. *)

\* The flag of a thread says whether it is in a callback, so that no thread
\* joins itself or waits for a response it must deliver itself, and a thread
\* that left its callback is not refused.
NoSelfJoin == /\ \A t \in Threads : flag[t] <=> serving[t] # Nobody
              /\ \A c \in Calls : pc[c] # "self_join"

\* wrap_identity and _wrap_async_with_result: a coroutine's yes reaches the
\* core only if the coroutine itself ended with it before its call gave up; a
\* handler that timed out, was cancelled or failed never accepts.
YesIsTheHandlers ==
  \A c \in Calls : out[c] = "yes" /\ cf[c] # "none" => task[c] = "yes" /\ cf[c] = "yes"

\* An exception that a wrapper caught goes to the error handler that is set when
\* the except clause reads it, whoever set it, or else to the core; to both only
\* if the error handler raised.  An error handler that a fire-and-forget call
\* captured hears of the coroutine's failure exactly once; where none was set, of
\* such a failure nothing is said (NoErrorSwallowed).
ErrorAccounted ==
  \A c \in Calls :
    /\ pc[c] = "done" /\ failed[c] => Len(reports[c]) > 0 \/ out[c] = "raised"
    /\ "report" \notin Disturbances =>
         /\ Len(reports[c]) <= 1
         /\ out[c] = "raised" => reports[c] = <<>>
    /\ task[c] \in {"error", "cancelled"} /\ caught[c] # Nobody => Len(reports[c]) = 1

\* "Errors in handlers are raised (not silently swallowed), unless an on_error
\* handler is set": with no handler, a failed coroutine's error surfaces.
NoErrorSwallowed ==
  \A c \in Calls : task[c] = "error" /\ pc[c] = "done" /\ cf[c] = "error"
                     => Len(reports[c]) > 0 \/ out[c] = "raised"

\* Every callback gives its I/O thread back, though its coroutine may hang, its
\* loop may close, block in sync_request, or be joining that very thread.
ThreadFreed == \A t \in Threads : serving[t] # Nobody ~> serving[t] = Nobody

\* stop() and disconnect() return, from the event loop too.
StopEnds == stop = "joining" ~> stop = "done"

\* _abandon_timed_out_future: the coroutine of a call that gave up does not run on
\* as if it were still wanted.  It ends, or is told to, though other coroutines
\* block the loop in between; one that ignores CancelledError may run for ever.
AbandonedTaskIsTold ==
  \A c \in Calls : cf[c] = "cancelled" /\ task[c] = "running" ~> task[c] # "running"

\* _abandon_timed_out_future, "the coroutine may already be running on the event
\* loop, in which case cancellation is a no-op": once it has started in time, the
\* coroutine of a call is not cancelled while its loop is open.
AbandonedKeepsRunning ==
  \A c \in Calls :
    [](task[c] = "running" /\ cf[c] = "pending"
         => [](loop = "open" => task[c] \notin {"stopping", "cancelled"}))
-----------------------------------------------------------------------------
(* The inductive invariant (CallbackDispatcher_proofs). *)

\* The wrapper of c runs on its I/O thread.
OnThread(c) == pc[c] \notin {"idle", "done"}

\* A thread serves the call whose wrapper runs on it, and its flag says so.
ServingInv ==
  /\ \A t \in Threads : serving[t] # Nobody => T(serving[t]) = t /\ OnThread(serving[t])
  /\ \A c \in Calls : OnThread(c) => serving[T(c)] = c
  /\ \A t \in Threads : flag[t] <=> serving[t] # Nobody
  /\ \A c \in Calls : pc[c] # "self_join"

\* A coroutine is queued once, before it runs, and its future follows the task.
FutureInv ==
  /\ \A i, j \in 1..Len(ready) : ready[i] = ready[j] => i = j
  /\ \A i \in 1..Len(ready) : cf[ready[i]] \in {"pending", "cancelled"} /\ task[ready[i]] = "none"
  /\ \A c \in Calls :
       /\ cf[c] = "none" => task[c] = "none"
       /\ pc[c] \in {"idle", "body"} => cf[c] = "none"
       /\ pc[c] \in {"polling", "checking"} => cf[c] # "none"
       /\ cf[c] \in Values => task[c] = cf[c]
       /\ task[c] = "stopping" => cf[c] = "cancelled"

\* What the core is told is settled when the call is over, and comes from the
\* future of a coroutine whose call returned a result.
OutcomeInv ==
  \A c \in Calls :
    /\ out[c] = "pending" <=> pc[c] # "done"
    /\ out[c] = "yes" => cf[c] \in {"none", "yes"}

\* An exception stays with the wrapper until it is reported or raised.
FailureInv ==
  \A c \in Calls :
    /\ pc[c] \in {"idle", "body", "polling", "checking"} => ~failed[c] /\ reports[c] = <<>>
    /\ pc[c] = "done" /\ failed[c] => Len(reports[c]) > 0 \/ out[c] = "raised"
    /\ "report" \notin Disturbances =>
         /\ pc[c] # "done" => reports[c] = <<>>
         /\ Len(reports[c]) <= 1
         /\ out[c] = "raised" => reports[c] = <<>>

\* A captured error handler belongs to a call that is over, and is told once.
ForwardInv ==
  \A c \in Calls :
    /\ Kind[c] = "forget" /\ cf[c] # "none" =>
         /\ pc[c] = "done" /\ ~failed[c] /\ out[c] = "none"
         /\ task[c] \in {"none", "running", "stopping"} => cf[c] = "pending"
    /\ caught[c] # Nobody =>
         /\ Kind[c] = "forget" /\ cf[c] # "none"
         /\ task[c] \in {"error", "cancelled"} => Len(reports[c]) = 1
         /\ task[c] \notin {"error", "cancelled"} => reports[c] = <<>>

\* All of them: what every step of every wrapper, coroutine and stop preserves.
IInv == TypeOK /\ ServingInv /\ FutureInv /\ OutcomeInv /\ FailureInv /\ ForwardInv
=============================================================================
