--------------------------- MODULE AwaitCppFuture ---------------------------
(***************************************************************************)
(* The await bridge of ObscuraProto/__init__.py: async_request and         *)
(* async_request_to_identity obtain a single-use CppPayloadFuture from the *)
(* bindings and await it.  A fetch function on the request pool polls      *)
(* ready(), consumes the future once and posts the outcome onto the event  *)
(* loop, where asyncio.wait_for guards the caller.                         *)
(*                                                                         *)
(* Actors: the event loop (callers, posted callbacks, guards), the pool    *)
(* workers and fallback threads (one fetch per await), the C++ core (which *)
(* settles futures) and the clock.  Time is counted in ticks; TicksPerMs   *)
(* of them make a millisecond.                                             *)
(***************************************************************************)
EXTENDS Naturals, Sequences, FiniteSets

CONSTANTS
  Awaits,         \* calls of _await_cpp_future
  Futures,        \* CppPayloadFuture objects
  FutureOf,       \* the future each call awaits
  Api,            \* "request" or "identity": the method each call goes through
  Timeout,        \* its timeout argument in ticks; 0 stands for None and <= 0
  MaxWorkers,     \* _REQUEST_EXECUTOR_MAX_WORKERS
  Poll,           \* _CALLBACK_POLL_INTERVAL in ticks
  RequestLimit,   \* Config.timeouts.request_ms in ticks; 0 is unlimited
  TicksPerMs,     \* ticks in a millisecond
  Urgent,         \* TRUE: no step of the program takes a tick
  Disturbances,   \* which of "fail", "cancel", "close" and "exit" may happen
  IssueUntil,     \* bound: the last tick at which a call may start
  Horizon,        \* bound: the last tick of the clock
  NoOne           \* registrant of a future that was not consumed

ASSUME ConstantsAssumption ==
  /\ FutureOf \in [Awaits -> Futures]
  /\ Api \in [Awaits -> {"request", "identity"}]
  /\ Timeout \in [Awaits -> Nat]
  /\ MaxWorkers \in Nat \ {0} /\ Poll \in Nat \ {0} /\ TicksPerMs \in Nat \ {0}
  /\ RequestLimit \in Nat /\ IssueUntil \in Nat /\ Horizon \in Nat
  /\ Urgent \in BOOLEAN
  /\ NoOne \notin Awaits

VARIABLES
  now,         \* the monotonic clock
  exiting,     \* the pools refuse new work: interpreter exit has begun
  loopOpen,    \* the event loop accepts callbacks
  cpp,         \* C++ side of each future
  due,         \* the tick at which the core times it out; 0 for never
  settledAt,   \* history: when it was settled
  registrant,  \* _consumed_cpp_futures, with the fetch that registered it
  gets,        \* history: calls of get() on the std::future
  startAt,     \* when each await started
  pc,          \* where its fetch is
  wake,        \* when a sleeping fetch wakes
  got,         \* what a fetch has to publish
  queue,       \* fetches the pool has accepted and not started
  oneOff,      \* fetches on threads of their own
  posted,      \* callbacks accepted by call_soon_threadsafe and not run
  fut,         \* result_future of each await
  ret          \* what the await returned or raised to its caller

core     == <<cpp, due, settledAt>>
registry == <<registrant, gets>>
fetch    == <<pc, wake, got>>
pool     == <<queue, oneOff>>
caller   == <<fut, ret>>
mode     == <<exiting, loopOpen>>
vars == <<now, mode, core, registry, startAt, fetch, pool, posted, caller>>

\* "answer" is the response or the failure of the session: whatever get() hands
\* back that is not the core's own TimeoutError.
Settled == {"answer", "timeout"}
Misuse  == {"logic", "nostate"}
Outcome == Settled \cup Misuse
Working == {"polling", "checking", "sleeping", "consuming", "getting", "posting"}

Guarded == {a \in Awaits : Timeout[a] > 0}
F(a) == FutureOf[a]
Deadline(a) == startAt[a] + Timeout[a]
\* mutant: a worker is not returned to the pool after its fetch.
BusyForever == {a \in Awaits \ oneOff : pc[a] \in Working \cup {"finished"}}
Busy == {a \in Awaits \ oneOff : pc[a] \in Working}

\* timeout_ms = int(timeout * 1000) drops the part of a millisecond; without a
\* timeout, and for async_request_to_identity, the core applies request_ms.
ForwardsTimeout(a) == Api[a] = "request"
CoreLimit(a) == IF a \in Guarded /\ ForwardsTimeout(a)
                THEN (Timeout[a] \div TicksPerMs) * TicksPerMs
                ELSE RequestLimit

Earlier(s, t) == IF s < t THEN s ELSE t

TypeOK ==
  /\ now \in Nat /\ exiting \in BOOLEAN /\ loopOpen \in BOOLEAN
  /\ cpp \in [Futures -> {"idle", "inflight"} \cup Settled]
  /\ due \in [Futures -> Nat] /\ settledAt \in [Futures -> Nat]
  /\ registrant \in [Futures -> Awaits \cup {NoOne}]
  /\ gets \in [Futures -> Nat]
  /\ startAt \in [Awaits -> Nat]
  /\ pc \in [Awaits -> {"idle", "queued", "finished"} \cup Working]
  /\ wake \in [Awaits -> Nat]
  /\ got \in [Awaits -> {"none"} \cup Outcome]
  /\ queue \in Seq(Awaits) /\ oneOff \in SUBSET Awaits
  /\ posted \in SUBSET Awaits
  /\ fut \in [Awaits -> {"none", "pending", "cancelled"} \cup Outcome]
  /\ ret \in [Awaits -> {"none", "cancelled", "refused"} \cup Outcome]

Init ==
  /\ now = 0 /\ exiting = FALSE /\ loopOpen = TRUE
  /\ cpp = [f \in Futures |-> "idle"]
  /\ due = [f \in Futures |-> 0] /\ settledAt = [f \in Futures |-> 0]
  /\ registrant = [f \in Futures |-> NoOne] /\ gets = [f \in Futures |-> 0]
  /\ startAt = [a \in Awaits |-> 0] /\ wake = [a \in Awaits |-> 0]
  /\ pc = [a \in Awaits |-> "idle"] /\ got = [a \in Awaits |-> "none"]
  /\ queue = <<>> /\ oneOff = {} /\ posted = {}
  /\ fut = [a \in Awaits |-> "none"] /\ ret = [a \in Awaits |-> "none"]

-----------------------------------------------------------------------------
(* The caller, on the event loop. *)

MayStart(a) == /\ loopOpen /\ now <= IssueUntil
               /\ pc[a] = "idle" /\ ret[a] = "none"

\* executor.submit(_fetch), or a daemon thread when the pool refuses it.
Submit(a) == IF exiting
             THEN /\ pc' = [pc EXCEPT ![a] = "polling"]
                  /\ oneOff' = oneOff \cup {a}
                  /\ UNCHANGED queue
             ELSE /\ pc' = [pc EXCEPT ![a] = "queued"]
                  /\ queue' = Append(queue, a)
                  /\ UNCHANGED oneOff

StartAwait(a) == /\ startAt' = [startAt EXCEPT ![a] = now]
                 /\ fut' = [fut EXCEPT ![a] = "pending"]
                 /\ Submit(a)
                 /\ UNCHANGED <<now, mode, settledAt, registry, wake, got,
                                posted, ret>>

\* async_request and async_request_to_identity: ask the core, then await.
AsyncRequest(a) ==
  /\ MayStart(a) /\ cpp[F(a)] = "idle"
  /\ cpp' = [cpp EXCEPT ![F(a)] = "inflight"]
  /\ due' = [due EXCEPT ![F(a)] = IF CoreLimit(a) = 0 THEN 0 ELSE now + CoreLimit(a)]
  /\ StartAwait(a)

\* The binding raises (session not ready): nothing is awaited.
AsyncRequestFails(a) ==
  /\ "fail" \in Disturbances
  /\ MayStart(a) /\ cpp[F(a)] = "idle"
  /\ ret' = [ret EXCEPT ![a] = "refused"]
  /\ UNCHANGED <<now, mode, core, registry, startAt, fetch, pool, posted, fut>>

\* A future that is in use, or used up, is awaited again.
AwaitAgain(a) == /\ MayStart(a) /\ cpp[F(a)] # "idle"
                 /\ StartAwait(a)
                 /\ UNCHANGED <<cpp, due>>

\* mutant: set_exception is forgotten.
PublishValueOnly(a) ==
  /\ loopOpen /\ a \in posted
  /\ posted' = posted \ {a}
  /\ fut' = IF fut[a] = "cancelled" \/ got[a] # "answer" THEN fut
            ELSE [fut EXCEPT ![a] = got[a]]
  /\ UNCHANGED <<now, mode, core, registry, startAt, fetch, pool, ret>>

\* mutant: result_future.cancelled() is not asked.
PublishAnyway(a) ==
  /\ loopOpen /\ a \in posted
  /\ posted' = posted \ {a}
  /\ fut' = [fut EXCEPT ![a] = got[a]]
  /\ UNCHANGED <<now, mode, core, registry, startAt, fetch, pool, ret>>

\* _publish, run by the loop: a cancelled result_future drops the outcome.
Publish(a) ==
  /\ loopOpen /\ a \in posted
  /\ posted' = posted \ {a}
  /\ fut' = IF fut[a] = "cancelled" THEN fut ELSE [fut EXCEPT ![a] = got[a]]
  /\ UNCHANGED <<now, mode, core, registry, startAt, fetch, pool, ret>>

\* mutant: the caller does not wait for result_future.
ResumeEarly(a) ==
  /\ loopOpen /\ ret[a] = "none" /\ fut[a] # "none"
  /\ ret' = [ret EXCEPT ![a] = fut[a]]
  /\ UNCHANGED <<now, mode, core, registry, startAt, fetch, pool, posted, fut>>

Resume(a) ==
  /\ loopOpen /\ ret[a] = "none" /\ fut[a] \in Outcome
  /\ ret' = [ret EXCEPT ![a] = fut[a]]
  /\ UNCHANGED <<now, mode, core, registry, startAt, fetch, pool, posted, fut>>

\* mutant: result_future is cancelled and nothing is raised.
AbandonSilently(a, r) ==
  /\ loopOpen /\ ret[a] = "none" /\ fut[a] # "none" /\ r # "none"
  /\ fut' = IF fut[a] = "pending" THEN [fut EXCEPT ![a] = "cancelled"] ELSE fut
  /\ UNCHANGED <<now, mode, core, registry, startAt, fetch, pool, posted, ret>>

\* The caller leaves with r: a pending result_future is cancelled, a resolved
\* one that has not woken its caller is discarded.
Abandon(a, r) ==
  /\ loopOpen /\ ret[a] = "none" /\ fut[a] # "none"
  /\ ret' = [ret EXCEPT ![a] = r]
  /\ fut' = IF fut[a] = "pending" THEN [fut EXCEPT ![a] = "cancelled"] ELSE fut
  /\ UNCHANGED <<now, mode, core, registry, startAt, fetch, pool, posted>>

\* mutant: a timeout of zero is not turned into None.
GuardAtZero(a) == now >= Deadline(a) /\ Abandon(a, "timeout")

GuardExpires(a) == /\ a \in Guarded /\ now >= Deadline(a)
                   /\ Abandon(a, "timeout")

CancelCaller(a) == "cancel" \in Disturbances /\ Abandon(a, "cancelled")

-----------------------------------------------------------------------------
(* The fetch, on a pool worker or on a thread of its own. *)

StartFetch ==
  /\ queue # <<>> /\ Cardinality(Busy) < MaxWorkers
  /\ pc' = [pc EXCEPT ![Head(queue)] = "polling"]
  /\ queue' = Tail(queue)
  /\ UNCHANGED <<now, mode, core, registry, startAt, wake, got, oneOff, posted,
                 caller>>

Awake(a) == pc[a] = "polling" \/ (pc[a] = "sleeping" /\ now >= wake[a])

Goto(a, where) == /\ pc' = [pc EXCEPT ![a] = where]
                  /\ wake' = [wake EXCEPT ![a] = 0]
                  /\ UNCHANGED got

\* The fetch has its outcome: o goes to call_soon_threadsafe next.
Conclude(a, o) == /\ got' = [got EXCEPT ![a] = o]
                  /\ pc' = [pc EXCEPT ![a] = "posting"]
                  /\ wake' = [wake EXCEPT ![a] = 0]

FetchFrame == UNCHANGED <<now, mode, core, startAt, pool, caller>>

\* ready() is true.
PollReady(a) == /\ Awake(a) /\ gets[F(a)] = 0 /\ cpp[F(a)] \in Settled
                /\ Goto(a, "consuming")
                /\ FetchFrame /\ UNCHANGED <<registry, posted>>

\* ready() is false.
PollNotReady(a) == /\ Awake(a) /\ gets[F(a)] = 0 /\ cpp[F(a)] \notin Settled
                   /\ Goto(a, "checking")
                   /\ FetchFrame /\ UNCHANGED <<registry, posted>>

\* ready() on a std::future that get() has emptied raises no_state.
PollConsumed(a) == /\ Awake(a) /\ gets[F(a)] > 0
                   /\ Conclude(a, "nostate")
                   /\ FetchFrame /\ UNCHANGED <<registry, posted>>

\* mutant: the first miss is taken for a timeout.
DeadlineNotCompared(a) == /\ pc[a] = "checking" /\ a \in Guarded
                          /\ Conclude(a, "timeout")
                          /\ FetchFrame /\ UNCHANGED <<registry, posted>>

DeadlinePassed(a) == /\ pc[a] = "checking"
                     /\ a \in Guarded /\ now >= Deadline(a)
                     /\ Conclude(a, "timeout")
                     /\ FetchFrame /\ UNCHANGED <<registry, posted>>

\* mutant: the fetch sleeps for all that remains.
SleepForAll(a) == Earlier(Horizon, IF a \in Guarded THEN Deadline(a) ELSE now + Poll)

SleepUntil(a) ==
  Earlier(Horizon, IF a \in Guarded THEN Earlier(now + Poll, Deadline(a)) ELSE now + Poll)

Sleep(a) == /\ pc[a] = "checking"
            /\ ~(a \in Guarded /\ now >= Deadline(a))
            /\ pc' = [pc EXCEPT ![a] = "sleeping"]
            /\ wake' = [wake EXCEPT ![a] = SleepUntil(a)]
            /\ UNCHANGED got
            /\ FetchFrame /\ UNCHANGED <<registry, posted>>

\* mutant: the registry is written and not read.
RegisterUnread(a) ==
  /\ pc[a] = "consuming"
  /\ registrant' = [registrant EXCEPT ![F(a)] = a]
  /\ Goto(a, "getting")
  /\ FetchFrame /\ UNCHANGED <<gets, posted>>

\* The locked part of _consume_cpp_future.
Register(a) ==
  /\ pc[a] = "consuming" /\ registrant[F(a)] = NoOne
  /\ registrant' = [registrant EXCEPT ![F(a)] = a]
  /\ Goto(a, "getting")
  /\ FetchFrame /\ UNCHANGED <<gets, posted>>

RegisterTwice(a) ==
  /\ pc[a] = "consuming" /\ registrant[F(a)] # NoOne
  /\ Conclude(a, "logic")
  /\ FetchFrame /\ UNCHANGED <<registry, posted>>

\* cpp_future.get(), outside the lock.
Get(a) == /\ pc[a] = "getting"
          /\ gets' = [gets EXCEPT ![F(a)] = @ + 1]
          /\ Conclude(a, IF gets[F(a)] = 0 THEN cpp[F(a)] ELSE "nostate")
          /\ FetchFrame /\ UNCHANGED <<registrant, posted>>

\* call_soon_threadsafe; a closed loop raises and the outcome is lost.
Post(a) == /\ pc[a] = "posting"
           /\ posted' = IF loopOpen THEN posted \cup {a} ELSE posted
           /\ Goto(a, "finished")
           /\ FetchFrame /\ UNCHANGED registry

FetchStep(a) == \/ PollReady(a) \/ PollNotReady(a) \/ PollConsumed(a)
                \/ DeadlinePassed(a) \/ Sleep(a)
                \/ Register(a) \/ RegisterTwice(a) \/ Get(a) \/ Post(a)

-----------------------------------------------------------------------------
(* The core, the clock and the process. *)

SettleCpp(f, o) == /\ cpp[f] = "inflight"
                   /\ cpp' = [cpp EXCEPT ![f] = o]
                   /\ settledAt' = [settledAt EXCEPT ![f] = now]
                   /\ UNCHANGED <<now, mode, due, registry, startAt, fetch, pool,
                                  posted, caller>>

\* The response, or the failure of the session, arrives.
CppAnswer(f) == SettleCpp(f, "answer")

\* The core's own limit runs out.
CppExpire(f) == /\ due[f] > 0 /\ now >= due[f]
                /\ SettleCpp(f, "timeout")

\* No step of the program can be taken before the clock advances.
Quiescent ==
  /\ queue = <<>> \/ Cardinality(Busy) >= MaxWorkers
  /\ \A a \in Awaits :
       /\ pc[a] \in {"idle", "queued", "finished", "sleeping"}
       /\ pc[a] = "sleeping" => now < wake[a]
       /\ a \notin posted
       /\ ret[a] = "none" => /\ fut[a] \notin Outcome
                             /\ a \in Guarded /\ fut[a] # "none" => now < Deadline(a)
  /\ \A f \in Futures : cpp[f] = "inflight" /\ due[f] > 0 => now < due[f]

Tick == /\ now < Horizon /\ (Urgent => Quiescent)
        /\ now' = now + 1
        /\ UNCHANGED <<mode, core, registry, startAt, fetch, pool, posted, caller>>

CloseLoop == /\ "close" \in Disturbances /\ loopOpen
             /\ loopOpen' = FALSE
             /\ UNCHANGED <<now, exiting, core, registry, startAt, fetch, pool,
                            posted, caller>>

BeginExit == /\ "exit" \in Disturbances /\ ~exiting
             /\ exiting' = TRUE
             /\ UNCHANGED <<now, loopOpen, core, registry, startAt, fetch, pool,
                            posted, caller>>

Next ==
  \/ \E a \in Awaits : \/ AsyncRequest(a) \/ AsyncRequestFails(a) \/ AwaitAgain(a)
                       \/ Publish(a) \/ Resume(a)
                       \/ GuardExpires(a) \/ CancelCaller(a)
                       \/ FetchStep(a)
  \/ StartFetch
  \/ \E f \in Futures : CppAnswer(f) \/ CppExpire(f)
  \/ Tick \/ CloseLoop \/ BeginExit

Spec == Init /\ [][Next]_vars

\* Threads run, the loop serves its callbacks and timers, the core honours its
\* own limit; nothing obliges the remote side to answer.
Fairness ==
  /\ \A a \in Awaits : /\ WF_vars(FetchStep(a)) /\ WF_vars(Publish(a))
                       /\ WF_vars(Resume(a)) /\ WF_vars(GuardExpires(a))
  /\ WF_vars(StartFetch) /\ WF_vars(Tick)
  /\ \A f \in Futures : WF_vars(CppExpire(f))

FairSpec == Spec /\ Fairness

-----------------------------------------------------------------------------
(* Properties. *)

\* _consume_cpp_future: however the fetches of one future interleave around
\* ready(), the registry and get(), get() is called once, and only on a future
\* the core has settled (it holds no thread and empties no pending promise).
OneGetPerFuture ==
  /\ \A f \in Futures : gets[f] <= 1
  /\ \A a \in Awaits : pc[a] = "getting" => cpp[F(a)] \in Settled /\ gets[F(a)] = 0

\* _fetch and _publish: when a fetch is over and its caller still waits on an
\* open loop, the outcome is on its way: the caller is never forgotten.
NoLostWakeup ==
  \A a \in Awaits :
    pc[a] = "finished" /\ fut[a] # "none" /\ ret[a] = "none" /\ loopOpen
      => a \in posted \/ fut[a] = got[a]

\* What makes the two inductive.  A fetch goes to get() only past ready(); the
\* registrant of a future is the one fetch that gets it; a queued fetch is
\* queued once; an outcome is one the caller may be given.
SettledBeforeGet ==
  \A a \in Awaits : pc[a] \in {"consuming", "getting"} => cpp[F(a)] \in Settled

RegistrantGets ==
  /\ \A f \in Futures : registrant[f] = NoOne => gets[f] = 0
  /\ \A f \in Futures : registrant[f] # NoOne =>
       /\ F(registrant[f]) = f /\ cpp[f] \in Settled
       /\ pc[registrant[f]] \in {"getting", "posting", "finished"}
       /\ gets[f] = IF pc[registrant[f]] = "getting" THEN 0 ELSE 1
  /\ \A a \in Awaits : pc[a] = "getting" => registrant[F(a)] = a

QueuedOnce ==
  \A i \in 1..Len(queue) : /\ pc[queue[i]] = "queued"
                           /\ \A j \in 1..Len(queue) : queue[i] = queue[j] => i = j

MayGive(a, r) ==
  \/ registrant[F(a)] = a /\ r = cpp[F(a)]
  \/ a \in Guarded /\ r = "timeout"
  \/ registrant[F(a)] \notin {NoOne, a} /\ r \in Misuse

OutcomeAllowed ==
  \A a \in Awaits :
    /\ got[a] = "none" <=> pc[a] \notin {"posting", "finished"}
    /\ got[a] # "none" => MayGive(a, got[a])

CallerFollows ==
  \A a \in Awaits :
    /\ fut[a] = "none" <=> pc[a] = "idle"
    /\ fut[a] = "none" => ret[a] \in {"none", "refused"}
    /\ fut[a] # "none" => ret[a] # "refused"
    /\ fut[a] \in Outcome => fut[a] = got[a] /\ pc[a] = "finished" /\ a \notin posted
    /\ fut[a] = "cancelled" => ret[a] # "none"
    /\ a \in posted => pc[a] = "finished"

\* What the core is asked to wait, before int(timeout * 1000): 0 is for ever.
CoreWait(a) == IF a \in Guarded /\ ForwardsTimeout(a) THEN Timeout[a] ELSE RequestLimit

\* The shorter of the two limits there are.
PromisedWait(a) == IF a \in Guarded /\ CoreWait(a) > 0 THEN Earlier(Timeout[a], CoreWait(a))
                   ELSE IF a \in Guarded THEN Timeout[a] ELSE RequestLimit

\* The part of a millisecond that int(timeout * 1000) takes from a timeout.
Truncation == TicksPerMs - 1

Unshared(a) == \A b \in Awaits : F(b) = F(a) => b = a

\* The core times a request out when its limit has run out, a fetch when that of
\* its guard has.
TimeoutIsDue ==
  \A a \in Awaits :
    /\ Unshared(a) =>
         /\ pc[a] = "idle" <=> cpp[F(a)] = "idle"
         /\ pc[a] # "idle" =>
              due[F(a)] = IF CoreLimit(a) = 0 THEN 0 ELSE startAt[a] + CoreLimit(a)
         /\ cpp[F(a)] = "timeout" => due[F(a)] > 0 /\ now >= due[F(a)]
    /\ got[a] = "timeout" => \/ cpp[F(a)] = "timeout"
                             \/ a \in Guarded /\ now >= Deadline(a)

\* No step of the program takes a tick, and a fetch never waits for a worker.
Prompt == Urgent /\ IsFiniteSet(Awaits) /\ Cardinality(Awaits) <= MaxWorkers

\* A fetch that the pool has accepted stays in its queue until it starts.
QueueIsComplete ==
  \A a \in Awaits : pc[a] = "queued" => \E i \in 1..Len(queue) : queue[i] = a

Answered(a) == cpp[F(a)] = "answer"

\* A fetch sleeps for a poll interval at most, and does not look away from an
\* answer between ready() and its sleep.
SleepsBriefly ==
  \A a \in Awaits :
    /\ pc[a] = "sleeping" => /\ now <= wake[a] /\ wake[a] <= now + Poll
                             /\ Answered(a) => wake[a] <= settledAt[F(a)] + Poll
    /\ pc[a] = "checking" /\ Answered(a) => settledAt[F(a)] = now

\* So an answer reaches its caller within a poll interval, or at once where it is
\* there before the call; a fetch that times out does so before the answer.
AnswerReachesCaller ==
  \A a \in Awaits : Answered(a) =>
    /\ pc[a] # "idle" /\ ret[a] = "none" /\ loopOpen =>
         now <= settledAt[F(a)] + Poll \/ now = startAt[a]
    /\ got[a] = "timeout" => settledAt[F(a)] >= Deadline(a)

IInv == /\ TypeOK /\ SettledBeforeGet /\ RegistrantGets /\ QueuedOnce
        /\ QueueIsComplete /\ OutcomeAllowed /\ CallerFollows /\ NoLostWakeup
        /\ TimeoutIsDue
        /\ (Prompt => now <= Horizon /\ SleepsBriefly /\ AnswerReachesCaller)

\* async_request*: TimeoutError is never raised before the timeout the caller
\* gave (or request_ms, when it gave none or the core was not told of it), up
\* to a millisecond of truncation.
NoEarlyTimeout ==
  [][\A a \in Awaits :
       Unshared(a) /\ ret[a] # "timeout" /\ ret'[a] = "timeout"
         => now + Truncation >= startAt[a] + PromisedWait(a)]_vars

\* _publish: a result_future is resolved once, and not after wait_for or a
\* cancellation has given it up, so that set_result and set_exception never raise
\* InvalidStateError in a callback of the loop.
OutcomeSetOnce ==
  [][\A a \in Awaits :
       /\ a \in posted \ posted' => fut[a] \in {"pending", "cancelled"}
       /\ fut'[a] # fut[a] => fut[a] \in {"none", "pending"}]_vars

AnsweredInTime(a) == /\ Answered(a)
                     /\ settledAt[F(a)] + Poll < Deadline(a)

\* async_request*: a caller whose response came more than a poll interval before
\* its deadline is never told that the remote side did not respond.
TimeoutOnlyWithoutAnswer ==
  [][\A a \in Guarded : ret[a] # "timeout" /\ ret'[a] = "timeout" => ~AnsweredInTime(a)]_vars

\* A guarded call returns, answered or not, whatever the pool does.
GuardedReturns == \A a \in Guarded : fut[a] = "pending" ~> ret[a] # "none"

\* A call whose future the core settles returns, guard or no guard.
SettledReturns ==
  \A a \in Awaits : fut[a] = "pending" /\ cpp[F(a)] \in Settled ~> ret[a] # "none"

\* No fetch keeps its worker: each one accepted by the pool starts and ends.
WorkersFreed == \A a \in Awaits : pc[a] = "queued" ~> pc[a] = "finished"

\* What an await is to its caller, and a future to the callers that await it.
OutcomeBar == [f \in Futures |-> IF cpp[f] \in Settled THEN cpp[f] ELSE "unset"]
StateBar == [a \in Awaits |-> IF ret[a] # "none" THEN ret[a]
                              ELSE IF fut[a] = "none" THEN "idle" ELSE "waiting"]

Promise == INSTANCE RequestPromise WITH
  Waiters <- Awaits, Promises <- Futures, PromiseOf <- FutureOf,
  holder <- registrant, outcome <- OutcomeBar, state <- StateBar

\* AwaitCppFuture implements RequestPromise: one outcome a future, one taker,
\* and a caller returns once, with what it took or for a reason of its own.
PromiseSpec == Promise!Spec
=============================================================================
