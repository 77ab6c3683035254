--------------------------- MODULE StreamExecutor ---------------------------
(***************************************************************************)
(* The ordered stream I/O of ObscuraProto/__init__.py.  async_write,       *)
(* async_end, async_cancel and async_start_stream hand their operation to  *)
(* a lazily created pool of one worker, or to asyncio.to_thread when the   *)
(* pool refuses it; write, end and cancel run on the calling thread.       *)
(* _shutdown_executors drains the pool under the lock that guards its      *)
(* creation, at interpreter exit or when it is called.                     *)
(*                                                                         *)
(* Actors: the tasks, each on the event loop of some thread; the pool's    *)
(* worker; the threads of to_thread; whoever shuts the pool down.          *)
(***************************************************************************)
EXTENDS Naturals, Sequences

CONSTANTS
  Ops,            \* stream operations
  Tasks,          \* coroutines that perform them
  Program,        \* the operations of each task, in program order
  Loops, LoopOf,  \* the event loop of each task
  Sync,           \* the operations performed by write, end or cancel
  Disturbances,   \* which of "cancel", "restart" and "exit" may happen
  MaxPools,       \* bound: pools created while the program runs
  None            \* no operation

ASSUME ConstantsAssumption ==
  /\ Program \in [Tasks -> Seq(Ops)] /\ LoopOf \in [Tasks -> Loops]
  /\ Sync \subseteq Ops /\ None \notin Ops
  /\ MaxPools \in Nat \ {0}

\* Each operation is performed by one task, in one place of its program.
ASSUME ProgramsAssumption ==
  \A t, u \in Tasks : \A i \in 1..Len(Program[t]), j \in 1..Len(Program[u]) :
    Program[t][i] = Program[u][j] => t = u /\ i = j

VARIABLES
  pool,       \* _stream_executor: "none", "open" or "closing"
  pools,      \* pools created so far: the identity of the current one
  locked,     \* _executor_lock is held by _shutdown_executors
  phase,      \* the interpreter: "running", "exiting", "joined", "atexit", "over"
  at,         \* the operation each task has come to
  step,       \* where the task is in it
  held,       \* the pool that _get_executor gave the task
  state,      \* of each operation
  ret,        \* what each operation returned or raised to its task
  queue,      \* work items of each pool
  current,    \* what the worker of each pool runs
  submitted,  \* history: operations accepted by the pools, in order
  performed   \* history: operations the C++ stream has performed, in order

poolVars == <<pool, pools, locked, phase>>
taskVars == <<at, step, held, ret>>
workVars == <<state, queue, current>>
history  == <<submitted, performed>>
vars == <<poolVars, taskVars, workVars, history>>

\* One more pool may be created after the last restart, one after the atexit.
Pools == 1..(MaxPools + 2)

TypeOK ==
  /\ pool \in {"none", "open", "closing"} /\ pools \in Nat
  /\ locked \in BOOLEAN /\ phase \in {"running", "exiting", "joined", "atexit", "over"}
  /\ at \in [Tasks -> Nat \ {0}]
  /\ step \in [Tasks -> {"ready", "locking", "submitting", "waiting"}]
  /\ held \in [Tasks -> Nat]
  /\ state \in [Ops -> {"new", "queued", "aside", "running", "running_aside",
                        "dropped", "ok", "error"}]
  /\ ret \in [Ops -> {"none", "ok", "error", "cancelled", "refused"}]
  /\ queue \in [Pools -> Seq(Ops)] /\ current \in [Pools -> Ops \cup {None}]
  /\ submitted \in Seq(Ops) /\ performed \in Seq(Ops)

Init ==
  /\ pool = "none" /\ pools = 0 /\ locked = FALSE /\ phase = "running"
  /\ at = [t \in Tasks |-> 1] /\ step = [t \in Tasks |-> "ready"]
  /\ held = [t \in Tasks |-> 0]
  /\ state = [o \in Ops |-> "new"] /\ ret = [o \in Ops |-> "none"]
  /\ queue = [n \in Pools |-> <<>>] /\ current = [n \in Pools |-> None]
  /\ submitted = <<>> /\ performed = <<>>

-----------------------------------------------------------------------------
(* A task, on its event loop. *)

Op(t) == Program[t][at[t]]

\* No task of this loop holds its thread inside _run_in_stream_executor.
LoopFree(l) ==
  \A t \in Tasks : LoopOf[t] = l => step[t] \notin {"locking", "submitting"}

MayStep(t, where) == /\ phase # "over" /\ LoopFree(LoopOf[t])
                     /\ step[t] = where /\ at[t] <= Len(Program[t])

\* The operation is over for its task, which goes on to the next one.
ReturnToTask(t, r) == /\ ret' = [ret EXCEPT ![Op(t)] = r]
                      /\ at' = [at EXCEPT ![t] = @ + 1]
                      /\ step' = [step EXCEPT ![t] = "ready"]

\* The C++ stream performs o (or drops it, if it is closed: README, v1.1.1), or
\* the binding raises: start_stream without a session, a payload of a wrong type.
Perform(o, v) ==
  /\ state' = [state EXCEPT ![o] = v]
  /\ performed' = IF v = "ok" THEN Append(performed, o) ELSE performed

\* Stream.write, end, cancel.
SyncOperation(t) ==
  /\ MayStep(t, "ready") /\ Op(t) \in Sync
  /\ \E v \in {"ok", "error"} : Perform(Op(t), v) /\ ReturnToTask(t, v)
  /\ UNCHANGED <<poolVars, held, queue, current, submitted>>

\* _run_in_stream_executor comes to the lock in _get_executor.
AsyncOperation(t) ==
  /\ MayStep(t, "ready") /\ Op(t) \notin Sync
  /\ step' = [step EXCEPT ![t] = "locking"]
  /\ UNCHANGED <<poolVars, at, held, ret, workVars, history>>

\* _get_executor: the pool, or a new one when there is none to use.
GetExecutor(t) ==
  /\ phase # "over" /\ step[t] = "locking" /\ ~locked
  /\ IF pool = "open" THEN UNCHANGED <<pool, pools>>
     ELSE pool' = "open" /\ pools' = pools + 1
  /\ held' = [held EXCEPT ![t] = pools']
  /\ step' = [step EXCEPT ![t] = "submitting"]
  /\ UNCHANGED <<locked, phase, at, ret, workVars, history>>

\* submit() accepts: this pool was not shut down, and the interpreter runs.
Accepts(t) == phase = "running" /\ pool = "open" /\ held[t] = pools

Submit(t) ==
  /\ step[t] = "submitting" /\ Accepts(t)
  /\ state' = [state EXCEPT ![Op(t)] = "queued"]
  /\ queue' = [queue EXCEPT ![pools] = Append(@, Op(t))]
  /\ submitted' = Append(submitted, Op(t))
  /\ step' = [step EXCEPT ![t] = "waiting"]
  /\ UNCHANGED <<poolVars, at, held, ret, current, performed>>

\* submit() raises: asyncio.to_thread, whose executor refuses too once the
\* interpreter exits.
FallBack(t) ==
  /\ phase # "over" /\ step[t] = "submitting" /\ ~Accepts(t)
  /\ IF phase = "running"
     THEN /\ state' = [state EXCEPT ![Op(t)] = "aside"]
          /\ step' = [step EXCEPT ![t] = "waiting"]
          /\ UNCHANGED <<at, ret>>
     ELSE ReturnToTask(t, "refused") /\ UNCHANGED state
  /\ UNCHANGED <<poolVars, held, queue, current, history>>

\* mutant: the task does not wait for the operation.
ResumeEarly(t) ==
  /\ MayStep(t, "waiting")
  /\ ReturnToTask(t, state[Op(t)])
  /\ UNCHANGED <<poolVars, held, workVars, history>>

\* mutant: the exception of the operation is swallowed.
ResumeSwallowing(t) ==
  /\ MayStep(t, "waiting") /\ state[Op(t)] \in {"ok", "error"}
  /\ ReturnToTask(t, "ok")
  /\ UNCHANGED <<poolVars, held, workVars, history>>

Resume(t) ==
  /\ MayStep(t, "waiting") /\ state[Op(t)] \in {"ok", "error"}
  /\ ReturnToTask(t, state[Op(t)])
  /\ UNCHANGED <<poolVars, held, workVars, history>>

\* The task is cancelled in its await: a work item that has not started is
\* cancelled, one that runs goes on alone.
CancelAwait(t) ==
  /\ "cancel" \in Disturbances /\ MayStep(t, "waiting")
  /\ state' = IF state[Op(t)] \in {"queued", "aside"}
              THEN [state EXCEPT ![Op(t)] = "dropped"] ELSE state
  /\ ReturnToTask(t, "cancelled")
  /\ UNCHANGED <<poolVars, held, queue, current, history>>

-----------------------------------------------------------------------------
(* The pool's worker, and the threads of to_thread. *)

\* The worker takes the next item; a cancelled one is passed over.
TakeItem(n) ==
  /\ queue[n] # <<>> /\ current[n] = None
  /\ queue' = [queue EXCEPT ![n] = Tail(@)]
  /\ LET o == Head(queue[n]) IN
     IF state[o] = "dropped" THEN UNCHANGED <<current, state>>
     ELSE current' = [current EXCEPT ![n] = o] /\ state' = [state EXCEPT ![o] = "running"]
  /\ UNCHANGED <<poolVars, taskVars, history>>

FinishItem(n) ==
  /\ current[n] # None
  /\ \E v \in {"ok", "error"} : Perform(current[n], v)
  /\ current' = [current EXCEPT ![n] = None]
  /\ UNCHANGED <<poolVars, taskVars, queue, submitted>>

StartAside(o) ==
  /\ state[o] = "aside"
  /\ state' = [state EXCEPT ![o] = "running_aside"]
  /\ UNCHANGED <<poolVars, taskVars, queue, current, history>>

FinishAside(o) ==
  /\ state[o] = "running_aside"
  /\ \E v \in {"ok", "error"} : Perform(o, v)
  /\ UNCHANGED <<poolVars, taskVars, queue, current, submitted>>

-----------------------------------------------------------------------------
(* Shutdown. *)

Drained(n) == queue[n] = <<>> /\ current[n] = None

\* _shutdown_executors takes the lock: called, or registered with atexit, which
\* runs it once the interpreter has joined the workers.
ShutdownBegins ==
  /\ \/ /\ "restart" \in Disturbances /\ pools < MaxPools
        /\ phase = "running" /\ UNCHANGED phase
     \/ phase = "joined" /\ phase' = "atexit"
  /\ ~locked /\ pool = "open"
  /\ locked' = TRUE /\ pool' = "closing"
  /\ UNCHANGED <<pools, taskVars, workVars, history>>

\* mutant: shutdown(wait=False).
DrainsAtOnce ==
  /\ locked /\ pool = "closing"
  /\ pool' = "none"
  /\ UNCHANGED <<pools, locked, phase, taskVars, workVars, history>>

\* mutant: what is queued is thrown away.
DrainsByDiscarding ==
  /\ locked /\ pool = "closing"
  /\ pool' = "none"
  /\ queue' = [queue EXCEPT ![pools] = <<>>]
  /\ UNCHANGED <<pools, locked, phase, taskVars, state, current, history>>

\* shutdown(wait=True) of the stream pool returns.
ShutdownDrains ==
  /\ locked /\ pool = "closing" /\ Drained(pools)
  /\ pool' = "none"
  /\ UNCHANGED <<pools, locked, phase, taskVars, workVars, history>>

\* mutant: the lock is not released.
ShutdownKeepsLock ==
  /\ locked /\ pool = "none"
  /\ UNCHANGED vars

\* That of the request pool has returned as well, the lock still held.
ShutdownEnds ==
  /\ locked /\ pool = "none"
  /\ locked' = FALSE
  /\ UNCHANGED <<pool, pools, phase, taskVars, workVars, history>>

\* The interpreter (external): executors refuse work, the workers they have are
\* joined, then atexit runs and the process ends, with the loops of its daemon
\* threads.
Exit ==
  /\ "exit" \in Disturbances
  /\ \/ phase = "running" /\ phase' = "exiting"
     \/ /\ phase = "exiting" /\ \A n \in Pools : Drained(n)
        /\ \A o \in Ops : state[o] \notin {"aside", "running_aside"}
        /\ phase' = "joined"
     \/ phase = "joined" /\ ~locked /\ pool = "none" /\ phase' = "over"
     \/ phase = "atexit" /\ ~locked /\ phase' = "over"
  /\ UNCHANGED <<pool, pools, locked, taskVars, workVars, history>>

TaskStep(t) == \/ AsyncOperation(t) \/ SyncOperation(t) \/ GetExecutor(t)
               \/ Submit(t) \/ FallBack(t) \/ Resume(t)

Work == \/ \E n \in Pools : TakeItem(n) \/ FinishItem(n)
        \/ \E o \in Ops : StartAside(o) \/ FinishAside(o)

Next == \/ \E t \in Tasks : TaskStep(t) \/ CancelAwait(t)
        \/ Work \/ ShutdownBegins \/ ShutdownDrains \/ ShutdownEnds \/ Exit

Spec == Init /\ [][Next]_vars

\* Threads and loops run, and a stream operation ends: it fills a buffer.  The
\* fetches of the request pool end by their deadlines.  No task has to go on, and
\* nobody has to shut down, but an exit runs to its end.
Fairness ==
  /\ \A t \in Tasks : /\ WF_vars(GetExecutor(t)) /\ WF_vars(Submit(t))
                       /\ WF_vars(FallBack(t)) /\ WF_vars(Resume(t))
  /\ \A n \in Pools : WF_vars(TakeItem(n)) /\ WF_vars(FinishItem(n))
  /\ \A o \in Ops : WF_vars(StartAside(o)) /\ WF_vars(FinishAside(o))
  /\ WF_vars(ShutdownDrains) /\ WF_vars(ShutdownEnds)
  /\ WF_vars(phase # "running" /\ (ShutdownBegins \/ Exit))

FairSpec == Spec /\ Fairness

-----------------------------------------------------------------------------
(* Properties. *)

Done(o) == \E i \in 1..Len(performed) : performed[i] = o
Before(s, p, o) == \E j \in 1..Len(s) : s[j] = o /\ \E i \in 1..(j - 1) : s[i] = p

\* "A single worker preserves FIFO submission order": of two operations the pools
\* accepted, from any tasks and loops, the later one does not begin before the
\* earlier one has ended or was withdrawn, and takes effect after it, though a
\* pool is shut down between them and another one created.
SubmissionOrder ==
  \A j \in 1..Len(submitted) : \A i \in 1..(j - 1) :
    LET o1 == submitted[i]
        o2 == submitted[j] IN
    /\ state[o2] \in {"running", "ok", "error"} => state[o1] \in {"dropped", "ok", "error"}
    /\ Done(o1) /\ Done(o2) => Before(performed, o1, o2)

\* "end() must never overtake the last write": a task's operations, awaited one
\* by one, are performed in program order, the synchronous ones among them,
\* unless it was cancelled in the await of the earlier one.
ProgramOrder ==
  \A t \in Tasks : \A j \in 1..Len(Program[t]) : \A i \in 1..(j - 1) :
    Before(performed, Program[t][j], Program[t][i]) => ret[Program[t][i]] = "cancelled"

\* What a task is told is what happened: an operation is performed at most once;
\* it was performed if the await returned; never if it was refused or raised.
ToldTheTruth ==
  \A o \in Ops : /\ ~Before(performed, o, o)
                 /\ ret[o] = "ok" => Done(o)
                 /\ ret[o] \in {"error", "refused"} => ~Done(o)

\* "Shut down gracefully at interpreter exit": when the process ends, no
\* operation that was accepted, or was taken over by to_thread, was forgotten.
NothingForgotten ==
  phase = "over" => \A o \in Ops : state[o] \in {"new", "dropped", "ok", "error"}

\* The pools, one after another, are one line of operations: the one that takes
\* effect is what the last pool's worker runs, the others are in its queue.
LastPool == IF pools = 0 THEN 1 ELSE pools
FateOf(s) == CASE s = "queued" -> "waiting" [] s = "running" -> "begun"
               [] s = "dropped" -> "withdrawn" [] s \in {"aside", "running_aside"} -> "beside"
               [] OTHER -> s
Fate == [o \in Ops |-> FateOf(state[o])]

Ordered == INSTANCE OrderedOperations WITH
  Operations <- Ops, Nothing <- None, line <- queue[LastPool],
  serving <- current[LastPool], fate <- Fate, told <- ret, effects <- performed

\* StreamExecutor implements OrderedOperations: no restart of the pool, no exit
\* and no cancellation lets an operation overtake another, or loses one.
OrderedSpec == Ordered!Spec

\* Each operation returns to its task, though the loop's thread may wait for the
\* lock that a shutdown holds while it drains the pool; and the lock does not hold up
\* the exit of the interpreter.
CallsReturn ==
  /\ \A t \in Tasks : step[t] = "locking" ~> step[t] = "ready" \/ phase = "over"
  /\ phase = "exiting" ~> phase = "over"

-----------------------------------------------------------------------------
(* The inductive invariant (StreamExecutor_proofs). *)

\* The lock is held while a pool closes.  There is a pool for every restart, and
\* none is created after the one that may follow the atexit.
PoolInv ==
  /\ pool = "closing" => locked
  /\ locked => pool # "open"
  /\ pools = 0 => pool = "none"
  /\ IF phase \in {"running", "exiting", "joined"}
     THEN pools <= MaxPools /\ (pool = "open" \/ pools < MaxPools)
     ELSE pools <= MaxPools + 1 /\ (pool = "open" \/ pools <= MaxPools)

\* Only the last pool has work, and none once it is shut down; each operation
\* stands in its queue once.
LineInv ==
  \A n \in Pools :
    /\ n # LastPool \/ pool = "none" => Drained(n)
    /\ current[n] # None => state[current[n]] = "running"
    /\ \A i \in 1..Len(queue[n]) :
         /\ state[queue[n][i]] \in {"queued", "dropped"}
         /\ \A j \in 1..Len(queue[n]) : queue[n][j] = queue[n][i] => j = i

\* What was accepted is in the line, and what was taken over keeps the
\* interpreter from going on with its exit.
KeptInv ==
  /\ \A o \in Ops :
       /\ state[o] = "queued" => \E n \in Pools : \E i \in 1..Len(queue[n]) : queue[n][i] = o
       /\ state[o] = "running" => \E n \in Pools : current[n] = o
  /\ phase \in {"joined", "atexit", "over"} =>
       /\ \A n \in Pools : Drained(n)
       /\ \A o \in Ops : state[o] \notin {"aside", "running_aside"}

\* A task has been told of the operations before the one it has come to, and
\* has not begun those after it.
TaskInv ==
  \A t \in Tasks :
    /\ step[t] # "ready" => at[t] <= Len(Program[t])
    /\ \A j \in 1..Len(Program[t]) :
         LET o == Program[t][j] IN
         /\ ret[o] # "none" <=> j < at[t]
         /\ j > at[t] \/ (j = at[t] /\ step[t] # "waiting") => state[o] = "new"
         /\ j = at[t] /\ step[t] = "waiting" => state[o] \notin {"new", "dropped"}

OutcomeInv ==
  /\ \A o \in Ops : /\ ret[o] \in {"ok", "error"} => state[o] = ret[o]
                    /\ ret[o] = "refused" => state[o] = "new"
                    /\ Done(o) <=> state[o] = "ok"
  /\ \A i, j \in 1..Len(performed) : performed[i] = performed[j] => i = j

\* What was accepted was accepted once, is past its start and does not go aside;
\* the line is in the order of acceptance.
AcceptedInv ==
  /\ \A i, j \in 1..Len(submitted) : submitted[i] = submitted[j] => i = j
  /\ \A i \in 1..Len(submitted) : state[submitted[i]] \notin {"new", "aside", "running_aside"}
  /\ \A n \in Pools : \A j \in 1..Len(queue[n]) :
       /\ \E k \in 1..Len(submitted) : submitted[k] = queue[n][j]
       /\ \A i \in 1..(j - 1) : Before(submitted, queue[n][i], queue[n][j])

\* All of them, with what the order of a program and of the line comes to.
IInv == /\ TypeOK /\ PoolInv /\ LineInv /\ KeptInv /\ TaskInv /\ OutcomeInv
        /\ AcceptedInv /\ ProgramOrder /\ SubmissionOrder
=============================================================================
