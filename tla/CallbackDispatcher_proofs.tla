---------------------- MODULE CallbackDispatcher_proofs ----------------------
(***************************************************************************)
(* Proofs about CallbackDispatcher for any number of calls, I/O threads,   *)
(* handlers' owners and ticks, every kind of handler and every disturbance. *)
(***************************************************************************)
EXTENDS CallbackDispatcher, TLAPS

\* What the wrapper's moves do to the types of a thread's state.
LEMMA ReturnType ==
  ASSUME TypeOK, NEW c \in Calls, NEW v \in Values \cup {"none", "coroutine", "raised"},
         Return(c, v)
  PROVE  /\ out' \in [Calls -> Values \cup {"pending", "none", "coroutine", "raised"}]
         /\ flag' \in [Threads -> BOOLEAN]
         /\ serving' \in [Threads -> Calls \cup {Nobody}]
         /\ pc' \in [Calls -> {"idle", "body", "polling", "checking", "failing",
                               "failing_again", "self_join", "done"}]
         /\ UNCHANGED <<deadline, failed>>
BY DEF TypeOK, Return, Goto

LEMMA FailType ==
  ASSUME TypeOK, NEW c \in Calls, NEW w \in {"failing", "failing_again", "self_join"},
         Fail(c, w)
  PROVE  /\ failed' \in [Calls -> BOOLEAN]
         /\ pc' \in [Calls -> {"idle", "body", "polling", "checking", "failing",
                               "failing_again", "self_join", "done"}]
         /\ UNCHANGED <<serving, flag, deadline, out>>
BY DEF TypeOK, Fail, Goto

LEMMA TypeStep == ConstantsAssumption /\ TypeOK /\ [Next]_vars => TypeOK'
<1> SUFFICES ASSUME ConstantsAssumption, TypeOK, [Next]_vars PROVE TypeOK'
  OBVIOUS
<1>1. ASSUME NEW c \in Calls, Invoke(c) PROVE TypeOK'
  BY <1>1 DEF Invoke, Goto, TypeOK, async, errors, ends, T, ConstantsAssumption
<1>2. ASSUME NEW c \in Calls, CallStep(c) PROVE TypeOK'
  <2> USE DEF async, errors, ends
  <2>1. CASE HandlerReturns(c)
    BY <2>1, ReturnType, FailType DEF HandlerReturns, TypeOK
  <2>2. CASE HandlerRaises(c) \/ HandlerBlocks(c)
    BY <2>2, ReturnType, FailType DEF HandlerRaises, HandlerBlocks, TypeOK
  <2>3. CASE CoroutineStranded(c)
    BY <2>3, ReturnType, FailType DEF CoroutineStranded, TypeOK
  <2>4. CASE CoroutineScheduled(c)
    <3>1. ready' \in Seq(Calls)
      BY <2>4 DEF CoroutineScheduled, TypeOK
    <3>2. cf' \in [Calls -> Values \cup {"none", "pending", "error", "cancelled"}]
      BY <2>4 DEF CoroutineScheduled, TypeOK
    <3>3. CASE Kind[c] = "forget"
      <4>1. caught' \in [Calls -> Owners \cup {Nobody}]
        <5>1. caught' = [caught EXCEPT ![c] = errHandler]
          BY <2>4, <3>3 DEF CoroutineScheduled
        <5>2. /\ caught \in [Calls -> Owners \cup {Nobody}]
              /\ errHandler \in Owners \cup {Nobody}
          BY DEF TypeOK
        <5> QED BY <5>1, <5>2
      <4>2. Return(c, "none")
        BY <2>4, <3>3 DEF CoroutineScheduled
      <4> QED BY <2>4, <3>1, <3>2, <4>1, <4>2, ReturnType DEF CoroutineScheduled, TypeOK
    <3>4. CASE Kind[c] # "forget"
      <4>1. deadline' \in [Calls -> Nat]
        <5>1. deadline' = [deadline EXCEPT ![c] = now + ResultTimeout]
          BY <2>4, <3>4 DEF CoroutineScheduled
        <5>2. deadline \in [Calls -> Nat] /\ now + ResultTimeout \in Nat
          BY DEF TypeOK, ConstantsAssumption
        <5> QED BY <5>1, <5>2
      <4>2. Goto(c, "polling") /\ UNCHANGED <<serving, flag, failed, out, caught>>
        BY <2>4, <3>4 DEF CoroutineScheduled
      <4> QED BY <2>4, <3>1, <3>2, <4>1, <4>2 DEF CoroutineScheduled, TypeOK, Goto
    <3> QED BY <3>3, <3>4
  <2>5. CASE PollDone(c)
    BY <2>5, ReturnType, FailType DEF PollDone, Except, TypeOK
  <2>6. CASE PollPending(c) \/ SleepAndPoll(c)
    <3>1. PICK w \in {"polling", "checking"} : Goto(c, w)
      BY <2>6 DEF PollPending, SleepAndPoll
    <3>2. UNCHANGED <<now, serving, flag, deadline, failed, out, async, errors, ends>>
      BY <2>6 DEF PollPending, SleepAndPoll
    <3> QED BY <3>1, <3>2 DEF Goto, TypeOK
  <2>7. CASE PollExpires(c)
    <3>1. cf' \in [Calls -> Values \cup {"none", "pending", "error", "cancelled"}]
      BY <2>7 DEF PollExpires, TypeOK
    <3> QED BY <2>7, <3>1, FailType DEF PollExpires, Except, TypeOK
  <2>8. CASE ErrorReraised(c)
    BY <2>8, ReturnType, FailType DEF ErrorReraised, TypeOK
  <2>9. CASE ErrorHandled(c) \/ ErrorHandlerRaises(c)
    <3>1. errHandler \in Owners /\ reports' \in [Calls -> Seq(Owners)]
      <4>1. errHandler \in Owners /\ Report(c, errHandler)
        BY <2>9 DEF ErrorHandled, ErrorHandlerRaises, TypeOK
      <4>2. Append(reports[c], errHandler) \in Seq(Owners)
        BY <4>1 DEF TypeOK
      <4> QED BY <4>1, <4>2 DEF Report, TypeOK
    <3>2. CASE ErrorHandled(c)
      <4>1. PICK v \in Values \cup {"none", "coroutine", "raised"} : Return(c, v)
        BY <3>2 DEF ErrorHandled, Values
      <4> QED BY <3>1, <3>2, <4>1, ReturnType DEF ErrorHandled, TypeOK
    <3>3. CASE ErrorHandlerRaises(c)
      BY <3>1, <3>3, ReturnType, FailType DEF ErrorHandlerRaises, TypeOK
    <3> QED BY <2>9, <3>2, <3>3
  <2> QED BY <1>2, <2>1, <2>2, <2>3, <2>4, <2>5, <2>6, <2>7, <2>8, <2>9 DEF CallStep
<1>3. ASSUME NEW c \in Calls, TaskEnds(c) PROVE TypeOK'
  <2>1. PICK v \in Values \cup {"error", "cancelled"} :
          /\ task' = [task EXCEPT ![c] = v]
          /\ cf' = IF cf[c] = "pending" THEN [cf EXCEPT ![c] = v] ELSE cf
          /\ reports' = [reports EXCEPT ![c] = Forward(c, v)]
    BY <1>3 DEF TaskEnds
  <2>2. Forward(c, v) \in Seq(Owners)
    BY DEF Forward, TypeOK
  <2>3. cf' \in [Calls -> Values \cup {"none", "pending", "error", "cancelled"}]
    BY <2>1 DEF TypeOK
  <2>4. task' \in [Calls -> Values \cup {"none", "running", "stopping", "error", "cancelled"}]
    BY <2>1 DEF TypeOK
  <2> QED BY <1>3, <2>1, <2>2, <2>3, <2>4 DEF TaskEnds, TypeOK, thread, ends
<1>4. ASSUME NEW c \in Calls, CancelTask(c) \/ TaskBlocks(c) \/ TaskUnblocks(c) PROVE TypeOK'
  <2>1. CASE CancelTask(c)
    BY <2>1 DEF CancelTask, TypeOK, thread, errors, ends
  <2>2. CASE TaskBlocks(c) \/ TaskUnblocks(c)
    BY <2>2 DEF TaskBlocks, TaskUnblocks, TypeOK, thread, async, errors
  <2> QED BY <1>4, <2>1, <2>2
<1>5. CASE StartTask
  <2>1. Head(ready) \in Calls /\ ready' \in Seq(Calls)
    BY <1>5 DEF StartTask, TypeOK
  <2> QED BY <1>5, <2>1 DEF StartTask, TypeOK, thread, errors, ends
<1>6. CASE CloseLoop
  <2>1. \A c \in Calls : Forward(c, "cancelled") \in Seq(Owners)
    BY DEF Forward, TypeOK
  <2> QED BY <1>6, <2>1 DEF CloseLoop, TypeOK, thread
<1>7. CASE CallStop \/ StopReturns \/ Tick
  BY <1>7 DEF CallStop, StopReturns, Tick, TypeOK, thread, async, errors, ends
<1>8. ASSUME NEW o \in Owners \cup {Nobody}, SetErrorHandler(o) PROVE TypeOK'
  BY <1>8 DEF SetErrorHandler, TypeOK, thread, async, ends
<1>9. CASE UNCHANGED vars
  BY <1>9 DEF vars, TypeOK, thread, async, errors, ends
<1> QED BY <1>1, <1>2, <1>3, <1>4, <1>5, <1>6, <1>7, <1>8, <1>9 DEF Next

-----------------------------------------------------------------------------
\* Every step of a wrapper moves it along its thread, or leaves the thread.
LEMMA ServingStep ==
  ConstantsAssumption /\ TypeOK /\ ServingInv /\ [Next]_vars => ServingInv'
<1> SUFFICES ASSUME ConstantsAssumption, TypeOK, ServingInv, [Next]_vars
             PROVE  ServingInv'
  OBVIOUS
<1>0. /\ \A c \in Calls : T(c) \in Threads /\ c # Nobody
      /\ serving \in [Threads -> Calls \cup {Nobody}] /\ flag \in [Threads -> BOOLEAN]
      /\ pc \in [Calls -> {"idle", "body", "polling", "checking", "failing",
                           "failing_again", "self_join", "done"}]
  BY DEF ConstantsAssumption, T, TypeOK
<1>1. ASSUME NEW c \in Calls, Invoke(c) PROVE ServingInv'
  BY <1>0, <1>1 DEF Invoke, Goto, ServingInv, OnThread, T
<1>2. ASSUME NEW c \in Calls, OnThread(c), NEW v, Return(c, v) PROVE ServingInv'
  BY <1>0, <1>2 DEF Return, Goto, ServingInv, OnThread, T
<1>3. ASSUME NEW c \in Calls, OnThread(c), UNCHANGED <<serving, flag>>,
             NEW w \in {"body", "polling", "checking", "failing", "failing_again"}, Goto(c, w)
      PROVE  ServingInv'
  BY <1>0, <1>3 DEF Goto, ServingInv, OnThread, T
<1>4. ASSUME UNCHANGED <<pc, serving, flag>> PROVE ServingInv'
  BY <1>0, <1>4 DEF ServingInv, OnThread, T
<1>5. ASSUME NEW c \in Calls, CallStep(c) PROVE ServingInv'
  <2>0. OnThread(c)
    BY <1>5 DEF CallStep, OnThread, HandlerReturns, HandlerRaises, HandlerBlocks,
       CoroutineStranded, CoroutineScheduled, PollDone, PollPending, SleepAndPoll,
       PollExpires, ErrorReraised, ErrorHandled, ErrorHandlerRaises
  <2>1. CASE HandlerReturns(c) \/ HandlerRaises(c) \/ CoroutineStranded(c)
    BY <1>2, <1>3, <2>0, <2>1 DEF HandlerReturns, HandlerRaises, CoroutineStranded, Fail
  <2>2. CASE HandlerBlocks(c)
    <3>1. flag[T(c)]
      BY <1>0, <2>0 DEF ServingInv
    <3> QED BY <1>3, <2>0, <2>2, <3>1 DEF HandlerBlocks, Fail
  <2>3. CASE CoroutineScheduled(c)
    BY <1>2, <1>3, <2>0, <2>3 DEF CoroutineScheduled
  <2>4. CASE PollDone(c) \/ PollExpires(c)
    BY <1>2, <1>3, <2>0, <2>4 DEF PollDone, PollExpires, Fail, Except
  <2>5. CASE PollPending(c) \/ SleepAndPoll(c)
    BY <1>3, <2>0, <2>5 DEF PollPending, SleepAndPoll
  <2>6. CASE ErrorReraised(c) \/ ErrorHandled(c) \/ ErrorHandlerRaises(c)
    BY <1>2, <1>3, <2>0, <2>6 DEF ErrorReraised, ErrorHandled, ErrorHandlerRaises, Fail
  <2> QED BY <1>5, <2>1, <2>2, <2>3, <2>4, <2>5, <2>6 DEF CallStep
<1>6. ASSUME NEW c \in Calls,
             TaskEnds(c) \/ CancelTask(c) \/ TaskBlocks(c) \/ TaskUnblocks(c)
      PROVE  ServingInv'
  BY <1>4, <1>6 DEF TaskEnds, CancelTask, TaskBlocks, TaskUnblocks, thread
<1>7. CASE StartTask \/ CloseLoop \/ CallStop \/ StopReturns \/ Tick
  BY <1>4, <1>7 DEF StartTask, CloseLoop, CallStop, StopReturns, Tick, thread
<1>8. CASE (\E o \in Owners \cup {Nobody} : SetErrorHandler(o)) \/ UNCHANGED vars
  BY <1>4, <1>8 DEF SetErrorHandler, vars, thread
<1> QED BY <1>1, <1>5, <1>6, <1>7, <1>8 DEF Next

-----------------------------------------------------------------------------
\* What a coroutine's call, its future and its task know of one another.
LEMMA FutureStep ==
  ConstantsAssumption /\ TypeOK /\ FutureInv /\ [Next]_vars => FutureInv'
<1> SUFFICES ASSUME ConstantsAssumption, TypeOK, FutureInv, [Next]_vars
             PROVE  FutureInv'
  OBVIOUS
<1>0. /\ ready \in Seq(Calls)
      /\ cf \in [Calls -> Values \cup {"none", "pending", "error", "cancelled"}]
      /\ task \in [Calls -> Values \cup {"none", "running", "stopping", "error", "cancelled"}]
      /\ pc \in [Calls -> {"idle", "body", "polling", "checking", "failing",
                           "failing_again", "self_join", "done"}]
  BY DEF TypeOK
<1>1. ASSUME UNCHANGED <<pc, async>> PROVE FutureInv'
  BY <1>1 DEF FutureInv, async
<1>2. ASSUME NEW c \in Calls, UNCHANGED async, NEW w, Goto(c, w),
             \/ pc[c] = "idle" /\ w = "body"
             \/ pc[c] \in {"polling", "checking"} /\ w \in {"polling", "checking"}
             \/ w \in {"failing", "failing_again", "self_join", "done"}
      PROVE  FutureInv'
  BY <1>0, <1>2 DEF FutureInv, async, Goto
<1>3. ASSUME NEW c \in Calls, CallStep(c) PROVE FutureInv'
  <2>1. CASE HandlerReturns(c) \/ HandlerRaises(c) \/ HandlerBlocks(c) \/ CoroutineStranded(c)
    BY <1>2, <2>1 DEF HandlerReturns, HandlerRaises, HandlerBlocks, CoroutineStranded,
       Return, Fail
  <2>2. CASE CoroutineScheduled(c)
    <3>1. cf[c] = "none" /\ task[c] = "none" /\ \A i \in 1..Len(ready) : ready[i] # c
      BY <2>2 DEF CoroutineScheduled, FutureInv
    <3>2. PICK w \in {"done", "polling"} : Goto(c, w)
      BY <2>2 DEF CoroutineScheduled, Return
    <3>3. /\ Len(ready') = Len(ready) + 1 /\ ready'[Len(ready) + 1] = c
          /\ \A i \in 1..Len(ready) : ready'[i] = ready[i] /\ ready[i] \in Calls
      BY <1>0, <2>2 DEF CoroutineScheduled
    <3>4. cf' = [cf EXCEPT ![c] = "pending"] /\ UNCHANGED task
      BY <2>2 DEF CoroutineScheduled
    <3>5. Len(ready) \in Nat
      BY <1>0
    <3>6. \A i, j \in 1..Len(ready') : ready'[i] = ready'[j] => i = j
      BY <3>1, <3>3, <3>5 DEF FutureInv
    <3>7. \A i \in 1..Len(ready') : cf'[ready'[i]] \in {"pending", "cancelled"}
                                    /\ task'[ready'[i]] = "none"
      BY <1>0, <3>1, <3>3, <3>4, <3>5 DEF FutureInv
    <3> QED BY <1>0, <3>1, <3>2, <3>4, <3>6, <3>7 DEF FutureInv, Goto, Values
  <2>3. CASE PollDone(c)
    BY <1>2, <2>3 DEF PollDone, Return, Fail, Except
  <2>4. CASE PollPending(c) \/ SleepAndPoll(c)
    BY <1>2, <2>4 DEF PollPending, SleepAndPoll
  <2>5. CASE PollExpires(c)
    <3>1. PICK w \in {"failing", "failing_again"} : Goto(c, w)
      BY <2>5 DEF PollExpires, Fail, Except
    <3>2. cf' = [cf EXCEPT ![c] = IF cf[c] = "pending" THEN "cancelled" ELSE @]
          /\ UNCHANGED <<task, ready>>
      BY <1>0, <2>5 DEF PollExpires
    <3>3. \A i \in 1..Len(ready) : ready[i] \in Calls
      BY <1>0
    <3> QED BY <1>0, <3>1, <3>2, <3>3 DEF FutureInv, Goto, Values
  <2>6. CASE ErrorReraised(c) \/ ErrorHandled(c) \/ ErrorHandlerRaises(c)
    BY <1>2, <2>6 DEF ErrorReraised, ErrorHandled, ErrorHandlerRaises, Return, Fail
  <2> QED BY <1>3, <2>1, <2>2, <2>3, <2>4, <2>5, <2>6 DEF CallStep
<1>4. ASSUME NEW c \in Calls, Invoke(c) \/ TaskBlocks(c) \/ TaskUnblocks(c) PROVE FutureInv'
  BY <1>1, <1>2, <1>4 DEF Invoke, TaskBlocks, TaskUnblocks, thread
<1>5. ASSUME NEW c \in Calls, TaskEnds(c) \/ CancelTask(c) PROVE FutureInv'
  <2>1. /\ task[c] \in {"running", "stopping"} /\ UNCHANGED <<pc, ready>>
        /\ \E v \in Values \cup {"error", "stopping", "cancelled"} :
             /\ task' = [task EXCEPT ![c] = v]
             /\ cf' = IF cf[c] = "pending" THEN [cf EXCEPT ![c] = v] ELSE cf
             /\ v = "stopping" => cf[c] = "cancelled"
    <3>1. CASE TaskEnds(c)
      <4>1. PICK v \in Values \cup {"error", "cancelled"} :
              /\ task' = [task EXCEPT ![c] = v]
              /\ cf' = IF cf[c] = "pending" THEN [cf EXCEPT ![c] = v] ELSE cf
        BY <3>1 DEF TaskEnds
      <4>2. v # "stopping"
        BY DEF Values
      <4> QED BY <3>1, <4>1, <4>2 DEF TaskEnds, Runs, thread
    <3>2. CASE CancelTask(c)
      <4>1. PICK v \in {"cancelled", "stopping"} : task' = [task EXCEPT ![c] = v]
        BY <3>2 DEF CancelTask
      <4> QED BY <3>2, <4>1 DEF CancelTask, thread
    <3> QED BY <1>5, <3>1, <3>2
  <2>2. \A i \in 1..Len(ready) : ready[i] \in Calls \ {c}
    BY <1>0, <2>1 DEF FutureInv
  <2>3. cf[c] # "none" /\ cf[c] \notin Values
    BY <2>1 DEF FutureInv, Values
  <2>4. PICK v \in Values \cup {"error", "stopping", "cancelled"} :
             /\ task' = [task EXCEPT ![c] = v]
             /\ cf' = IF cf[c] = "pending" THEN [cf EXCEPT ![c] = v] ELSE cf
             /\ v = "stopping" => cf[c] = "cancelled"
    BY <2>1
  <2>5. \A i \in 1..Len(ready) : cf'[ready[i]] = cf[ready[i]] /\ task'[ready[i]] = task[ready[i]]
    BY <1>0, <2>2, <2>4
  <2>6. \A d \in Calls : cf'[d] # cf[d] => d = c /\ cf[c] = "pending" /\ cf'[c] = v
    BY <1>0, <2>4
  <2>7. \A d \in Calls : task'[d] = IF d = c THEN v ELSE task[d]
    BY <1>0, <2>4
  <2>8. v # "none" /\ ~(cf[c] = "pending" /\ pc[c] \in {"idle", "body"})
        /\ (v = "stopping" => cf'[c] = "cancelled")
    BY <2>4, <2>6 DEF Values, FutureInv
  <2> QED BY <2>1, <2>3, <2>5, <2>6, <2>7, <2>8 DEF FutureInv
<1>6. CASE StartTask
  <2>1. /\ ready # <<>> /\ ready' = Tail(ready) /\ UNCHANGED <<pc, cf>>
        /\ task' = [task EXCEPT ![Head(ready)] = "running"]
    BY <1>6 DEF StartTask, thread
  <2>2. /\ Len(ready) \in Nat \ {0} /\ Len(ready') = Len(ready) - 1 /\ Head(ready) = ready[1]
        /\ \A i \in 1..Len(ready') : ready'[i] = ready[i + 1]
        /\ \A i \in 1..Len(ready) : ready[i] \in Calls
    BY <1>0, <2>1
  <2>3. \A i \in 1..Len(ready') : i + 1 \in 1..Len(ready) /\ i + 1 # 1
    BY <2>2
  <2>4. \A i \in 1..Len(ready') : ready'[i] # Head(ready) /\ ready'[i] \in Calls
    <3>1. 1 \in 1..Len(ready) /\ \A i, j \in 1..Len(ready) : ready[i] = ready[j] => i = j
      BY <2>2 DEF FutureInv
    <3> QED BY <2>2, <2>3, <3>1
  <2>5. \A i, j \in 1..Len(ready') : ready'[i] = ready'[j] => i = j
    BY <2>2, <2>3 DEF FutureInv
  <2>6. \A i \in 1..Len(ready') : cf[ready'[i]] \in {"pending", "cancelled"}
                                  /\ task'[ready'[i]] = "none"
    BY <1>0, <2>1, <2>2, <2>3, <2>4 DEF FutureInv
  <2>7. cf[Head(ready)] \in {"pending", "cancelled"}
    BY <2>2 DEF FutureInv
  <2> QED BY <1>0, <2>1, <2>5, <2>6, <2>7 DEF FutureInv, Values
<1>7. CASE CloseLoop
  <2>1. /\ UNCHANGED <<pc, ready>>
        /\ \A c \in Calls : task'[c] = IF task[c] \in {"running", "stopping"} THEN "cancelled" ELSE task[c]
        /\ \A c \in Calls : cf'[c] = IF task[c] \in {"running", "stopping"} /\ cf[c] = "pending"
                                     THEN "cancelled" ELSE cf[c]
    BY <1>7 DEF CloseLoop, Runs, thread
  <2>2. \A i \in 1..Len(ready) : ready[i] \in Calls
    BY <1>0
  <2> QED BY <2>1, <2>2 DEF FutureInv, Values
<1>8. CASE CallStop \/ StopReturns \/ Tick \/ UNCHANGED vars
           \/ \E o \in Owners \cup {Nobody} : SetErrorHandler(o)
  BY <1>1, <1>8 DEF CallStop, StopReturns, Tick, SetErrorHandler, vars, thread
<1> QED BY <1>3, <1>4, <1>5, <1>6, <1>7, <1>8 DEF Next

-----------------------------------------------------------------------------
\* What the core is told agrees with the future that the wrapper has read.
LEMMA OutcomeStep ==
  TypeOK /\ FutureInv /\ OutcomeInv /\ [Next]_vars => OutcomeInv'
<1> SUFFICES ASSUME TypeOK, FutureInv, OutcomeInv, [Next]_vars
             PROVE  OutcomeInv'
  OBVIOUS
<1>0. /\ cf \in [Calls -> Values \cup {"none", "pending", "error", "cancelled"}]
      /\ out \in [Calls -> Values \cup {"pending", "none", "coroutine", "raised"}]
      /\ pc \in [Calls -> {"idle", "body", "polling", "checking", "failing",
                           "failing_again", "self_join", "done"}]
  BY DEF TypeOK
<1>1. ASSUME UNCHANGED <<pc, out, cf>> PROVE OutcomeInv'
  BY <1>1 DEF OutcomeInv
<1>2. ASSUME NEW c \in Calls, pc[c] # "done", NEW w, w # "done", Goto(c, w),
             UNCHANGED <<out, cf>>
      PROVE  OutcomeInv'
  BY <1>0, <1>2 DEF OutcomeInv, Goto
<1>3. ASSUME NEW c \in Calls, pc[c] # "done",
             NEW v \in Values \cup {"none", "coroutine", "raised"}, Return(c, v),
             v = "yes" => cf[c] \in {"none", "yes"}, UNCHANGED cf
      PROVE  OutcomeInv'
  BY <1>0, <1>3 DEF OutcomeInv, Return, Goto, Values
<1>4. ASSUME NEW c \in Calls, CallStep(c) PROVE OutcomeInv'
  <2>1. CASE HandlerReturns(c)
    <3>1. pc[c] = "body" /\ cf[c] = "none"
      BY <2>1 DEF HandlerReturns, FutureInv
    <3> QED BY <1>3, <2>1, <3>1 DEF HandlerReturns, async
  <2>2. CASE HandlerRaises(c) \/ HandlerBlocks(c)
    BY <1>2, <2>2 DEF HandlerRaises, HandlerBlocks, Fail, async
  <2>3. CASE CoroutineStranded(c)
    BY <1>2, <1>3, <2>3 DEF CoroutineStranded, Fail, async
  <2>4. CASE CoroutineScheduled(c)
    <3>1. pc[c] = "body" /\ out[c] = "pending" /\ cf' = [cf EXCEPT ![c] = "pending"]
      BY <2>4 DEF CoroutineScheduled, OutcomeInv
    <3>2. CASE Kind[c] = "forget"
      BY <1>0, <2>4, <3>1, <3>2 DEF CoroutineScheduled, Return, Goto, OutcomeInv
    <3>3. CASE Kind[c] # "forget"
      BY <1>0, <2>4, <3>1, <3>3 DEF CoroutineScheduled, Goto, OutcomeInv
    <3> QED BY <3>2, <3>3
  <2>5. CASE PollDone(c)
    BY <1>2, <1>3, <2>5 DEF PollDone, Fail, Except, async
  <2>6. CASE PollPending(c) \/ SleepAndPoll(c)
    BY <1>2, <2>6 DEF PollPending, SleepAndPoll, async
  <2>7. CASE PollExpires(c)
    <3>1. PICK w \in {"failing", "failing_again"} : Goto(c, w)
      BY <2>7 DEF PollExpires, Fail, Except
    <3>2. pc[c] = "checking" /\ out[c] = "pending" /\ UNCHANGED out
      BY <2>7 DEF PollExpires, Fail, OutcomeInv
    <3>3. \A d \in Calls : d # c => cf'[d] = cf[d]
      BY <1>0, <2>7 DEF PollExpires
    <3> QED BY <1>0, <3>1, <3>2, <3>3 DEF OutcomeInv, Goto
  <2>8. CASE ErrorReraised(c) \/ ErrorHandlerRaises(c)
    BY <1>2, <1>3, <2>8 DEF ErrorReraised, ErrorHandlerRaises, Fail, async
  <2>9. CASE ErrorHandled(c)
    BY <1>3, <2>9 DEF ErrorHandled, async, Values
  <2> QED BY <1>4, <2>1, <2>2, <2>3, <2>4, <2>5, <2>6, <2>7, <2>8, <2>9 DEF CallStep
<1>5. ASSUME NEW c \in Calls, Invoke(c) PROVE OutcomeInv'
  BY <1>2, <1>5 DEF Invoke, async
<1>6. ASSUME NEW c \in Calls,
             CancelTask(c) \/ TaskBlocks(c) \/ TaskUnblocks(c)
      PROVE  OutcomeInv'
  BY <1>1, <1>6 DEF CancelTask, TaskBlocks, TaskUnblocks, thread, async
<1>7. ASSUME NEW c \in Calls, TaskEnds(c) PROVE OutcomeInv'
  <2>1. UNCHANGED <<pc, out>> /\ \A d \in Calls : cf[d] # "pending" => cf'[d] = cf[d]
    BY <1>0, <1>7 DEF TaskEnds, thread
  <2> QED BY <2>1 DEF OutcomeInv
<1>8. CASE CloseLoop
  <2>1. UNCHANGED <<pc, out>> /\ \A d \in Calls : cf[d] # "pending" => cf'[d] = cf[d]
    BY <1>0, <1>8 DEF CloseLoop, thread
  <2> QED BY <2>1 DEF OutcomeInv
<1>9. CASE StartTask \/ CallStop \/ StopReturns \/ Tick \/ UNCHANGED vars
           \/ \E o \in Owners \cup {Nobody} : SetErrorHandler(o)
  BY <1>1, <1>9 DEF StartTask, CallStop, StopReturns, Tick, SetErrorHandler, vars,
     thread, async
<1> QED BY <1>4, <1>5, <1>6, <1>7, <1>8, <1>9 DEF Next

-----------------------------------------------------------------------------
\* An error is reported once, on a thread or on the loop.
LEMMA ReportLength ==
  ASSUME TypeOK, NEW c \in Calls
  PROVE  /\ \A o \in Owners : Len(Append(reports[c], o)) = Len(reports[c]) + 1
         /\ Len(reports[c]) \in Nat /\ (reports[c] = <<>> <=> Len(reports[c]) = 0)
<1>1. reports[c] \in Seq(Owners)
  BY DEF TypeOK
<1> QED BY <1>1

\* What the loop reports: nothing unless a captured handler hears of a failure.
LEMMA ForwardLength ==
  ASSUME ConstantsAssumption, TypeOK, FutureInv, ForwardInv, NEW c \in Calls,
         Runs(c), NEW v
  PROVE  /\ Forward(c, v) = reports[c] \/ caught[c] # Nobody
         /\ caught[c] # Nobody =>
              /\ pc[c] = "done" /\ ~failed[c] /\ out[c] = "none" /\ reports[c] = <<>>
              /\ v \in {"error", "cancelled"} => Len(Forward(c, v)) = 1
              /\ v \notin {"error", "cancelled"} => Forward(c, v) = <<>>
<1>1. caught[c] \in Owners \cup {Nobody}
  BY DEF TypeOK
<1>2. caught[c] # Nobody =>
        pc[c] = "done" /\ ~failed[c] /\ out[c] = "none" /\ reports[c] = <<>>
  BY DEF ForwardInv, Runs
<1> QED BY <1>1, <1>2, ReportLength DEF Forward

LEMMA FailureStep ==
  ConstantsAssumption /\ TypeOK /\ ServingInv /\ FutureInv /\ OutcomeInv /\ FailureInv /\ ForwardInv
    /\ [Next]_vars => FailureInv'
<1> SUFFICES ASSUME ConstantsAssumption, TypeOK, ServingInv, FutureInv, OutcomeInv,
                    FailureInv, ForwardInv, [Next]_vars
             PROVE  FailureInv'
  OBVIOUS
<1>0. /\ reports \in [Calls -> Seq(Owners)] /\ failed \in [Calls -> BOOLEAN]
      /\ out \in [Calls -> Values \cup {"pending", "none", "coroutine", "raised"}]
      /\ pc \in [Calls -> {"idle", "body", "polling", "checking", "failing",
                           "failing_again", "self_join", "done"}]
  BY DEF TypeOK
<1>1. ASSUME UNCHANGED <<pc, failed, out, reports>> PROVE FailureInv'
  BY <1>1 DEF FailureInv
<1>2. ASSUME NEW c \in Calls, UNCHANGED <<failed, out, reports>>, NEW w, Goto(c, w),
             \/ pc[c] = "idle" /\ w = "body"
             \/ pc[c] \in {"body", "polling", "checking"} /\ w \in {"polling", "checking"}
      PROVE  FailureInv'
  BY <1>0, <1>2 DEF FailureInv, Goto
<1>3. ASSUME NEW c \in Calls, pc[c] # "done", NEW w \in {"failing", "failing_again", "self_join"},
             Fail(c, w), UNCHANGED reports
      PROVE  FailureInv'
  BY <1>0, <1>3 DEF FailureInv, Fail, Goto
<1>4. ASSUME NEW c \in Calls, UNCHANGED reports, NEW v, Return(c, v),
             \/ pc[c] \in {"body", "polling"} /\ v # "raised"
             \/ pc[c] = "failing_again" /\ v = "raised"
      PROVE  FailureInv'
  BY <1>0, <1>4, ReportLength DEF FailureInv, Return, Goto
<1>5. ASSUME NEW c \in Calls, CallStep(c) PROVE FailureInv'
  <2>1. CASE HandlerReturns(c)
    BY <1>4, <2>1 DEF HandlerReturns, errors, Values
  <2>2. CASE HandlerRaises(c) \/ HandlerBlocks(c)
    BY <1>3, <2>2 DEF HandlerRaises, HandlerBlocks, errors
  <2>3. CASE CoroutineStranded(c)
    BY <1>3, <1>4, <2>3 DEF CoroutineStranded, errors
  <2>4. CASE CoroutineScheduled(c)
    BY <1>2, <1>4, <2>4 DEF CoroutineScheduled
  <2>5. CASE PollDone(c)
    BY <1>3, <1>4, <2>5 DEF PollDone, Except, errors, Values
  <2>6. CASE PollPending(c) \/ SleepAndPoll(c)
    BY <1>2, <2>6 DEF PollPending, SleepAndPoll, errors
  <2>7. CASE PollExpires(c)
    BY <1>3, <2>7 DEF PollExpires, Except, errors
  <2>8. CASE ErrorReraised(c)
    BY <1>3, <1>4, <2>8 DEF ErrorReraised, errors
  <2>9. CASE ErrorHandled(c) \/ ErrorHandlerRaises(c)
    <3>1. /\ pc[c] \in {"failing", "failing_again"}
          /\ reports' = [reports EXCEPT ![c] = Append(reports[c], errHandler)]
          /\ errHandler \in Owners
      BY <2>9 DEF ErrorHandled, ErrorHandlerRaises, Report, TypeOK
    <3>2. Len(reports'[c]) = Len(reports[c]) + 1 /\ \A d \in Calls : d # c => reports'[d] = reports[d]
      BY <1>0, <3>1, ReportLength
    <3>3. CASE ErrorHandled(c)
      <4>1. Return(c, "no") \/ Return(c, "none")
        BY <3>3 DEF ErrorHandled
      <4>2. "report" \notin Disturbances => Len(reports[c]) = 0
        BY <3>1, ReportLength DEF FailureInv
      <4>3. /\ pc'[c] = "done" /\ out'[c] # "raised"
            /\ \A d \in Calls : d # c => /\ pc'[d] = pc[d] /\ out'[d] = out[d]
            /\ UNCHANGED failed
        BY <1>0, <4>1 DEF Return, Goto
      <4>4. Len(reports'[c]) > 0 /\ ("report" \notin Disturbances => Len(reports'[c]) <= 1)
        BY <3>2, <4>2, ReportLength
      <4> QED BY <3>2, <4>3, <4>4 DEF FailureInv
    <3>4. CASE ErrorHandlerRaises(c)
      BY <1>0, <3>1, <3>2, <3>4, ReportLength DEF ErrorHandlerRaises, Return, Fail, Goto, FailureInv
    <3> QED BY <2>9, <3>3, <3>4
  <2> QED BY <1>5, <2>1, <2>2, <2>3, <2>4, <2>5, <2>6, <2>7, <2>8, <2>9 DEF CallStep
<1>6. ASSUME NEW c \in Calls,
             Invoke(c) \/ CancelTask(c) \/ TaskBlocks(c) \/ TaskUnblocks(c)
      PROVE  FailureInv'
  BY <1>1, <1>2, <1>6 DEF Invoke, CancelTask, TaskBlocks, TaskUnblocks, thread, errors
<1>7. ASSUME UNCHANGED <<pc, failed, out>>,
             \A d \in Calls : \/ reports'[d] = reports[d]
                              \/ Runs(d) /\ \E v : reports'[d] = Forward(d, v)
      PROVE  FailureInv'
  <2>1. \A d \in Calls : reports'[d] # reports[d] =>
          /\ pc[d] = "done" /\ ~failed[d] /\ out[d] = "none"
          /\ Len(reports'[d]) <= 1
    <3> SUFFICES ASSUME NEW d \in Calls, reports'[d] # reports[d], NEW v,
                        Runs(d), reports'[d] = Forward(d, v)
                 PROVE  /\ pc[d] = "done" /\ ~failed[d] /\ out[d] = "none"
                        /\ Len(reports'[d]) <= 1
      BY <1>7
    <3>1. Len(<<>>) <= 1
      OBVIOUS
    <3>2. Len(reports'[d]) = 1 \/ reports'[d] = <<>>
      BY ForwardLength
    <3>3. pc[d] = "done" /\ ~failed[d] /\ out[d] = "none"
      BY ForwardLength
    <3>4. CASE Len(reports'[d]) = 1
      BY <3>3, <3>4
    <3> QED BY <3>1, <3>2, <3>3, <3>4
  <2>2. UNCHANGED <<pc, failed, out>>
    BY <1>7
  <2>3. \A d \in Calls : reports'[d] # reports[d] =>
          /\ pc'[d] = "done" /\ ~failed'[d] /\ out'[d] # "raised"
          /\ Len(reports'[d]) <= 1
    BY <2>1, <2>2
  <2> QED BY <2>2, <2>3 DEF FailureInv
<1>8. ASSUME NEW c \in Calls, TaskEnds(c) PROVE FailureInv'
  BY <1>0, <1>7, <1>8 DEF TaskEnds, thread
<1>9. CASE CloseLoop
  BY <1>0, <1>7, <1>9 DEF CloseLoop, thread
<1>10. CASE StartTask \/ CallStop \/ StopReturns \/ Tick \/ UNCHANGED vars
           \/ \E o \in Owners \cup {Nobody} : SetErrorHandler(o)
  BY <1>1, <1>10 DEF StartTask, CallStop, StopReturns, Tick, SetErrorHandler, vars,
     thread, errors
<1> QED BY <1>5, <1>6, <1>8, <1>9, <1>10 DEF Next

-----------------------------------------------------------------------------
\* A captured error handler is told of a failure of its coroutine, once.
LEMMA ForwardStep ==
  ConstantsAssumption /\ TypeOK /\ ServingInv /\ FutureInv /\ OutcomeInv /\ FailureInv /\ ForwardInv
    /\ [Next]_vars => ForwardInv'
<1> SUFFICES ASSUME ConstantsAssumption, TypeOK, ServingInv, FutureInv, OutcomeInv,
                    FailureInv, ForwardInv, [Next]_vars
             PROVE  ForwardInv'
  OBVIOUS
<1>0. /\ reports \in [Calls -> Seq(Owners)] /\ failed \in [Calls -> BOOLEAN]
      /\ caught \in [Calls -> Owners \cup {Nobody}]
      /\ out \in [Calls -> Values \cup {"pending", "none", "coroutine", "raised"}]
      /\ cf \in [Calls -> Values \cup {"none", "pending", "error", "cancelled"}]
      /\ task \in [Calls -> Values \cup {"none", "running", "stopping", "error", "cancelled"}]
      /\ pc \in [Calls -> {"idle", "body", "polling", "checking", "failing",
                           "failing_again", "self_join", "done"}]
  BY DEF TypeOK
<1>1. ASSUME UNCHANGED <<pc, failed, out, async, caught, reports>> PROVE ForwardInv'
  BY <1>1 DEF ForwardInv, async
<1>2. ASSUME NEW c \in Calls, pc[c] # "done", UNCHANGED <<task, caught>>,
             \A d \in Calls : d # c =>
               /\ pc'[d] = pc[d] /\ failed'[d] = failed[d] /\ out'[d] = out[d]
               /\ cf'[d] = cf[d] /\ reports'[d] = reports[d],
             Kind[c] = "forget" /\ cf[c] = "none" => cf'[c] = "none"
      PROVE  ForwardInv'
  BY <1>2 DEF ForwardInv
<1>3. ASSUME NEW c \in Calls, CallStep(c) PROVE ForwardInv'
  <2>0. pc[c] \notin {"idle", "done"}
    BY <1>3 DEF CallStep, HandlerReturns, HandlerRaises, HandlerBlocks,
       CoroutineStranded, CoroutineScheduled, PollDone, PollPending, SleepAndPoll,
       PollExpires, ErrorReraised, ErrorHandled, ErrorHandlerRaises
  <2>1. CASE CoroutineScheduled(c) /\ Kind[c] = "forget"
    <3>1. /\ cf' = [cf EXCEPT ![c] = "pending"] /\ caught' = [caught EXCEPT ![c] = errHandler]
          /\ Return(c, "none") /\ UNCHANGED <<task, reports>>
      BY <2>1 DEF CoroutineScheduled
    <3>2. pc[c] = "body" /\ task[c] = "none" /\ reports[c] = <<>> /\ ~failed[c]
      BY <2>1 DEF CoroutineScheduled, FutureInv, FailureInv
    <3> QED BY <1>0, <2>1, <3>1, <3>2 DEF Return, Goto, ForwardInv
  <2>2. CASE CoroutineScheduled(c) /\ Kind[c] # "forget"
    BY <1>0, <1>2, <2>0, <2>2 DEF CoroutineScheduled, Goto
  <2>3. ASSUME UNCHANGED async, NEW v, Return(c, v), UNCHANGED <<caught, reports>>
        PROVE  ForwardInv'
    BY <1>0, <1>2, <2>0, <2>3 DEF Return, Goto, async
  <2>4. ASSUME UNCHANGED async, NEW w, Fail(c, w), UNCHANGED <<caught, reports>>
        PROVE  ForwardInv'
    BY <1>0, <1>2, <2>0, <2>4 DEF Fail, Goto, async
  <2>5. CASE HandlerReturns(c) \/ HandlerRaises(c) \/ HandlerBlocks(c) \/ CoroutineStranded(c)
    BY <2>3, <2>4, <2>5 DEF HandlerReturns, HandlerRaises, HandlerBlocks,
       CoroutineStranded, errors
  <2>6. CASE PollDone(c) \/ ErrorReraised(c)
    BY <2>3, <2>4, <2>6 DEF PollDone, ErrorReraised, errors
  <2>7. CASE PollPending(c) \/ SleepAndPoll(c)
    BY <1>0, <1>2, <2>0, <2>7 DEF PollPending, SleepAndPoll, Goto, async, errors
  <2>8. CASE PollExpires(c)
    <3>1. cf[c] # "none"
      BY <2>8 DEF PollExpires, FutureInv
    <3> QED BY <1>0, <1>2, <2>0, <2>8, <3>1 DEF PollExpires, Fail, Goto, errors
  <2>9. CASE ErrorHandled(c) \/ ErrorHandlerRaises(c)
    <3>1. Report(c, errHandler) /\ UNCHANGED <<async, caught>>
          /\ \E x : Return(c, x) \/ Fail(c, x)
      BY <2>9 DEF ErrorHandled, ErrorHandlerRaises
    <3>2. \A d \in Calls : d # c => /\ pc'[d] = pc[d] /\ failed'[d] = failed[d]
                                    /\ out'[d] = out[d] /\ reports'[d] = reports[d]
      BY <1>0, <3>1 DEF Return, Fail, Goto, Report
    <3> QED BY <1>2, <2>0, <3>1, <3>2 DEF async
  <2> QED BY <1>3, <2>1, <2>2, <2>5, <2>6, <2>7, <2>8, <2>9 DEF CallStep
<1>4. ASSUME NEW c \in Calls, Invoke(c) PROVE ForwardInv'
  BY <1>0, <1>2, <1>4 DEF Invoke, Goto, async, errors
<1>5. ASSUME NEW c \in Calls, TaskBlocks(c) \/ TaskUnblocks(c) PROVE ForwardInv'
  BY <1>1, <1>5 DEF TaskBlocks, TaskUnblocks, thread, errors
<1>6. ASSUME UNCHANGED <<pc, failed, out, caught>>,
             \A d \in Calls :
               \/ task'[d] = task[d] /\ cf'[d] = cf[d] /\ reports'[d] = reports[d]
               \/ /\ Runs(d) /\ reports'[d] = Forward(d, task'[d])
                  /\ task'[d] \in Values \cup {"error", "cancelled"}
                  /\ cf[d] # "none" => cf'[d] # "none"
      PROVE  ForwardInv'
  <2>1. \A d \in Calls : Runs(d) => cf[d] # "none" /\ task[d] \notin {"error", "cancelled"}
    BY DEF FutureInv, Runs
  <2>2. ASSUME NEW d \in Calls, Runs(d), reports'[d] = Forward(d, task'[d]),
               task'[d] \in Values \cup {"error", "cancelled"}, cf'[d] # "none"
        PROVE  /\ Kind[d] = "forget" /\ cf'[d] # "none" =>
                    /\ pc'[d] = "done" /\ ~failed'[d] /\ out'[d] = "none"
                    /\ task'[d] \in {"none", "running", "stopping"} => cf'[d] = "pending"
               /\ caught'[d] # Nobody =>
                    /\ Kind[d] = "forget" /\ cf'[d] # "none"
                    /\ task'[d] \in {"error", "cancelled"} => Len(reports'[d]) = 1
                    /\ task'[d] \notin {"error", "cancelled"} => reports'[d] = <<>>
    <3>1. task'[d] \notin {"none", "running", "stopping"}
      BY <2>2 DEF Values
    <3>2. /\ Kind[d] = "forget" => pc[d] = "done" /\ ~failed[d] /\ out[d] = "none"
          /\ caught[d] # Nobody => Kind[d] = "forget"
      BY <2>1, <2>2 DEF ForwardInv
    <3>3. /\ caught[d] # Nobody /\ task'[d] \in {"error", "cancelled"} => Len(reports'[d]) = 1
          /\ caught[d] # Nobody /\ task'[d] \notin {"error", "cancelled"} => reports'[d] = <<>>
      BY <2>2, ForwardLength
    <3> QED BY <1>6, <2>2, <3>1, <3>2, <3>3
  <2> QED BY <1>6, <2>1, <2>2 DEF ForwardInv
<1>7. ASSUME NEW c \in Calls, TaskEnds(c) PROVE ForwardInv'
  <2>1. PICK v \in Values \cup {"error", "cancelled"} :
          /\ task' = [task EXCEPT ![c] = v]
          /\ cf' = IF cf[c] = "pending" THEN [cf EXCEPT ![c] = v] ELSE cf
          /\ reports' = [reports EXCEPT ![c] = Forward(c, v)]
    BY <1>7 DEF TaskEnds
  <2>2. task'[c] = v /\ reports'[c] = Forward(c, v) /\ v # "none"
        /\ cf'[c] \in {v, cf[c]} /\ Runs(c)
    BY <1>0, <1>7, <2>1 DEF TaskEnds, Values
  <2>3. \A d \in Calls : d # c => task'[d] = task[d] /\ cf'[d] = cf[d] /\ reports'[d] = reports[d]
    BY <1>0, <2>1
  <2> QED BY <1>6, <1>7, <2>2, <2>3 DEF TaskEnds, thread
<1>8. ASSUME NEW c \in Calls, CancelTask(c) PROVE ForwardInv'
  <2>1. Kind[c] # "forget" /\ caught[c] = Nobody
    BY <1>8 DEF CancelTask, ForwardInv
  <2> QED BY <1>0, <1>8, <2>1 DEF CancelTask, ForwardInv, thread, errors
<1>9. CASE CloseLoop
  <2>1. \A d \in Calls : IF Runs(d)
          THEN /\ task'[d] = "cancelled" /\ reports'[d] = Forward(d, "cancelled")
               /\ cf'[d] \in {cf[d], "cancelled"}
          ELSE task'[d] = task[d] /\ cf'[d] = cf[d] /\ reports'[d] = reports[d]
    BY <1>9 DEF CloseLoop
  <2> QED BY <1>6, <1>9, <2>1 DEF CloseLoop, thread
<1>10. CASE StartTask
  <2>1. ready \in Seq(Calls) /\ ready # <<>>
    BY <1>10 DEF StartTask, TypeOK
  <2>2. Head(ready) = ready[1] /\ 1 \in 1..Len(ready) /\ Head(ready) \in Calls
    BY <2>1
  <2>3. task[Head(ready)] = "none" /\ cf[Head(ready)] # "none"
    BY <2>2 DEF FutureInv
  <2>4. \A d \in Calls : task'[d] # task[d] => d = Head(ready) /\ task'[d] = "running"
    BY <1>0, <1>10, <2>2 DEF StartTask
  <2> QED BY <1>10, <2>3, <2>4 DEF StartTask, ForwardInv, thread, errors
<1>11. CASE CallStop \/ StopReturns \/ Tick \/ UNCHANGED vars
           \/ \E o \in Owners \cup {Nobody} : SetErrorHandler(o)
  BY <1>1, <1>11 DEF CallStop, StopReturns, Tick, SetErrorHandler, vars,
     thread, async, errors
<1> QED BY <1>3, <1>4, <1>5, <1>7, <1>8, <1>9, <1>10, <1>11 DEF Next

-----------------------------------------------------------------------------
\* The inductive invariant: threads, futures, outcomes and errors of all calls,
\* whatever _CallbackDispatcher's wrappers and the loop do, in any order.
THEOREM Invariance == Spec => []IInv
<1>1. Init => IInv
  <2> SUFFICES ASSUME Init PROVE IInv
    OBVIOUS
  <2>1. TypeOK
    <3>1. <<>> \in Seq(Calls) /\ <<>> \in Seq(Owners)
      OBVIOUS
    <3> QED BY <3>1, ConstantsAssumption DEF Init, TypeOK
  <2>2. ServingInv
    BY ConstantsAssumption DEF Init, ServingInv, OnThread, T
  <2>3. 1..Len(ready) = {} /\ \A c \in Calls : Len(reports[c]) = 0
    BY DEF Init
  <2>4. FutureInv /\ OutcomeInv
    BY <2>3 DEF Init, FutureInv, OutcomeInv, Values
  <2>5. FailureInv /\ ForwardInv
    BY <2>3 DEF Init, FailureInv, ForwardInv
  <2> QED BY <2>1, <2>2, <2>4, <2>5 DEF IInv
<1>2. IInv /\ [Next]_vars => IInv'
  BY ConstantsAssumption, TypeStep, ServingStep, FutureStep, OutcomeStep, FailureStep,
     ForwardStep DEF IInv
<1> QED BY <1>1, <1>2, PTL DEF Spec

\* Type correctness of the dispatcher.
THEOREM TypeCorrect == Spec => []TypeOK
<1>1. IInv => TypeOK
  BY DEF IInv
<1> QED BY <1>1, Invariance, PTL

\* stop, disconnect and sync_request never make an I/O thread wait for itself,
\* and the callback flag is up exactly while a thread is in a callback.
THEOREM ThreadsDoNotJoinThemselves == Spec => []NoSelfJoin
<1>1. IInv => NoSelfJoin
  BY DEF IInv, ServingInv, NoSelfJoin
<1> QED BY <1>1, Invariance, PTL

\* A coroutine's yes that reaches the core is the one it ended with.
THEOREM YesComesFromTheHandler == Spec => []YesIsTheHandlers
<1>1. IInv => YesIsTheHandlers
  BY DEF IInv, FutureInv, OutcomeInv, YesIsTheHandlers, Values
<1> QED BY <1>1, Invariance, PTL

\* An exception that a wrapper catches is reported to the error handler of that
\* moment or raised to the core, and to one of them only; an error handler captured
\* with a fire-and-forget coroutine is told of its failure once.
THEOREM CaughtErrorsAreAccounted == Spec => []ErrorAccounted
<1>1. IInv => ErrorAccounted
  <2> SUFFICES ASSUME IInv, NEW c \in Calls,
                      task[c] \in {"error", "cancelled"} /\ caught[c] # Nobody
               PROVE  Len(reports[c]) = 1
    BY DEF IInv, FailureInv, ErrorAccounted
  <2> QED BY DEF IInv, ForwardInv
<1> QED BY <1>1, Invariance, PTL
=============================================================================
