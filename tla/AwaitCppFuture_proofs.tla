------------------------ MODULE AwaitCppFuture_proofs ------------------------
(***************************************************************************)
(* Proofs about AwaitCppFuture for any number of calls, futures, workers   *)
(* and ticks.                                                              *)
(***************************************************************************)
EXTENDS AwaitCppFuture, FiniteSetTheorems, TLAPS

\* Starting a call, with the definitions that its two actions share.
LEMMA SubmitType ==
  ASSUME TypeOK, NEW a \in Awaits, StartAwait(a)
  PROVE  /\ pc' \in [Awaits -> {"idle", "queued", "finished"} \cup Working]
         /\ queue' \in Seq(Awaits) /\ oneOff' \in SUBSET Awaits
         /\ startAt' \in [Awaits -> Nat]
         /\ fut' \in [Awaits -> {"none", "pending", "cancelled"} \cup Outcome]
<1>1. /\ startAt' \in [Awaits -> Nat]
      /\ fut' \in [Awaits -> {"none", "pending", "cancelled"} \cup Outcome]
  BY DEF TypeOK, StartAwait
<1>2. CASE exiting
  BY <1>1, <1>2 DEF TypeOK, StartAwait, Submit, Working
<1>3. CASE ~exiting
  <2>1. queue' = Append(queue, a) /\ queue \in Seq(Awaits)
    BY <1>3 DEF TypeOK, StartAwait, Submit
  <2>2. queue' \in Seq(Awaits)
    BY <2>1
  <2> QED BY <1>1, <1>3, <2>2 DEF TypeOK, StartAwait, Submit
<1> QED BY <1>2, <1>3

\* A fetch that moves on, and one that has its outcome, keep their types.
LEMMA GotoType ==
  ASSUME TypeOK, NEW a \in Awaits, NEW w \in Working \cup {"finished"}, Goto(a, w)
  PROVE  /\ pc' \in [Awaits -> {"idle", "queued", "finished"} \cup Working]
         /\ wake' \in [Awaits -> Nat]
         /\ got' \in [Awaits -> {"none"} \cup Outcome]
BY DEF TypeOK, Goto

LEMMA ConcludeType ==
  ASSUME TypeOK, NEW a \in Awaits, NEW o \in Outcome, Conclude(a, o)
  PROVE  /\ pc' \in [Awaits -> {"idle", "queued", "finished"} \cup Working]
         /\ wake' \in [Awaits -> Nat]
         /\ got' \in [Awaits -> {"none"} \cup Outcome]
<1>1. "posting" \in Working
  BY DEF Working
<1> QED BY <1>1 DEF TypeOK, Conclude

\* Every step keeps the types; get() needs the core to have settled the future.
LEMMA TypeStep == ConstantsAssumption /\ TypeOK /\ SettledBeforeGet /\ [Next]_vars => TypeOK'
<1> SUFFICES ASSUME ConstantsAssumption, TypeOK, SettledBeforeGet, [Next]_vars
             PROVE  TypeOK'
  OBVIOUS
<1> USE DEF F
<1>1. ASSUME NEW a \in Awaits, AsyncRequest(a) PROVE TypeOK'
  <2>1. FutureOf[a] \in Futures /\ CoreLimit(a) \in Nat
    BY DEF ConstantsAssumption, CoreLimit, Guarded
  <2>2. cpp' \in [Futures -> {"idle", "inflight"} \cup Settled] /\ due' \in [Futures -> Nat]
    BY <1>1, <2>1 DEF AsyncRequest, TypeOK
  <2> QED BY <1>1, <2>2, SubmitType DEF AsyncRequest, StartAwait, TypeOK, mode, registry
<1>2. ASSUME NEW a \in Awaits, AsyncRequestFails(a) PROVE TypeOK'
  BY <1>2 DEF AsyncRequestFails, TypeOK, mode, core, registry, fetch, pool
<1>3. ASSUME NEW a \in Awaits, AwaitAgain(a) PROVE TypeOK'
  BY <1>3, SubmitType DEF AwaitAgain, StartAwait, TypeOK, mode, registry
<1>4. ASSUME NEW a \in Awaits, Publish(a) PROVE TypeOK'
  <2>1. CASE fut[a] = "cancelled"
    BY <1>4, <2>1 DEF Publish, TypeOK, mode, core, registry, fetch, pool
  <2>2. CASE fut[a] # "cancelled"
    BY <1>4, <2>2 DEF Publish, TypeOK, mode, core, registry, fetch, pool
  <2> QED BY <2>1, <2>2
<1>5. ASSUME NEW a \in Awaits, Resume(a) PROVE TypeOK'
  BY <1>5 DEF Resume, TypeOK, mode, core, registry, fetch, pool
<1>6. ASSUME NEW a \in Awaits, GuardExpires(a) \/ CancelCaller(a) PROVE TypeOK'
  <2>1. PICK r \in {"timeout", "cancelled"} : Abandon(a, r)
    BY <1>6 DEF GuardExpires, CancelCaller
  <2>2. UNCHANGED <<now, mode, core, registry, startAt, fetch, pool, posted>>
    BY <2>1 DEF Abandon
  <2>3. fut' = fut \/ fut' = [fut EXCEPT ![a] = "cancelled"]
    BY <2>1 DEF Abandon
  <2>4. ret' = [ret EXCEPT ![a] = r] /\ r \in Outcome \cup {"cancelled"}
    BY <2>1 DEF Abandon, Outcome, Settled
  <2> QED BY <1>6, <2>2, <2>3, <2>4 DEF TypeOK, mode, core, registry, fetch, pool
<1>7. ASSUME NEW a \in Awaits, FetchStep(a) PROVE TypeOK'
  <2> USE DEF FetchFrame, TypeOK, mode, core, pool, caller, registry
  <2>1. FutureOf[a] \in Futures
    BY DEF ConstantsAssumption
  <2>2. CASE PollReady(a) \/ PollNotReady(a)
    <3>1. "consuming" \in Working /\ "checking" \in Working
      BY DEF Working
    <3> QED BY <2>2, <3>1, GotoType DEF PollReady, PollNotReady
  <2>3. CASE PollConsumed(a) \/ DeadlinePassed(a) \/ RegisterTwice(a)
    <3>1. {"nostate", "timeout", "logic"} \subseteq Outcome
      BY DEF Outcome, Misuse, Settled
    <3> QED BY <2>3, <3>1, ConcludeType DEF PollConsumed, DeadlinePassed, RegisterTwice
  <2>4. CASE Sleep(a)
    <3>1. SleepUntil(a) \in Nat
      BY DEF SleepUntil, Earlier, Deadline, ConstantsAssumption
    <3> QED BY <2>4, <3>1 DEF Sleep, Working
  <2>5. CASE Register(a)
    <3>1. "getting" \in Working
      BY DEF Working
    <3> QED BY <2>1, <2>5, <3>1, GotoType DEF Register
  <2>6. CASE Get(a)
    <3> DEFINE o == IF gets[FutureOf[a]] = 0 THEN cpp[FutureOf[a]] ELSE "nostate"
    <3>1. CASE o \in Outcome
      <4>1. gets' \in [Futures -> Nat]
        BY <2>1, <2>6 DEF Get
      <4>2. Conclude(a, o)
        BY <2>6 DEF Get
      <4>3. /\ pc' \in [Awaits -> {"idle", "queued", "finished"} \cup Working]
            /\ wake' \in [Awaits -> Nat]
            /\ got' \in [Awaits -> {"none"} \cup Outcome]
        BY <3>1, <4>2, ConcludeType
      <4> QED BY <2>6, <4>1, <4>3 DEF Get
    <3>2. o \in Outcome
      BY <2>1, <2>6 DEF Get, Outcome, Misuse, Settled, SettledBeforeGet, F
    <3> QED BY <3>1, <3>2
  <2>7. CASE Post(a)
    <3>1. posted' \in SUBSET Awaits
      BY <2>7 DEF Post
    <3> QED BY <2>7, <3>1, GotoType DEF Post
  <2> QED BY <1>7, <2>2, <2>3, <2>4, <2>5, <2>6, <2>7 DEF FetchStep
<1>8. CASE StartFetch
  <2>1. queue \in Seq(Awaits) /\ queue # <<>> /\ queue' = Tail(queue)
    BY <1>8 DEF StartFetch, TypeOK
  <2>2. queue' \in Seq(Awaits) /\ Head(queue) \in Awaits
    BY <2>1
  <2>3. pc' \in [Awaits -> {"idle", "queued", "finished"} \cup Working]
    BY <1>8, <2>2 DEF StartFetch, TypeOK, Working
  <2> QED BY <1>8, <2>2, <2>3 DEF StartFetch, TypeOK, mode, core, registry, caller
<1>9. ASSUME NEW f \in Futures, CppAnswer(f) \/ CppExpire(f) PROVE TypeOK'
  <2>1. "answer" \in Settled /\ "timeout" \in Settled
    BY DEF Settled
  <2>2. PICK o \in Settled : SettleCpp(f, o)
    BY <1>9, <2>1 DEF CppAnswer, CppExpire
  <2> QED BY <2>2 DEF SettleCpp, TypeOK, mode, registry, fetch, pool, caller
<1>10. CASE Tick
  BY <1>10 DEF Tick, TypeOK, mode, core, registry, fetch, pool, caller
<1>11. CASE CloseLoop \/ BeginExit
  BY <1>11 DEF CloseLoop, BeginExit, TypeOK, core, registry, fetch, pool, caller
<1>12. CASE UNCHANGED vars
  BY <1>12 DEF vars, TypeOK, mode, core, registry, fetch, pool, caller
<1> QED BY <1>1, <1>2, <1>3, <1>4, <1>5, <1>6, <1>7, <1>8, <1>9, <1>10, <1>11,
           <1>12 DEF Next


\* Only StartFetch and the calls touch the queue, and no fetch is queued again.
LEMMA QueueStep ==
  ConstantsAssumption /\ TypeOK /\ QueuedOnce /\ [Next]_vars => QueuedOnce'
<1> SUFFICES ASSUME ConstantsAssumption, TypeOK, QueuedOnce, [Next]_vars
             PROVE  QueuedOnce'
  OBVIOUS
<1>0. queue \in Seq(Awaits) /\ pc \in [Awaits -> {"idle", "queued", "finished"} \cup Working]
  BY DEF TypeOK
<1>1. ASSUME NEW a \in Awaits, pc[a] # "queued", UNCHANGED queue,
             NEW w, pc' = [pc EXCEPT ![a] = w]
      PROVE  QueuedOnce'
  BY <1>0, <1>1 DEF QueuedOnce
<1>2. ASSUME UNCHANGED <<pc, queue>> PROVE QueuedOnce'
  BY <1>2 DEF QueuedOnce
<1>3. ASSUME NEW a \in Awaits, StartAwait(a), pc[a] = "idle" PROVE QueuedOnce'
  <2>1. CASE exiting
    BY <1>1, <1>3, <2>1 DEF StartAwait, Submit
  <2>2. CASE ~exiting
    <3>1. queue' = Append(queue, a) /\ pc' = [pc EXCEPT ![a] = "queued"]
      BY <1>3, <2>2 DEF StartAwait, Submit
    <3>2. \A i \in 1..Len(queue) : queue[i] # a
      BY <1>3 DEF QueuedOnce
    <3>3. /\ Len(queue') = Len(queue) + 1 /\ queue'[Len(queue) + 1] = a
          /\ \A i \in 1..Len(queue) : queue'[i] = queue[i] /\ queue[i] \in Awaits
      BY <1>0, <3>1
    <3> QED BY <1>0, <3>1, <3>2, <3>3 DEF QueuedOnce
  <2> QED BY <2>1, <2>2
<1>4. CASE StartFetch
  <2>1. queue' = Tail(queue) /\ pc' = [pc EXCEPT ![Head(queue)] = "polling"] /\ queue # <<>>
    BY <1>4 DEF StartFetch
  <2>2. /\ Len(queue') = Len(queue) - 1 /\ Head(queue) = queue[1]
        /\ Len(queue) \in Nat \ {0}
        /\ \A i \in 1..Len(queue') : queue'[i] = queue[i + 1] /\ queue[i + 1] \in Awaits
    BY <1>0, <2>1
  <2> QED BY <1>0, <2>1, <2>2 DEF QueuedOnce
<1>5. ASSUME NEW a \in Awaits, FetchStep(a) PROVE QueuedOnce'
  <2>1. pc[a] # "queued" /\ UNCHANGED queue /\ \E w : pc' = [pc EXCEPT ![a] = w]
    BY <1>5 DEF FetchStep, FetchFrame, pool, Awake, Goto, Conclude, PollReady,
                PollNotReady, PollConsumed, DeadlinePassed, Sleep, Register,
                RegisterTwice, Get, Post
  <2> QED BY <1>1, <2>1
<1>6. ASSUME NEW a \in Awaits, AsyncRequest(a) \/ AwaitAgain(a) PROVE QueuedOnce'
  BY <1>3, <1>6 DEF AsyncRequest, AwaitAgain, MayStart
<1>7. ASSUME NEW a \in Awaits,
             \/ AsyncRequestFails(a) \/ Publish(a) \/ Resume(a)
             \/ GuardExpires(a) \/ CancelCaller(a)
      PROVE QueuedOnce'
  BY <1>2, <1>7 DEF AsyncRequestFails, Publish, Resume, GuardExpires, CancelCaller,
                    Abandon, fetch, pool
<1>8. ASSUME NEW f \in Futures, CppAnswer(f) \/ CppExpire(f) PROVE QueuedOnce'
  BY <1>2, <1>8 DEF CppAnswer, CppExpire, SettleCpp, fetch, pool
<1>9. CASE Tick \/ CloseLoop \/ BeginExit \/ UNCHANGED vars
  BY <1>2, <1>9 DEF Tick, CloseLoop, BeginExit, vars, fetch, pool
<1> QED BY <1>4, <1>5, <1>6, <1>7, <1>8, <1>9 DEF Next

\* The registry and get(): a fetch registers a future nobody has registered,
\* and the registrant alone calls get(), once.
LEMMA RegistryStep ==
  /\ ConstantsAssumption /\ TypeOK /\ QueuedOnce /\ SettledBeforeGet /\ RegistrantGets
  /\ [Next]_vars
  => (SettledBeforeGet /\ RegistrantGets)'
<1> SUFFICES ASSUME ConstantsAssumption, TypeOK, QueuedOnce, SettledBeforeGet,
                    RegistrantGets, [Next]_vars
             PROVE  (SettledBeforeGet /\ RegistrantGets)'
  OBVIOUS
<1> USE DEF F
<1>0. /\ pc \in [Awaits -> {"idle", "queued", "finished"} \cup Working]
      /\ cpp \in [Futures -> {"idle", "inflight"} \cup Settled]
      /\ registrant \in [Futures -> Awaits \cup {NoOne}] /\ gets \in [Futures -> Nat]
      /\ \A a \in Awaits : FutureOf[a] \in Futures
      /\ NoOne \notin Awaits
  BY DEF TypeOK, ConstantsAssumption
<1>1. ASSUME UNCHANGED <<pc, registrant, gets>>,
             \A f \in Futures : cpp[f] \in Settled => cpp'[f] = cpp[f]
      PROVE  (SettledBeforeGet /\ RegistrantGets)'
  BY <1>0, <1>1 DEF SettledBeforeGet, RegistrantGets
\* A fetch that neither enters nor leaves get() changes nothing here.
<1>2. ASSUME NEW a \in Awaits, pc[a] \notin {"getting", "posting", "finished"},
             NEW w, w # "getting", w = "consuming" => cpp[FutureOf[a]] \in Settled,
             pc' = [pc EXCEPT ![a] = w], UNCHANGED <<registrant, gets>>,
             \A f \in Futures : cpp[f] \in Settled => cpp'[f] = cpp[f]
      PROVE  (SettledBeforeGet /\ RegistrantGets)'
  <2>1. SettledBeforeGet'
    BY <1>0, <1>2 DEF SettledBeforeGet
  <2>2. RegistrantGets'
    BY <1>0, <1>2 DEF RegistrantGets
  <2> QED BY <2>1, <2>2
<1>3. ASSUME NEW a \in Awaits, AsyncRequest(a) \/ AwaitAgain(a)
      PROVE  (SettledBeforeGet /\ RegistrantGets)'
  <2>1. \A f \in Futures : cpp[f] \in Settled => cpp'[f] = cpp[f]
    BY <1>0, <1>3 DEF AsyncRequest, AwaitAgain, Settled
  <2>2. \E w \in {"polling", "queued"} : pc' = [pc EXCEPT ![a] = w]
    BY <1>3 DEF AsyncRequest, AwaitAgain, StartAwait, Submit
  <2>3. pc[a] = "idle" /\ UNCHANGED <<registrant, gets>>
    BY <1>3 DEF AsyncRequest, AwaitAgain, StartAwait, MayStart, registry
  <2> QED BY <1>2, <2>1, <2>2, <2>3
<1>4. CASE StartFetch
  <2>1. queue \in Seq(Awaits) /\ queue # <<>>
    BY <1>4 DEF StartFetch, TypeOK
  <2>2. Head(queue) \in Awaits /\ pc[Head(queue)] = "queued"
    BY <2>1 DEF QueuedOnce
  <2> QED BY <1>2, <1>4, <2>2 DEF StartFetch, core, registry
<1>5. ASSUME NEW a \in Awaits,
             \/ AsyncRequestFails(a) \/ Publish(a) \/ Resume(a)
             \/ GuardExpires(a) \/ CancelCaller(a)
      PROVE  (SettledBeforeGet /\ RegistrantGets)'
  BY <1>1, <1>5 DEF AsyncRequestFails, Publish, Resume, GuardExpires, CancelCaller,
                    Abandon, fetch, core, registry
<1>6. ASSUME NEW f \in Futures, CppAnswer(f) \/ CppExpire(f)
      PROVE  (SettledBeforeGet /\ RegistrantGets)'
  <2>1. cpp[f] = "inflight" /\ (\E o : cpp' = [cpp EXCEPT ![f] = o])
    BY <1>6 DEF CppAnswer, CppExpire, SettleCpp
  <2>2. \A g \in Futures : cpp[g] \in Settled => cpp'[g] = cpp[g]
    BY <1>0, <2>1 DEF Settled
  <2> QED BY <1>1, <1>6, <2>2 DEF CppAnswer, CppExpire, SettleCpp, fetch, registry
<1>7. CASE Tick \/ CloseLoop \/ BeginExit \/ UNCHANGED vars
  BY <1>1, <1>7 DEF Tick, CloseLoop, BeginExit, vars, fetch, core, registry
<1>8. ASSUME NEW a \in Awaits,
             \/ PollReady(a) \/ PollNotReady(a) \/ PollConsumed(a)
             \/ DeadlinePassed(a) \/ Sleep(a) \/ RegisterTwice(a)
      PROVE  (SettledBeforeGet /\ RegistrantGets)'
  <2>1. /\ pc[a] \notin {"getting", "posting", "finished"}
        /\ UNCHANGED <<registrant, gets, cpp>>
    BY <1>8 DEF PollReady, PollNotReady, PollConsumed, DeadlinePassed, Sleep,
                RegisterTwice, FetchFrame, Awake, core, registry
  <2>2. CASE PollReady(a)
    BY <1>2, <2>1, <2>2 DEF PollReady, Goto
  <2>3. CASE pc' = [pc EXCEPT ![a] = "checking"] \/ pc' = [pc EXCEPT ![a] = "posting"]
             \/ pc' = [pc EXCEPT ![a] = "sleeping"]
    BY <1>2, <2>1, <2>3
  <2> QED BY <1>8, <2>2, <2>3 DEF PollNotReady, PollConsumed, DeadlinePassed, Sleep,
                                  RegisterTwice, Goto, Conclude
<1>9. ASSUME NEW a \in Awaits, Register(a) PROVE (SettledBeforeGet /\ RegistrantGets)'
  <2>1. /\ pc[a] = "consuming" /\ registrant[FutureOf[a]] = NoOne
        /\ registrant' = [registrant EXCEPT ![FutureOf[a]] = a]
        /\ pc' = [pc EXCEPT ![a] = "getting"] /\ UNCHANGED <<gets, cpp>>
    BY <1>9 DEF Register, Goto, FetchFrame, core
  <2>2. cpp[FutureOf[a]] \in Settled /\ gets[FutureOf[a]] = 0
    BY <1>0, <2>1 DEF SettledBeforeGet, RegistrantGets
  <2>3. SettledBeforeGet'
    BY <1>0, <2>1, <2>2 DEF SettledBeforeGet
  <2>4. \A f \in Futures : registrant[f] # a
    BY <1>0, <2>1 DEF RegistrantGets
  <2>5. RegistrantGets'
    BY <1>0, <2>1, <2>2, <2>4 DEF RegistrantGets
  <2> QED BY <2>3, <2>5
<1>10. ASSUME NEW a \in Awaits, Get(a) PROVE (SettledBeforeGet /\ RegistrantGets)'
  <2>1. /\ pc[a] = "getting" /\ gets' = [gets EXCEPT ![FutureOf[a]] = @ + 1]
        /\ pc' = [pc EXCEPT ![a] = "posting"] /\ UNCHANGED <<registrant, cpp>>
    BY <1>10 DEF Get, Conclude, FetchFrame, core
  <2>2. registrant[FutureOf[a]] = a /\ gets[FutureOf[a]] = 0
    BY <1>0, <2>1 DEF RegistrantGets
  <2>3. SettledBeforeGet'
    BY <1>0, <2>1 DEF SettledBeforeGet
  <2>4. RegistrantGets'
    BY <1>0, <2>1, <2>2 DEF RegistrantGets
  <2> QED BY <2>3, <2>4
<1>11. ASSUME NEW a \in Awaits, Post(a) PROVE (SettledBeforeGet /\ RegistrantGets)'
  <2>1. /\ pc[a] = "posting" /\ pc' = [pc EXCEPT ![a] = "finished"]
        /\ UNCHANGED <<registrant, gets, cpp>>
    BY <1>11 DEF Post, Goto, FetchFrame, core, registry
  <2> QED BY <1>0, <2>1 DEF SettledBeforeGet, RegistrantGets
<1> QED BY <1>3, <1>4, <1>5, <1>6, <1>7, <1>8, <1>9, <1>10, <1>11 DEF Next, FetchStep

\* A fetch concludes with an outcome its caller may be given, and what a caller
\* may be given stays allowed: a registrant and a settled future never change.
LEMMA OutcomeStep ==
  /\ ConstantsAssumption /\ TypeOK /\ QueuedOnce /\ SettledBeforeGet /\ RegistrantGets
  /\ OutcomeAllowed /\ [Next]_vars
  => OutcomeAllowed'
<1> SUFFICES ASSUME ConstantsAssumption, TypeOK, QueuedOnce, SettledBeforeGet,
                    RegistrantGets, OutcomeAllowed, [Next]_vars
             PROVE  OutcomeAllowed'
  OBVIOUS
<1> USE DEF F
<1>0. /\ pc \in [Awaits -> {"idle", "queued", "finished"} \cup Working]
      /\ got \in [Awaits -> {"none"} \cup Outcome]
      /\ cpp \in [Futures -> {"idle", "inflight"} \cup Settled]
      /\ registrant \in [Futures -> Awaits \cup {NoOne}]
      /\ \A a \in Awaits : FutureOf[a] \in Futures
      /\ NoOne \notin Awaits /\ "none" \notin Outcome
  BY DEF TypeOK, ConstantsAssumption, Outcome, Settled, Misuse
<1> DEFINE Stable == \A f \in Futures : /\ cpp[f] \in Settled => cpp'[f] = cpp[f]
                                        /\ registrant[f] # NoOne => registrant'[f] = registrant[f]
<1>1. ASSUME Stable, NEW a \in Awaits, NEW r, MayGive(a, r) PROVE MayGive(a, r)'
  BY <1>0, <1>1 DEF MayGive, RegistrantGets, Guarded
<1>2. ASSUME Stable, UNCHANGED <<pc, got>> PROVE OutcomeAllowed'
  BY <1>1, <1>2 DEF OutcomeAllowed
<1>3. ASSUME Stable, NEW a \in Awaits, pc[a] \notin {"posting", "finished"}, UNCHANGED got,
             NEW w, w \notin {"posting", "finished"}, pc' = [pc EXCEPT ![a] = w]
      PROVE  OutcomeAllowed'
  BY <1>0, <1>1, <1>3 DEF OutcomeAllowed
<1>4. ASSUME Stable, NEW a \in Awaits, NEW o \in Outcome, Conclude(a, o), MayGive(a, o)'
      PROVE  OutcomeAllowed'
  BY <1>0, <1>1, <1>4 DEF OutcomeAllowed, Conclude
<1>5. ASSUME NEW a \in Awaits, AsyncRequest(a) \/ AwaitAgain(a) PROVE OutcomeAllowed'
  <2>1. Stable
    BY <1>0, <1>5 DEF AsyncRequest, AwaitAgain, StartAwait, registry, Settled
  <2>2. pc[a] = "idle" /\ UNCHANGED got
    BY <1>5 DEF AsyncRequest, AwaitAgain, StartAwait, MayStart
  <2>3. pc' = [pc EXCEPT ![a] = "polling"] \/ pc' = [pc EXCEPT ![a] = "queued"]
    BY <1>5 DEF AsyncRequest, AwaitAgain, StartAwait, Submit
  <2> QED BY <1>3, <2>1, <2>2, <2>3
<1>6. CASE StartFetch
  <2>1. queue \in Seq(Awaits) /\ queue # <<>>
    BY <1>6 DEF StartFetch, TypeOK
  <2>2. PICK h \in Awaits : h = Head(queue) /\ pc[h] = "queued"
    BY <2>1 DEF QueuedOnce
  <2>3. Stable /\ UNCHANGED got
    BY <1>6 DEF StartFetch, core, registry
  <2>4. pc' = [pc EXCEPT ![h] = "polling"]
    BY <1>6, <2>2 DEF StartFetch
  <2> HIDE DEF Stable
  <2> QED BY <1>3, <2>2, <2>3, <2>4
<1>7. ASSUME NEW a \in Awaits,
             \/ AsyncRequestFails(a) \/ Publish(a) \/ Resume(a)
             \/ GuardExpires(a) \/ CancelCaller(a)
      PROVE OutcomeAllowed'
  BY <1>2, <1>7 DEF AsyncRequestFails, Publish, Resume, GuardExpires, CancelCaller,
                    Abandon, fetch, core, registry
<1>8. ASSUME NEW f \in Futures, CppAnswer(f) \/ CppExpire(f) PROVE OutcomeAllowed'
  <2>1. cpp[f] = "inflight" /\ (\E o : cpp' = [cpp EXCEPT ![f] = o])
    BY <1>8 DEF CppAnswer, CppExpire, SettleCpp
  <2>2. Stable
    BY <1>0, <1>8, <2>1 DEF CppAnswer, CppExpire, SettleCpp, registry, Settled
  <2> QED BY <1>2, <1>8, <2>2 DEF CppAnswer, CppExpire, SettleCpp, fetch
<1>9. CASE Tick \/ CloseLoop \/ BeginExit \/ UNCHANGED vars
  BY <1>2, <1>9 DEF Tick, CloseLoop, BeginExit, vars, fetch, core, registry
<1>10. ASSUME NEW a \in Awaits, PollReady(a) \/ PollNotReady(a) \/ Sleep(a)
       PROVE  OutcomeAllowed'
  <2>1. Stable /\ UNCHANGED got /\ pc[a] \notin {"posting", "finished"}
    BY <1>10 DEF PollReady, PollNotReady, Sleep, FetchFrame, Goto, Awake, core, registry
  <2>2. \/ pc' = [pc EXCEPT ![a] = "consuming"] \/ pc' = [pc EXCEPT ![a] = "checking"]
        \/ pc' = [pc EXCEPT ![a] = "sleeping"]
    BY <1>10 DEF PollReady, PollNotReady, Sleep, Goto
  <2> QED BY <1>3, <2>1, <2>2
<1>11. ASSUME NEW a \in Awaits, PollConsumed(a) \/ RegisterTwice(a) PROVE OutcomeAllowed'
  <2>1. Stable /\ UNCHANGED <<registrant, cpp>>
    BY <1>11 DEF PollConsumed, RegisterTwice, FetchFrame, core, registry
  <2>2. registrant[FutureOf[a]] # NoOne
    BY <1>0, <1>11 DEF PollConsumed, RegisterTwice, RegistrantGets
  <2>3. registrant[FutureOf[a]] # a
    BY <1>0, <1>11, <2>2 DEF PollConsumed, RegisterTwice, RegistrantGets, Awake
  <2>4. PICK o \in Misuse : Conclude(a, o)
    BY <1>11 DEF PollConsumed, RegisterTwice, Misuse
  <2>5. MayGive(a, o)' /\ o \in Outcome
    BY <2>1, <2>2, <2>3 DEF MayGive, Outcome
  <2> QED BY <1>4, <2>1, <2>4, <2>5
<1>12. ASSUME NEW a \in Awaits, DeadlinePassed(a) PROVE OutcomeAllowed'
  <2>1. Stable /\ MayGive(a, "timeout")' /\ "timeout" \in Outcome /\ Conclude(a, "timeout")
    BY <1>12 DEF DeadlinePassed, FetchFrame, core, registry, MayGive, Guarded, Outcome, Settled
  <2> QED BY <1>4, <2>1
<1>13. ASSUME NEW a \in Awaits, Register(a) PROVE OutcomeAllowed'
  <2>1. /\ pc[a] = "consuming" /\ pc' = [pc EXCEPT ![a] = "getting"] /\ UNCHANGED got
    BY <1>13 DEF Register, Goto
  <2>2. Stable
    BY <1>0, <1>13 DEF Register, FetchFrame, core
  <2> QED BY <1>3, <2>1, <2>2
<1>14. ASSUME NEW a \in Awaits, Get(a) PROVE OutcomeAllowed'
  <2>1. registrant[FutureOf[a]] = a /\ gets[FutureOf[a]] = 0 /\ cpp[FutureOf[a]] \in Settled
    BY <1>0, <1>14 DEF Get, RegistrantGets
  <2>2. Stable /\ UNCHANGED <<registrant, cpp>> /\ Conclude(a, cpp[FutureOf[a]])
    BY <1>14, <2>1 DEF Get, FetchFrame, core
  <2>3. MayGive(a, cpp[FutureOf[a]])' /\ cpp[FutureOf[a]] \in Outcome
    BY <2>1, <2>2 DEF MayGive, Outcome
  <2> QED BY <1>4, <2>2, <2>3
<1>15. ASSUME NEW a \in Awaits, Post(a) PROVE OutcomeAllowed'
  <2>1. /\ pc[a] = "posting" /\ pc' = [pc EXCEPT ![a] = "finished"] /\ UNCHANGED got /\ Stable
    BY <1>15 DEF Post, Goto, FetchFrame, core, registry
  <2> QED BY <1>0, <1>1, <2>1 DEF OutcomeAllowed
<1> QED BY <1>5, <1>6, <1>7, <1>8, <1>9, <1>10, <1>11, <1>12, <1>13, <1>14, <1>15
        DEF Next, FetchStep

\* The caller's side follows the fetch: what is posted is over, what resolves
\* result_future is what the fetch got, and a cancelled one has left.
LEMMA CallerStep ==
  /\ TypeOK /\ QueuedOnce /\ OutcomeAllowed /\ CallerFollows /\ NoLostWakeup /\ [Next]_vars
  => (CallerFollows /\ NoLostWakeup)'
<1> SUFFICES ASSUME TypeOK, QueuedOnce, OutcomeAllowed, CallerFollows, NoLostWakeup,
                    [Next]_vars
             PROVE  (CallerFollows /\ NoLostWakeup)'
  OBVIOUS
<1>0. /\ pc \in [Awaits -> {"idle", "queued", "finished"} \cup Working]
      /\ got \in [Awaits -> {"none"} \cup Outcome]
      /\ fut \in [Awaits -> {"none", "pending", "cancelled"} \cup Outcome]
      /\ ret \in [Awaits -> {"none", "cancelled", "refused"} \cup Outcome]
      /\ {"none", "pending", "cancelled", "refused"} \cap Outcome = {}
  BY DEF TypeOK, Outcome, Settled, Misuse
<1>1. ASSUME UNCHANGED <<fut, ret, posted, pc, got>>, loopOpen' => loopOpen
      PROVE  (CallerFollows /\ NoLostWakeup)'
  BY <1>1 DEF CallerFollows, NoLostWakeup
\* A fetch that moves on without finishing.
<1>2. ASSUME NEW a \in Awaits, pc[a] \notin {"idle", "finished"},
             NEW w, w \notin {"idle", "finished"}, pc' = [pc EXCEPT ![a] = w],
             UNCHANGED <<fut, ret, posted, loopOpen>>,
             \A b \in Awaits : got'[b] # got[b] => b = a /\ got[a] = "none"
      PROVE  (CallerFollows /\ NoLostWakeup)'
  <2>1. got[a] = "none" => fut[a] \notin Outcome
    BY <1>0 DEF CallerFollows
  <2>2. \A b \in Awaits : fut[b] \in Outcome => got'[b] = got[b]
    BY <1>2, <2>1
  <2>3. CallerFollows'
    BY <1>0, <1>2, <2>2 DEF CallerFollows
  <2>4. NoLostWakeup'
    BY <1>0, <1>2, <2>2 DEF NoLostWakeup
  <2> QED BY <2>3, <2>4
<1>3. ASSUME NEW a \in Awaits, AsyncRequest(a) \/ AwaitAgain(a)
      PROVE  (CallerFollows /\ NoLostWakeup)'
  <2>1. /\ pc[a] = "idle" /\ ret[a] = "none" /\ fut' = [fut EXCEPT ![a] = "pending"]
        /\ UNCHANGED <<ret, posted, got, loopOpen>>
    BY <1>3 DEF AsyncRequest, AwaitAgain, StartAwait, MayStart, mode
  <2>2. pc' = [pc EXCEPT ![a] = "polling"] \/ pc' = [pc EXCEPT ![a] = "queued"]
    BY <1>3 DEF AsyncRequest, AwaitAgain, StartAwait, Submit
  <2>3. CallerFollows'
    BY <1>0, <2>1, <2>2 DEF CallerFollows
  <2>4. NoLostWakeup'
    BY <1>0, <2>1, <2>2 DEF NoLostWakeup
  <2> QED BY <2>3, <2>4
<1>4. ASSUME NEW a \in Awaits, AsyncRequestFails(a) PROVE (CallerFollows /\ NoLostWakeup)'
  <2>1. /\ pc[a] = "idle" /\ ret' = [ret EXCEPT ![a] = "refused"]
        /\ UNCHANGED <<fut, posted, pc, got, loopOpen>>
    BY <1>4 DEF AsyncRequestFails, MayStart, mode, fetch
  <2> QED BY <1>0, <2>1 DEF CallerFollows, NoLostWakeup
<1>5. ASSUME NEW a \in Awaits, Publish(a) PROVE (CallerFollows /\ NoLostWakeup)'
  <2>1. /\ posted' = posted \ {a} /\ a \in posted /\ UNCHANGED <<pc, got, ret, loopOpen>>
        /\ fut' = IF fut[a] = "cancelled" THEN fut ELSE [fut EXCEPT ![a] = got[a]]
    BY <1>5 DEF Publish, mode, fetch
  <2>2. pc[a] = "finished" /\ got[a] \in Outcome
    BY <1>0, <2>1 DEF CallerFollows, OutcomeAllowed
  <2>3. CallerFollows'
    BY <1>0, <2>1, <2>2 DEF CallerFollows
  <2>4. NoLostWakeup'
    BY <1>0, <2>1, <2>2 DEF NoLostWakeup, CallerFollows
  <2> QED BY <2>3, <2>4
<1>6. ASSUME NEW a \in Awaits, Resume(a) PROVE (CallerFollows /\ NoLostWakeup)'
  <2>1. /\ fut[a] \in Outcome /\ ret' = [ret EXCEPT ![a] = fut[a]]
        /\ UNCHANGED <<fut, posted, pc, got, loopOpen>>
    BY <1>6 DEF Resume, mode, fetch
  <2> QED BY <1>0, <2>1 DEF CallerFollows, NoLostWakeup
<1>7. ASSUME NEW a \in Awaits, GuardExpires(a) \/ CancelCaller(a)
      PROVE  (CallerFollows /\ NoLostWakeup)'
  <2>1. /\ fut[a] # "none" /\ UNCHANGED <<posted, pc, got, loopOpen>>
        /\ fut' = IF fut[a] = "pending" THEN [fut EXCEPT ![a] = "cancelled"] ELSE fut
    BY <1>7 DEF GuardExpires, CancelCaller, Abandon, mode, fetch
  <2>2. \E r \in {"timeout", "cancelled"} : ret' = [ret EXCEPT ![a] = r]
    BY <1>7 DEF GuardExpires, CancelCaller, Abandon
  <2>3. CallerFollows'
    BY <1>0, <2>1, <2>2 DEF CallerFollows
  <2>4. NoLostWakeup'
    BY <1>0, <2>1, <2>2 DEF NoLostWakeup
  <2> QED BY <2>3, <2>4
<1>8. CASE StartFetch
  <2>1. queue \in Seq(Awaits) /\ queue # <<>>
    BY <1>8 DEF StartFetch, TypeOK
  <2>2. Head(queue) \in Awaits /\ pc[Head(queue)] = "queued"
    BY <2>1 DEF QueuedOnce
  <2> QED BY <1>2, <1>8, <2>2 DEF StartFetch, mode, caller
<1>9. ASSUME NEW a \in Awaits,
             \/ PollReady(a) \/ PollNotReady(a) \/ PollConsumed(a) \/ DeadlinePassed(a)
             \/ Sleep(a) \/ Register(a) \/ RegisterTwice(a) \/ Get(a)
      PROVE  (CallerFollows /\ NoLostWakeup)'
  <2>1. /\ pc[a] \in Working \ {"posting"} /\ UNCHANGED <<fut, ret, posted, loopOpen>>
    BY <1>9 DEF PollReady, PollNotReady, PollConsumed, DeadlinePassed, Sleep, Register,
                RegisterTwice, Get, FetchFrame, Awake, caller, mode, Working
  <2>2. got[a] = "none"
    BY <2>1 DEF OutcomeAllowed, Working
  <2>3. \/ UNCHANGED got
        \/ \E o : got' = [got EXCEPT ![a] = o]
    BY <1>9 DEF PollReady, PollNotReady, PollConsumed, DeadlinePassed, Sleep, Register,
                RegisterTwice, Get, Goto, Conclude
  <2>4. \A b \in Awaits : got'[b] # got[b] => b = a /\ got[a] = "none"
    BY <1>0, <2>2, <2>3
  <2>5. \/ pc' = [pc EXCEPT ![a] = "consuming"] \/ pc' = [pc EXCEPT ![a] = "checking"]
        \/ pc' = [pc EXCEPT ![a] = "sleeping"] \/ pc' = [pc EXCEPT ![a] = "posting"]
        \/ pc' = [pc EXCEPT ![a] = "getting"]
    BY <1>9 DEF PollReady, PollNotReady, PollConsumed, DeadlinePassed, Sleep, Register,
                RegisterTwice, Get, Goto, Conclude
  <2>6. pc[a] \notin {"idle", "finished"}
    BY <2>1 DEF Working
  <2> QED BY <1>2, <2>1, <2>4, <2>5, <2>6
<1>10. ASSUME NEW a \in Awaits, Post(a) PROVE (CallerFollows /\ NoLostWakeup)'
  <2>1. /\ pc[a] = "posting" /\ pc' = [pc EXCEPT ![a] = "finished"]
        /\ UNCHANGED <<fut, ret, got, loopOpen>>
        /\ posted' = IF loopOpen THEN posted \cup {a} ELSE posted
    BY <1>10 DEF Post, Goto, FetchFrame, caller, mode
  <2>2. CallerFollows'
    BY <1>0, <2>1 DEF CallerFollows
  <2>3. NoLostWakeup'
    BY <1>0, <2>1 DEF NoLostWakeup
  <2> QED BY <2>2, <2>3
<1>11. ASSUME NEW f \in Futures, CppAnswer(f) \/ CppExpire(f)
       PROVE  (CallerFollows /\ NoLostWakeup)'
  BY <1>1, <1>11 DEF CppAnswer, CppExpire, SettleCpp, fetch, caller, mode
<1>12. CASE Tick \/ CloseLoop \/ BeginExit \/ UNCHANGED vars
  BY <1>1, <1>12 DEF Tick, CloseLoop, BeginExit, vars, fetch, caller, mode
<1> QED BY <1>3, <1>4, <1>5, <1>6, <1>7, <1>8, <1>9, <1>10, <1>11, <1>12
        DEF Next, FetchStep

-----------------------------------------------------------------------------
(* Time: what is due, and what is delivered. *)

\* Where a fetch goes, and what it leaves alone.
LEMMA FetchMoves ==
  ASSUME TypeOK, NEW a \in Awaits, FetchStep(a)
  PROVE  /\ pc[a] \in Working /\ pc'[a] \in Working \cup {"finished"}
         /\ \A b \in Awaits \ {a} : /\ pc'[b] = pc[b] /\ wake'[b] = wake[b]
                                    /\ got'[b] = got[b]
         /\ UNCHANGED <<now, mode, core, startAt, pool, caller>>
<1>1. /\ pc[a] \in Working /\ UNCHANGED <<now, mode, core, startAt, pool, caller>>
      /\ \E w \in Working \cup {"finished"} : pc' = [pc EXCEPT ![a] = w]
  BY DEF FetchStep, PollReady, PollNotReady, PollConsumed, DeadlinePassed, Sleep, Register,
         RegisterTwice, Get, Post, FetchFrame, Awake, Goto, Conclude, Working
<1>2. \E w : wake' = [wake EXCEPT ![a] = w]
  BY DEF FetchStep, PollReady, PollNotReady, PollConsumed, DeadlinePassed, Sleep, Register,
         RegisterTwice, Get, Post, Goto, Conclude
<1>3. got' = got \/ \E o : got' = [got EXCEPT ![a] = o]
  BY DEF FetchStep, PollReady, PollNotReady, PollConsumed, DeadlinePassed, Sleep, Register,
         RegisterTwice, Get, Post, Goto, Conclude
<1> QED BY <1>1, <1>2, <1>3 DEF TypeOK

\* Where a fetch gets a TimeoutError from.
LEMMA TimeoutHas2Sources ==
  ASSUME TypeOK, NEW a \in Awaits, FetchStep(a), got[a] # "timeout", got'[a] = "timeout"
  PROVE  \/ pc[a] = "getting" /\ cpp[F(a)] = "timeout"
         \/ pc[a] = "checking" /\ a \in Guarded /\ now >= Deadline(a)
<1>1. CASE Get(a)
  BY <1>1 DEF Get, Conclude, TypeOK
<1>2. CASE DeadlinePassed(a)
  BY <1>2 DEF DeadlinePassed
<1>3. CASE PollConsumed(a) \/ RegisterTwice(a)
  BY <1>3 DEF PollConsumed, RegisterTwice, Conclude, TypeOK
<1>4. CASE UNCHANGED got
  BY <1>4
<1> QED BY <1>1, <1>2, <1>3, <1>4 DEF FetchStep, PollReady, PollNotReady, Sleep, Register,
                                      Post, Goto

\* What a step of anything but a fetch does to the fetches.
LEMMA OthersMove ==
  ASSUME TypeOK, QueuedOnce, [Next]_vars, \A a \in Awaits : ~FetchStep(a)
  PROVE  /\ UNCHANGED <<got, wake>>
         /\ \A a \in Awaits : \/ pc'[a] = pc[a]
                              \/ pc[a] = "queued" /\ pc'[a] = "polling"
                              \/ AsyncRequest(a) \/ AwaitAgain(a)
<1>0. pc \in [Awaits -> {"idle", "queued", "finished"} \cup Working]
  BY DEF TypeOK
<1>1. ASSUME NEW a \in Awaits, AsyncRequest(a) \/ AwaitAgain(a)
      PROVE  UNCHANGED <<got, wake>> /\ \A b \in Awaits \ {a} : pc'[b] = pc[b]
  <2>1. \E w : pc' = [pc EXCEPT ![a] = w]
    BY <1>1 DEF AsyncRequest, AwaitAgain, StartAwait, Submit
  <2> QED BY <1>0, <1>1, <2>1 DEF AsyncRequest, AwaitAgain, StartAwait
<1>2. CASE StartFetch
  <2>1. queue \in Seq(Awaits) /\ queue # <<>>
    BY <1>2 DEF StartFetch, TypeOK
  <2>2. Head(queue) \in Awaits /\ pc[Head(queue)] = "queued"
    BY <2>1 DEF QueuedOnce
  <2> QED BY <1>0, <1>2, <2>2 DEF StartFetch
<1>3. ASSUME NEW a \in Awaits, \/ AsyncRequestFails(a) \/ Publish(a) \/ Resume(a)
                               \/ GuardExpires(a) \/ CancelCaller(a)
      PROVE  UNCHANGED <<pc, got, wake>>
  BY <1>3 DEF AsyncRequestFails, Publish, Resume, GuardExpires, CancelCaller, Abandon, fetch
<1>4. ASSUME NEW f \in Futures, CppAnswer(f) \/ CppExpire(f)
      PROVE  UNCHANGED <<pc, got, wake>>
  BY <1>4 DEF CppAnswer, CppExpire, SettleCpp, fetch
<1>5. CASE Tick \/ CloseLoop \/ BeginExit \/ UNCHANGED vars
  BY <1>5 DEF Tick, CloseLoop, BeginExit, vars, fetch
<1> QED BY <1>1, <1>2, <1>3, <1>4, <1>5 DEF Next

\* What a step does to the futures: a call uses an idle one, the core settles one.
LEMMA FuturesMove ==
  ASSUME TypeOK, [Next]_vars
  PROVE  /\ now' = now \/ (Tick /\ now' = now + 1)
         /\ \/ UNCHANGED <<core, startAt>>
            \/ \E a \in Awaits : AsyncRequest(a) \/ AwaitAgain(a)
            \/ \E f \in Futures : CppAnswer(f) \/ CppExpire(f)
<1>1. ASSUME NEW a \in Awaits, AsyncRequest(a) \/ AwaitAgain(a) PROVE now' = now
  BY <1>1 DEF AsyncRequest, AwaitAgain, StartAwait
<1>2. ASSUME NEW a \in Awaits, \/ AsyncRequestFails(a) \/ Publish(a) \/ Resume(a)
                               \/ GuardExpires(a) \/ CancelCaller(a)
      PROVE  UNCHANGED <<now, core, startAt>>
  BY <1>2 DEF AsyncRequestFails, Publish, Resume, GuardExpires, CancelCaller, Abandon
<1>3. ASSUME NEW a \in Awaits, FetchStep(a) PROVE UNCHANGED <<now, core, startAt>>
  BY <1>3, FetchMoves
<1>4. CASE StartFetch \/ CloseLoop \/ BeginExit \/ UNCHANGED vars
  BY <1>4 DEF StartFetch, CloseLoop, BeginExit, vars
<1>5. CASE Tick
  BY <1>5 DEF Tick
<1>6. ASSUME NEW f \in Futures, CppAnswer(f) \/ CppExpire(f) PROVE now' = now
  BY <1>6 DEF CppAnswer, CppExpire, SettleCpp
<1> QED BY <1>1, <1>2, <1>3, <1>4, <1>5, <1>6 DEF Next

\* A TimeoutError is due when the core, or a fetch, raises it.
LEMMA DueStep ==
  /\ ConstantsAssumption /\ TypeOK /\ QueuedOnce /\ OutcomeAllowed /\ TimeoutIsDue /\ [Next]_vars
  => TimeoutIsDue'
<1> SUFFICES ASSUME ConstantsAssumption, TypeOK, QueuedOnce, OutcomeAllowed, TimeoutIsDue,
                    [Next]_vars
             PROVE  TimeoutIsDue'
  OBVIOUS
<1> USE DEF F
<1>0. /\ now \in Nat /\ now' \in Nat /\ now' >= now
      /\ pc \in [Awaits -> {"idle", "queued", "finished"} \cup Working]
      /\ got \in [Awaits -> {"none"} \cup Outcome]
      /\ cpp \in [Futures -> {"idle", "inflight"} \cup Settled]
      /\ due \in [Futures -> Nat] /\ startAt \in [Awaits -> Nat] /\ Timeout \in [Awaits -> Nat]
      /\ \A a \in Awaits : FutureOf[a] \in Futures /\ CoreLimit(a) \in Nat
      /\ "idle" \notin Working
  <2>1. \A a \in Awaits : CoreLimit(a) \in Nat
    BY DEF ConstantsAssumption, CoreLimit, Guarded
  <2>2. now \in Nat /\ now' \in Nat /\ now' >= now
    BY FuturesMove DEF TypeOK
  <2> QED BY <2>1, <2>2 DEF TypeOK, ConstantsAssumption, Working
<1>1. \A a \in Awaits : CoreLimit(a)' = CoreLimit(a) /\ (Unshared(a)' <=> Unshared(a))
  BY DEF CoreLimit, Guarded, ForwardsTimeout, Unshared
\* Neither a call nor the core.
<1>2. ASSUME UNCHANGED <<core, startAt>>,
             \A a \in Awaits : pc'[a] = "idle" <=> pc[a] = "idle",
             \A a \in Awaits : got'[a] = "timeout" /\ got[a] # "timeout" =>
               cpp[F(a)] = "timeout" \/ (a \in Guarded /\ now >= Deadline(a))
      PROVE  TimeoutIsDue'
  <2> SUFFICES ASSUME NEW a \in Awaits
               PROVE  /\ Unshared(a) =>
                           /\ pc'[a] = "idle" <=> cpp'[F(a)] = "idle"
                           /\ pc'[a] # "idle" => due'[F(a)] =
                                IF CoreLimit(a) = 0 THEN 0 ELSE startAt'[a] + CoreLimit(a)
                           /\ cpp'[F(a)] = "timeout" => due'[F(a)] > 0 /\ now' >= due'[F(a)]
                      /\ got'[a] = "timeout" =>
                           cpp'[F(a)] = "timeout" \/ (a \in Guarded /\ now' >= Deadline(a)')
    BY <1>1 DEF TimeoutIsDue, Guarded
  <2>1. Deadline(a)' = Deadline(a) /\ Deadline(a) \in Nat
    BY <1>0, <1>2 DEF Deadline
  <2> QED BY <1>0, <1>2, <2>1 DEF TimeoutIsDue, core
<1>3. ASSUME NEW a \in Awaits, FetchStep(a) PROVE TimeoutIsDue'
  <2>1. UNCHANGED <<core, startAt>> /\ \A b \in Awaits : pc'[b] = "idle" <=> pc[b] = "idle"
    BY <1>0, <1>3, FetchMoves
  <2>2. \A b \in Awaits : got'[b] = "timeout" /\ got[b] # "timeout" =>
          cpp[F(b)] = "timeout" \/ (b \in Guarded /\ now >= Deadline(b))
    BY <1>3, FetchMoves, TimeoutHas2Sources
  <2> QED BY <1>2, <2>1, <2>2
<1>4. ASSUME NEW a \in Awaits, AsyncRequest(a) \/ AwaitAgain(a) PROVE TimeoutIsDue'
  <2>1. /\ pc[a] = "idle" /\ startAt' = [startAt EXCEPT ![a] = now] /\ UNCHANGED <<got, now>>
        /\ pc'[a] # "idle" /\ \A b \in Awaits \ {a} : pc'[b] = pc[b]
    <3>1. \E w \in {"queued", "polling"} : pc' = [pc EXCEPT ![a] = w]
      BY <1>4 DEF AsyncRequest, AwaitAgain, StartAwait, Submit
    <3> QED BY <1>0, <1>4, <3>1 DEF AsyncRequest, AwaitAgain, StartAwait, MayStart
  <2>2. got[a] = "none"
    BY <2>1 DEF OutcomeAllowed
  <2>3. \A b \in Awaits \ {a} : Deadline(b)' = Deadline(b) /\ Deadline(b) \in Nat
    BY <1>0, <2>1 DEF Deadline
  <2>4. CASE AsyncRequest(a)
    <3>1. /\ cpp[F(a)] = "idle" /\ cpp' = [cpp EXCEPT ![F(a)] = "inflight"]
          /\ due' = [due EXCEPT ![F(a)] = IF CoreLimit(a) = 0 THEN 0 ELSE now + CoreLimit(a)]
      BY <2>4 DEF AsyncRequest
    <3>2. ASSUME NEW b \in Awaits, Unshared(b), b # a PROVE F(b) # F(a)
      BY <3>2 DEF Unshared
    <3> QED BY <1>0, <1>1, <2>1, <2>2, <2>3, <3>1, <3>2 DEF TimeoutIsDue, Guarded
  <2>5. CASE AwaitAgain(a)
    <3>1. cpp[F(a)] # "idle" /\ UNCHANGED <<cpp, due>>
      BY <2>5 DEF AwaitAgain
    <3>2. ~Unshared(a)
      BY <2>1, <3>1 DEF TimeoutIsDue
    <3> QED BY <1>0, <1>1, <2>1, <2>2, <2>3, <3>1, <3>2 DEF TimeoutIsDue, Guarded
  <2> QED BY <1>4, <2>4, <2>5
<1>5. ASSUME NEW f \in Futures, CppAnswer(f) \/ CppExpire(f) PROVE TimeoutIsDue'
  <2>1. /\ cpp[f] = "inflight" /\ UNCHANGED <<due, now, startAt, pc, got>>
        /\ \E o \in Settled : /\ cpp' = [cpp EXCEPT ![f] = o]
                              /\ o = "timeout" => due[f] > 0 /\ now >= due[f]
    BY <1>5 DEF CppAnswer, CppExpire, SettleCpp, fetch, Settled
  <2>2. "idle" \notin Settled
    BY DEF Settled
  <2>3. \A b \in Awaits : Deadline(b)' = Deadline(b)
    BY <2>1 DEF Deadline
  <2> QED BY <1>0, <1>1, <2>1, <2>2, <2>3 DEF TimeoutIsDue, Guarded
<1>6. CASE /\ \A a \in Awaits : ~FetchStep(a) /\ ~AsyncRequest(a) /\ ~AwaitAgain(a)
           /\ UNCHANGED <<core, startAt>>
  BY <1>0, <1>2, <1>6, OthersMove
<1> QED BY <1>3, <1>4, <1>5, <1>6, FuturesMove

\* A fetch leaves the queue when it starts, and only then.
LEMMA QueueCompleteStep ==
  TypeOK /\ QueuedOnce /\ QueueIsComplete /\ [Next]_vars => QueueIsComplete'
<1> SUFFICES ASSUME TypeOK, QueuedOnce, QueueIsComplete, [Next]_vars
             PROVE  QueueIsComplete'
  OBVIOUS
<1>0. queue \in Seq(Awaits) /\ pc \in [Awaits -> {"idle", "queued", "finished"} \cup Working]
      /\ "queued" \notin Working \cup {"finished"}
  BY DEF TypeOK, Working
<1>1. ASSUME UNCHANGED queue, \A a \in Awaits : pc'[a] = "queued" => pc[a] = "queued"
      PROVE  QueueIsComplete'
  BY <1>1 DEF QueueIsComplete
<1>2. ASSUME NEW a \in Awaits, FetchStep(a) PROVE QueueIsComplete'
  <2>1. UNCHANGED queue /\ \A b \in Awaits : pc'[b] = "queued" => pc[b] = "queued"
    BY <1>0, <1>2, FetchMoves DEF pool
  <2> QED BY <1>1, <2>1
<1>3. ASSUME NEW a \in Awaits, AsyncRequest(a) \/ AwaitAgain(a) PROVE QueueIsComplete'
  <2>1. Submit(a)
    BY <1>3 DEF AsyncRequest, AwaitAgain, StartAwait
  <2>2. CASE exiting
    BY <1>0, <1>1, <2>1, <2>2 DEF Submit
  <2>3. CASE ~exiting
    <3>1. queue' = Append(queue, a) /\ pc' = [pc EXCEPT ![a] = "queued"]
      BY <2>1, <2>3 DEF Submit
    <3>2. /\ Len(queue') = Len(queue) + 1 /\ queue'[Len(queue) + 1] = a
          /\ \A i \in 1..Len(queue) : queue'[i] = queue[i]
          /\ Len(queue) \in Nat
      BY <1>0, <3>1
    <3>3. ASSUME NEW b \in Awaits, pc'[b] = "queued"
          PROVE  \E i \in 1..Len(queue') : queue'[i] = b
      <4>1. CASE b = a
        BY <3>2, <4>1
      <4>2. CASE b # a
        BY <1>0, <3>1, <3>2, <3>3, <4>2 DEF QueueIsComplete
      <4> QED BY <4>1, <4>2
    <3> QED BY <3>3 DEF QueueIsComplete
  <2> QED BY <2>2, <2>3
<1>4. CASE StartFetch
  <2>1. queue' = Tail(queue) /\ pc' = [pc EXCEPT ![Head(queue)] = "polling"] /\ queue # <<>>
    BY <1>4 DEF StartFetch
  <2>2. /\ Len(queue') = Len(queue) - 1 /\ Head(queue) = queue[1] /\ Len(queue) \in Nat \ {0}
        /\ \A i \in 1..Len(queue') : queue'[i] = queue[i + 1]
    BY <1>0, <2>1
  <2>3. ASSUME NEW b \in Awaits, pc'[b] = "queued"
        PROVE  \E i \in 1..Len(queue') : queue'[i] = b
    <3>1. pc[b] = "queued" /\ b # queue[1]
      BY <1>0, <2>1, <2>2, <2>3 DEF QueuedOnce
    <3>2. PICK i \in 1..Len(queue) : queue[i] = b
      BY <3>1 DEF QueueIsComplete
    <3>3. i - 1 \in 1..Len(queue') /\ queue'[i - 1] = queue[i]
      BY <2>2, <3>1, <3>2
    <3> QED BY <3>2, <3>3
  <2> QED BY <2>3 DEF QueueIsComplete
<1>5. ASSUME NEW a \in Awaits,
             \/ AsyncRequestFails(a) \/ Publish(a) \/ Resume(a)
             \/ GuardExpires(a) \/ CancelCaller(a)
      PROVE QueueIsComplete'
  BY <1>1, <1>5 DEF AsyncRequestFails, Publish, Resume, GuardExpires, CancelCaller,
                    Abandon, fetch, pool
<1>6. ASSUME NEW f \in Futures, CppAnswer(f) \/ CppExpire(f) PROVE QueueIsComplete'
  BY <1>1, <1>6 DEF CppAnswer, CppExpire, SettleCpp, fetch, pool
<1>7. CASE Tick \/ CloseLoop \/ BeginExit \/ UNCHANGED vars
  BY <1>1, <1>7 DEF Tick, CloseLoop, BeginExit, vars, fetch, pool
<1> QED BY <1>2, <1>3, <1>4, <1>5, <1>6, <1>7 DEF Next

\* While the clock advances no fetch waits for a worker, and none is at work.
LEMMA NobodyAtWork ==
  ASSUME ConstantsAssumption, TypeOK, QueueIsComplete, Prompt, Tick, NEW a \in Awaits
  PROVE  pc[a] \in {"idle", "finished"} \/ (pc[a] = "sleeping" /\ now < wake[a])
<1>1. Quiescent
  BY DEF Tick, Prompt
<1>2. ASSUME pc[a] = "queued" PROVE FALSE
  <2>1. queue # <<>>
    BY <1>2 DEF QueueIsComplete, TypeOK
  <2>2. Cardinality(Busy) >= MaxWorkers
    BY <1>1, <2>1 DEF Quiescent
  <2>3. Busy \subseteq Awaits \ {a}
    BY <1>2 DEF Busy, Working
  <2>4. /\ IsFiniteSet(Awaits \ {a}) /\ Cardinality(Awaits \ {a}) = Cardinality(Awaits) - 1
        /\ Cardinality(Awaits) \in Nat
    BY FS_RemoveElement, FS_CardinalityType DEF Prompt
  <2>5. Cardinality(Busy) \in Nat /\ Cardinality(Busy) <= Cardinality(Awaits \ {a})
    BY <2>3, <2>4, FS_Subset, FS_CardinalityType
  <2> QED BY <2>2, <2>4, <2>5 DEF Prompt, ConstantsAssumption
<1> QED BY <1>1, <1>2 DEF Quiescent

\* No fetch sleeps past an answer.
LEMMA SleepStep ==
  /\ ConstantsAssumption /\ TypeOK /\ QueuedOnce /\ QueueIsComplete
  /\ Prompt /\ now <= Horizon /\ SleepsBriefly /\ [Next]_vars
  => (now <= Horizon /\ SleepsBriefly)'
<1> SUFFICES ASSUME ConstantsAssumption, TypeOK, QueuedOnce, QueueIsComplete, Prompt,
                    now <= Horizon, SleepsBriefly, [Next]_vars
             PROVE  (now <= Horizon /\ SleepsBriefly)'
  OBVIOUS
<1> USE DEF F, Answered
<1>0. /\ now \in Nat /\ Poll \in Nat \ {0} /\ Horizon \in Nat
      /\ pc \in [Awaits -> {"idle", "queued", "finished"} \cup Working]
      /\ wake \in [Awaits -> Nat] /\ settledAt \in [Futures -> Nat]
      /\ cpp \in [Futures -> {"idle", "inflight"} \cup Settled]
      /\ \A a \in Awaits : FutureOf[a] \in Futures
  BY DEF TypeOK, ConstantsAssumption
<1>1. (now <= Horizon)'
  BY <1>0, FuturesMove DEF Tick
<1>2. ASSUME UNCHANGED <<now, wake, cpp, settledAt>>,
             \A a \in Awaits : pc'[a] \in {"sleeping", "checking"} => pc'[a] = pc[a]
      PROVE  SleepsBriefly'
  BY <1>2 DEF SleepsBriefly
<1>3. ASSUME NEW a \in Awaits, FetchStep(a) PROVE SleepsBriefly'
  <2>1. /\ UNCHANGED <<now, cpp, settledAt>>
        /\ \A b \in Awaits \ {a} : pc'[b] = pc[b] /\ wake'[b] = wake[b]
    BY <1>3, FetchMoves DEF core
  <2> SUFFICES /\ pc'[a] = "sleeping" => /\ now <= wake'[a] /\ wake'[a] <= now + Poll
                                         /\ Answered(a) => wake'[a] <= settledAt[F(a)] + Poll
               /\ pc'[a] = "checking" /\ Answered(a) => settledAt[F(a)] = now
    BY <2>1 DEF SleepsBriefly
  <2>2. CASE Sleep(a)
    <3>1. /\ pc[a] = "checking" /\ pc'[a] = "sleeping" /\ wake'[a] = SleepUntil(a)
          /\ a \in Guarded => now < Deadline(a)
      <4>1. Deadline(a) \in Nat
        BY DEF Deadline, TypeOK, ConstantsAssumption
      <4> QED BY <1>0, <2>2, <4>1 DEF Sleep
    <3>2. Deadline(a) \in Nat
      BY DEF Deadline, TypeOK, ConstantsAssumption
    <3>3. now <= SleepUntil(a) /\ SleepUntil(a) <= now + Poll
      BY <1>0, <3>1, <3>2 DEF SleepUntil, Earlier
    <3> QED BY <1>0, <3>1, <3>3 DEF SleepsBriefly
  <2>3. CASE PollNotReady(a)
    BY <1>0, <2>3 DEF PollNotReady, Goto, Settled
  <2>4. CASE pc'[a] \notin {"sleeping", "checking"}
    BY <2>4
  <2> QED BY <1>0, <1>3, <2>2, <2>3, <2>4
          DEF FetchStep, PollReady, PollConsumed, DeadlinePassed, Register, RegisterTwice, Get,
              Post, Goto, Conclude
<1>4. ASSUME NEW a \in Awaits, AsyncRequest(a) \/ AwaitAgain(a) PROVE SleepsBriefly'
  <2>1. /\ UNCHANGED <<now, wake, settledAt>>
        /\ \A f \in Futures : cpp'[f] = "answer" => cpp[f] = "answer"
    BY <1>0, <1>4 DEF AsyncRequest, AwaitAgain, StartAwait
  <2>2. \E w \in {"queued", "polling"} : pc' = [pc EXCEPT ![a] = w]
    BY <1>4 DEF AsyncRequest, AwaitAgain, StartAwait, Submit
  <2>3. \A b \in Awaits : pc'[b] \in {"sleeping", "checking"} => pc'[b] = pc[b]
    BY <1>0, <2>2
  <2> QED BY <1>0, <2>1, <2>3 DEF SleepsBriefly
<1>5. ASSUME NEW f \in Futures, CppAnswer(f) \/ CppExpire(f) PROVE SleepsBriefly'
  <2>1. /\ cpp[f] = "inflight" /\ UNCHANGED <<now, wake, pc>>
        /\ settledAt' = [settledAt EXCEPT ![f] = now]
        /\ \E o \in Settled : cpp' = [cpp EXCEPT ![f] = o]
    BY <1>5 DEF CppAnswer, CppExpire, SettleCpp, fetch, Settled
  <2> QED BY <1>0, <2>1 DEF SleepsBriefly
<1>6. ASSUME Tick PROVE SleepsBriefly'
  <2>1. now' = now + 1 /\ UNCHANGED <<pc, wake, cpp, settledAt>>
    BY <1>6 DEF Tick, fetch, core
  <2>2. \A a \in Awaits : /\ pc[a] # "checking"
                          /\ pc[a] = "sleeping" => now < wake[a]
    BY <1>6, NobodyAtWork
  <2>3. ASSUME NEW a \in Awaits
        PROVE  /\ pc'[a] = "sleeping" => /\ now' <= wake'[a] /\ wake'[a] <= now' + Poll
                                         /\ Answered(a)' => wake'[a] <= settledAt'[F(a)] + Poll
               /\ pc'[a] = "checking" /\ Answered(a)' => settledAt'[F(a)] = now'
    <3>1. pc[a] = "sleeping" => now + 1 <= wake[a] /\ wake[a] <= (now + 1) + Poll
      BY <1>0, <2>2 DEF SleepsBriefly
    <3> QED BY <2>1, <2>2, <3>1 DEF SleepsBriefly
  <2> QED BY <2>3 DEF SleepsBriefly
<1>7. ASSUME \A a \in Awaits : ~FetchStep(a) /\ ~AsyncRequest(a) /\ ~AwaitAgain(a),
             UNCHANGED <<core, now>>
      PROVE  SleepsBriefly'
  <2>1. UNCHANGED wake /\ \A a \in Awaits : pc'[a] \in {"sleeping", "checking"} => pc'[a] = pc[a]
    BY <1>7, OthersMove
  <2> QED BY <1>2, <1>7, <2>1 DEF core
<1> QED BY <1>1, <1>3, <1>4, <1>5, <1>6, <1>7, FuturesMove

\* An answer does not stay under way for more than a poll interval.
LEMMA AnswerStep ==
  /\ ConstantsAssumption /\ TypeOK /\ QueuedOnce /\ QueueIsComplete
  /\ OutcomeAllowed /\ CallerFollows /\ NoLostWakeup /\ TimeoutIsDue
  /\ Prompt /\ SleepsBriefly /\ AnswerReachesCaller /\ [Next]_vars
  => AnswerReachesCaller'
<1> SUFFICES ASSUME ConstantsAssumption, TypeOK, QueuedOnce, QueueIsComplete,
                    OutcomeAllowed, CallerFollows, NoLostWakeup, TimeoutIsDue, Prompt,
                    SleepsBriefly, AnswerReachesCaller, [Next]_vars
             PROVE  AnswerReachesCaller'
  OBVIOUS
<1> USE DEF F, Answered
<1>0. /\ now \in Nat /\ Poll \in Nat \ {0}
      /\ pc \in [Awaits -> {"idle", "queued", "finished"} \cup Working]
      /\ got \in [Awaits -> {"none"} \cup Outcome] /\ startAt \in [Awaits -> Nat]
      /\ wake \in [Awaits -> Nat] /\ settledAt \in [Futures -> Nat]
      /\ ret \in [Awaits -> {"none", "cancelled", "refused"} \cup Outcome]
      /\ cpp \in [Futures -> {"idle", "inflight"} \cup Settled]
      /\ \A a \in Awaits : FutureOf[a] \in Futures /\ Timeout[a] \in Nat
  BY DEF TypeOK, ConstantsAssumption
<1>1. \A a \in Awaits : Deadline(a) \in Nat /\ (startAt'[a] = startAt[a] => Deadline(a)' = Deadline(a))
  BY <1>0 DEF Deadline
\* Neither a call, nor the core, nor the clock.
<1>2. ASSUME UNCHANGED <<core, now, startAt>>, loopOpen' => loopOpen,
             \A a \in Awaits : /\ ret'[a] = "none" => ret[a] = "none"
                               /\ pc[a] = "idle" => pc'[a] = "idle",
             \A a \in Awaits : got'[a] = "timeout" /\ got[a] # "timeout" /\ Answered(a) =>
               settledAt[F(a)] >= Deadline(a)
      PROVE  AnswerReachesCaller'
  BY <1>0, <1>1, <1>2 DEF AnswerReachesCaller, core
<1>3. ASSUME NEW a \in Awaits, FetchStep(a) PROVE AnswerReachesCaller'
  <2>1. /\ UNCHANGED <<core, now, startAt, loopOpen, ret>> /\ pc[a] # "idle"
        /\ \A b \in Awaits \ {a} : pc'[b] = pc[b] /\ got'[b] = got[b]
    BY <1>3, FetchMoves DEF mode, caller, Working
  <2>2. got'[a] = "timeout" /\ got[a] # "timeout" /\ Answered(a) => settledAt[F(a)] >= Deadline(a)
    BY <1>0, <1>1, <1>3, TimeoutHas2Sources DEF SleepsBriefly
  <2> QED BY <1>2, <2>1, <2>2
<1>4. ASSUME NEW a \in Awaits, AsyncRequest(a) \/ AwaitAgain(a) PROVE AnswerReachesCaller'
  <2>1. /\ pc[a] = "idle" /\ startAt' = [startAt EXCEPT ![a] = now]
        /\ UNCHANGED <<got, now, settledAt, ret, loopOpen>>
        /\ \A f \in Futures : cpp'[f] = "answer" => cpp[f] = "answer"
    BY <1>0, <1>4 DEF AsyncRequest, AwaitAgain, StartAwait, MayStart, mode
  <2>2. \E w \in {"queued", "polling"} : pc' = [pc EXCEPT ![a] = w]
    BY <1>4 DEF AsyncRequest, AwaitAgain, StartAwait, Submit
  <2>3. got[a] = "none"
    BY <2>1 DEF OutcomeAllowed
  <2> QED BY <1>0, <1>1, <2>1, <2>2, <2>3 DEF AnswerReachesCaller
<1>5. ASSUME NEW f \in Futures, CppAnswer(f) \/ CppExpire(f) PROVE AnswerReachesCaller'
  <2>1. /\ cpp[f] = "inflight" /\ UNCHANGED <<now, startAt, pc, got, ret, loopOpen>>
        /\ settledAt' = [settledAt EXCEPT ![f] = now]
        /\ \E o \in Settled : cpp' = [cpp EXCEPT ![f] = o]
    BY <1>5 DEF CppAnswer, CppExpire, SettleCpp, fetch, caller, mode, Settled
  <2>2. \A a \in Awaits : F(a) = f /\ got[a] = "timeout" => now >= Deadline(a)
    BY <2>1 DEF TimeoutIsDue
  <2> QED BY <1>0, <1>1, <2>1, <2>2 DEF AnswerReachesCaller
<1>6. CASE Tick
  <2>1. /\ now' = now + 1 /\ UNCHANGED <<startAt, pc, got, ret, loopOpen, cpp, settledAt>>
        /\ Quiescent
    BY <1>6 DEF Tick, fetch, core, caller, mode, Prompt
  <2>2. ASSUME NEW a \in Awaits, Answered(a), pc[a] # "idle", ret[a] = "none", loopOpen
        PROVE  pc[a] = "sleeping" /\ now < wake[a] /\ wake[a] <= settledAt[F(a)] + Poll
    <3>1. pc[a] # "finished"
      <4>1. fut[a] \notin Outcome /\ a \notin posted
        BY <2>1, <2>2 DEF Quiescent
      <4>2. pc[a] = "finished" => got[a] \in Outcome /\ fut[a] # "none"
        BY <1>0 DEF OutcomeAllowed, CallerFollows
      <4> QED BY <2>2, <4>1, <4>2 DEF NoLostWakeup
    <3> QED BY <1>6, <2>2, <3>1, NobodyAtWork DEF SleepsBriefly
  <2> QED BY <1>0, <1>1, <2>1, <2>2 DEF AnswerReachesCaller
<1>7. ASSUME \A a \in Awaits : ~FetchStep(a) /\ ~AsyncRequest(a) /\ ~AwaitAgain(a),
             UNCHANGED <<core, now, startAt>>
      PROVE  AnswerReachesCaller'
  <2>1. UNCHANGED got /\ \A a \in Awaits : pc[a] = "idle" => pc'[a] = "idle"
    BY <1>7, OthersMove
  <2>2. (loopOpen' => loopOpen) /\ \A a \in Awaits : ret'[a] = "none" => ret[a] = "none"
    <3>1. ASSUME NEW a \in Awaits, AsyncRequestFails(a) \/ Resume(a) \/ GuardExpires(a)
                                   \/ CancelCaller(a)
          PROVE  UNCHANGED loopOpen /\ \E r : r # "none" /\ ret' = [ret EXCEPT ![a] = r]
      BY <3>1 DEF AsyncRequestFails, Resume, GuardExpires, CancelCaller, Abandon, mode,
                  Outcome, Settled, Misuse
    <3>2. ASSUME NEW a \in Awaits, Publish(a) PROVE UNCHANGED <<loopOpen, ret>>
      BY <3>2 DEF Publish, mode
    <3>3. ASSUME NEW f \in Futures, CppAnswer(f) \/ CppExpire(f) PROVE UNCHANGED <<loopOpen, ret>>
      BY <3>3 DEF CppAnswer, CppExpire, SettleCpp, mode, caller
    <3>4. CASE StartFetch \/ Tick \/ CloseLoop \/ BeginExit \/ UNCHANGED vars
      BY <3>4 DEF StartFetch, Tick, CloseLoop, BeginExit, vars, mode, caller
    <3> QED BY <1>0, <1>7, <3>1, <3>2, <3>3, <3>4 DEF Next
  <2> QED BY <1>2, <1>7, <2>1, <2>2
<1>8. UNCHANGED startAt \/ \E a \in Awaits : AsyncRequest(a) \/ AwaitAgain(a)
  BY FuturesMove DEF CppAnswer, CppExpire, SettleCpp
<1> QED BY <1>3, <1>4, <1>5, <1>6, <1>7, <1>8, FuturesMove

-----------------------------------------------------------------------------
\* The whole invariant holds in every reachable state.
THEOREM Invariance == Spec => []IInv
<1>1. Init => IInv
  <2> SUFFICES ASSUME Init PROVE IInv
    OBVIOUS
  <2>1. TypeOK
    <3>1. queue = <<>> /\ queue \in Seq(Awaits)
      BY DEF Init
    <3> QED BY <3>1 DEF Init, TypeOK
  <2>2. SettledBeforeGet /\ RegistrantGets
    BY ConstantsAssumption DEF Init, SettledBeforeGet, RegistrantGets, ConstantsAssumption
  <2>3. QueuedOnce
    BY DEF Init, QueuedOnce
  <2>4. OutcomeAllowed
    BY DEF Init, OutcomeAllowed
  <2>5. CallerFollows /\ NoLostWakeup
    BY DEF Init, CallerFollows, NoLostWakeup, Outcome, Settled, Misuse
  <2>6. QueueIsComplete /\ TimeoutIsDue
    BY ConstantsAssumption DEF Init, QueueIsComplete, TimeoutIsDue, ConstantsAssumption, F
  <2>7. now <= Horizon /\ SleepsBriefly /\ AnswerReachesCaller
    BY ConstantsAssumption
       DEF Init, SleepsBriefly, AnswerReachesCaller, Answered, ConstantsAssumption, F
  <2> QED BY <2>1, <2>2, <2>3, <2>4, <2>5, <2>6, <2>7 DEF IInv
<1>2. ConstantsAssumption /\ IInv /\ [Next]_vars => IInv'
  <2>1. Prompt' <=> Prompt
    BY DEF Prompt
  <2> QED BY <2>1, TypeStep, QueueStep, RegistryStep, OutcomeStep, CallerStep,
             QueueCompleteStep, DueStep, SleepStep, AnswerStep DEF IInv
<1> QED BY <1>1, <1>2, ConstantsAssumption, PTL DEF Spec

\* The bridge's state stays in its types, whatever the constants.
THEOREM TypeCorrect == Spec => []TypeOK
<1>1. IInv => TypeOK
  BY DEF IInv
<1> QED BY <1>1, Invariance, PTL

\* _consume_cpp_future: any number of fetches of one future, on any number of
\* workers, call get() once between them, and only when it cannot block.
THEOREM ConsumedOnce == Spec => []OneGetPerFuture
<1>1. IInv => OneGetPerFuture
  <2> SUFFICES ASSUME IInv PROVE OneGetPerFuture
    OBVIOUS
  <2>1. \A f \in Futures : gets[f] <= 1
    BY DEF IInv, RegistrantGets
  <2>2. ASSUME NEW a \in Awaits, pc[a] = "getting"
        PROVE  cpp[F(a)] \in Settled /\ gets[F(a)] = 0
    <3>1. F(a) \in Futures /\ registrant[F(a)] = a /\ a # NoOne
      BY <2>2, ConstantsAssumption DEF IInv, RegistrantGets, ConstantsAssumption, F
    <3> QED BY <2>2, <3>1 DEF IInv, RegistrantGets
  <2> QED BY <2>1, <2>2 DEF OneGetPerFuture
<1> QED BY <1>1, Invariance, PTL

\* _fetch and _publish: no caller is left waiting for an outcome that no
\* callback of the loop will bring it.
THEOREM WakeupKept == Spec => []NoLostWakeup
<1>1. IInv => NoLostWakeup
  BY DEF IInv
<1> QED BY <1>1, Invariance, PTL

\* _publish: no outcome meets a result_future that is resolved already, and none
\* replaces a cancellation.
THEOREM SetOnce == Spec => OutcomeSetOnce
<1>1. IInv /\ [Next]_vars =>
        \A a \in Awaits : /\ a \in posted \ posted' => fut[a] \in {"pending", "cancelled"}
                          /\ fut'[a] # fut[a] => fut[a] \in {"none", "pending"}
  <2> SUFFICES ASSUME IInv, [Next]_vars, NEW b \in Awaits
               PROVE  /\ b \in posted \ posted' => fut[b] \in {"pending", "cancelled"}
                      /\ fut'[b] # fut[b] => fut[b] \in {"none", "pending"}
    OBVIOUS
  <2>0. /\ fut \in [Awaits -> {"none", "pending", "cancelled"} \cup Outcome]
        /\ CallerFollows
    BY DEF IInv, TypeOK
  <2>1. b \in posted => fut[b] \in {"pending", "cancelled"}
    BY <2>0 DEF CallerFollows
  <2>2. ASSUME UNCHANGED fut, posted \subseteq posted'
        PROVE  b \notin posted \ posted' /\ fut'[b] = fut[b]
    BY <2>2
  <2>3. ASSUME NEW a \in Awaits, AsyncRequest(a) \/ AwaitAgain(a)
        PROVE  b \notin posted \ posted' /\ (fut'[b] # fut[b] => fut[b] = "none")
    <3>1. pc[a] = "idle" /\ UNCHANGED posted /\ fut' = [fut EXCEPT ![a] = "pending"]
      BY <2>3 DEF AsyncRequest, AwaitAgain, StartAwait, MayStart
    <3> QED BY <2>0, <3>1 DEF CallerFollows
  <2>4. ASSUME NEW a \in Awaits, Publish(a)
        PROVE  fut'[b] # fut[b] => fut[b] = "pending"
    <3>1. a \in posted /\ fut' = IF fut[a] = "cancelled" THEN fut ELSE [fut EXCEPT ![a] = got[a]]
      BY <2>4 DEF Publish
    <3> QED BY <2>0, <2>1, <3>1
  <2>5. ASSUME NEW a \in Awaits, GuardExpires(a) \/ CancelCaller(a)
        PROVE  b \notin posted \ posted' /\ (fut'[b] # fut[b] => fut[b] = "pending")
    BY <2>0, <2>5 DEF GuardExpires, CancelCaller, Abandon
  <2>6. ASSUME NEW a \in Awaits, AsyncRequestFails(a) \/ Resume(a) \/ FetchStep(a)
        PROVE  b \notin posted \ posted' /\ fut'[b] = fut[b]
    BY <2>2, <2>6 DEF AsyncRequestFails, Resume, FetchStep, FetchFrame, caller, PollReady,
       PollNotReady, PollConsumed, DeadlinePassed, Sleep, Register, RegisterTwice, Get, Post
  <2>7. CASE StartFetch \/ Tick \/ CloseLoop \/ BeginExit \/ UNCHANGED vars
    BY <2>2, <2>7 DEF StartFetch, Tick, CloseLoop, BeginExit, vars, caller
  <2>8. ASSUME NEW f \in Futures, CppAnswer(f) \/ CppExpire(f)
        PROVE  b \notin posted \ posted' /\ fut'[b] = fut[b]
    BY <2>2, <2>8 DEF CppAnswer, CppExpire, SettleCpp, caller
  <2> QED BY <2>1, <2>3, <2>4, <2>5, <2>6, <2>7, <2>8 DEF Next
<1> QED BY <1>1, Invariance, PTL DEF Spec, OutcomeSetOnce

\* int(timeout * 1000) takes less than a millisecond from a timeout.
LEMMA Truncated ==
  ASSUME NEW t \in Nat, NEW p \in Nat \ {0}
  PROVE  (t \div p) * p \in Nat /\ (t \div p) * p + (p - 1) >= t
<1> DEFINE d == t \div p
<1>1. /\ d \in Nat /\ t % p \in 0..(p - 1) /\ t = p * d + (t % p)
  OBVIOUS
<1> HIDE DEF d
<1>2. p * d = d * p /\ d * p \in Nat
  BY <1>1
<1> QED BY <1>1, <1>2 DEF d

\* A TimeoutError comes from wait_for, or out of result_future.
LEMMA ToldTimeout ==
  ASSUME TypeOK, [Next]_vars, NEW a \in Awaits, ret[a] # "timeout", ret'[a] = "timeout"
  PROVE  GuardExpires(a) \/ (Resume(a) /\ fut[a] = "timeout")
<1>0. ret \in [Awaits -> {"none", "cancelled", "refused"} \cup Outcome]
  BY DEF TypeOK
<1>1. ASSUME NEW b \in Awaits, AsyncRequestFails(b) PROVE FALSE
  BY <1>0, <1>1 DEF AsyncRequestFails
<1>2. ASSUME NEW b \in Awaits, CancelCaller(b) PROVE FALSE
  BY <1>0, <1>2 DEF CancelCaller, Abandon
<1>3. ASSUME NEW b \in Awaits, Resume(b) \/ GuardExpires(b)
      PROVE  b = a /\ (Resume(a) => fut[a] = "timeout")
  BY <1>0, <1>3 DEF Resume, GuardExpires, Abandon
<1>4. ASSUME NEW b \in Awaits, AsyncRequest(b) \/ AwaitAgain(b) \/ Publish(b) PROVE FALSE
  BY <1>4 DEF AsyncRequest, AwaitAgain, StartAwait, Publish
<1>5. ASSUME NEW b \in Awaits, FetchStep(b) PROVE FALSE
  BY <1>5 DEF FetchStep, PollReady, PollNotReady, PollConsumed, DeadlinePassed, Sleep, Register,
              RegisterTwice, Get, Post, FetchFrame, caller
<1>6. ASSUME NEW f \in Futures, CppAnswer(f) \/ CppExpire(f) PROVE FALSE
  BY <1>6 DEF CppAnswer, CppExpire, SettleCpp, caller
<1>7. CASE StartFetch \/ Tick \/ CloseLoop \/ BeginExit \/ UNCHANGED vars
  BY <1>7 DEF StartFetch, Tick, CloseLoop, BeginExit, vars, caller
<1> QED BY <1>1, <1>2, <1>3, <1>4, <1>5, <1>6, <1>7 DEF Next

\* What result_future says of a timeout.
LEMMA ResumedTimeout ==
  ASSUME IInv, NEW a \in Awaits, Resume(a), fut[a] = "timeout"
  PROVE  pc[a] # "idle" /\ got[a] = "timeout"
BY DEF IInv, Resume, CallerFollows, Outcome, Settled

\* async_request*: whatever is interleaved, and however the two limits relate,
\* nobody is told too early that the remote side did not respond.
THEOREM TimeoutsAreNotEarly == Spec => NoEarlyTimeout
<1>1. ASSUME ConstantsAssumption, IInv, [Next]_vars, NEW a \in Awaits,
             Unshared(a), ret[a] # "timeout", ret'[a] = "timeout"
      PROVE  now + Truncation >= startAt[a] + PromisedWait(a)
  <2>0. /\ TypeOK /\ TimeoutIsDue /\ now \in Nat /\ startAt[a] \in Nat /\ Timeout[a] \in Nat
        /\ TicksPerMs \in Nat \ {0} /\ RequestLimit \in Nat /\ Truncation \in Nat
    <3>1. TypeOK /\ TimeoutIsDue
      BY <1>1 DEF IInv
    <3>2. now \in Nat /\ startAt[a] \in Nat /\ Timeout[a] \in Nat /\ RequestLimit \in Nat
      BY <1>1, <3>1 DEF TypeOK, ConstantsAssumption
    <3> QED BY <1>1, <3>1, <3>2 DEF ConstantsAssumption, Truncation
  <2>1. a \in Guarded => Deadline(a) >= startAt[a] + PromisedWait(a)
    BY <2>0 DEF Deadline, PromisedWait, CoreWait, Earlier, Guarded
  <2>2. CASE GuardExpires(a) \/ (got[a] = "timeout" /\ a \in Guarded /\ now >= Deadline(a))
    <3>1. a \in Guarded /\ now >= Deadline(a)
      BY <2>2 DEF GuardExpires
    <3>2. Deadline(a) \in Nat /\ PromisedWait(a) \in Nat
      BY <2>0 DEF Deadline, PromisedWait, CoreWait, Earlier
    <3> QED BY <2>0, <2>1, <3>1, <3>2
  <2>3. CASE Resume(a) /\ fut[a] = "timeout" /\ cpp[F(a)] = "timeout"
    <3>1. /\ due[F(a)] > 0 /\ now >= due[F(a)]
          /\ due[F(a)] = IF CoreLimit(a) = 0 THEN 0 ELSE startAt[a] + CoreLimit(a)
      BY <1>1, <2>0, <2>3, ResumedTimeout DEF TimeoutIsDue
    <3>2. CoreLimit(a) # 0 /\ now >= startAt[a] + CoreLimit(a)
      BY <3>1
    <3>3. CoreLimit(a) \in Nat /\ CoreLimit(a) + Truncation >= CoreWait(a) /\ CoreWait(a) \in Nat
      <4>1. CASE a \in Guarded /\ ForwardsTimeout(a)
        <5>1. CoreLimit(a) = (Timeout[a] \div TicksPerMs) * TicksPerMs /\ CoreWait(a) = Timeout[a]
          BY <4>1 DEF CoreLimit, CoreWait
        <5> QED BY <2>0, <5>1, Truncated DEF Truncation
      <4>2. CASE ~(a \in Guarded /\ ForwardsTimeout(a))
        BY <2>0, <4>2 DEF CoreLimit, CoreWait
      <4> QED BY <4>1, <4>2
    <3>4. CoreWait(a) > 0
      <4>1. CASE a \in Guarded /\ ForwardsTimeout(a)
        BY <2>0, <4>1 DEF CoreWait, Guarded
      <4>2. CASE ~(a \in Guarded /\ ForwardsTimeout(a))
        BY <2>0, <3>2, <4>2 DEF CoreWait, CoreLimit
      <4> QED BY <4>1, <4>2
    <3>5. CoreWait(a) >= PromisedWait(a) /\ PromisedWait(a) \in Nat
      BY <2>0, <3>3, <3>4 DEF PromisedWait, Earlier, CoreWait
    <3> QED BY <2>0, <3>2, <3>3, <3>5
  <2> QED BY <1>1, <2>0, <2>2, <2>3, ToldTimeout, ResumedTimeout DEF TimeoutIsDue
<1>2. ConstantsAssumption /\ IInv /\ [Next]_vars =>
        [\A a \in Awaits : Unshared(a) /\ ret[a] # "timeout" /\ ret'[a] = "timeout"
           => now + Truncation >= startAt[a] + PromisedWait(a)]_vars
  BY <1>1
<1> QED BY <1>2, Invariance, ConstantsAssumption, PTL DEF Spec, NoEarlyTimeout

\* async_request*: where the program is prompt and has a worker for each call, a
\* caller that is told of a timeout has no answer, or one that came less than a
\* poll interval before its deadline.  (bridge_saturated: with fewer workers it
\* may have had its answer for long.)
THEOREM AnswersInTimeReachCallers ==
  ASSUME Prompt
  PROVE  Spec => TimeoutOnlyWithoutAnswer
<1>1. ASSUME ConstantsAssumption, IInv, [Next]_vars, NEW a \in Guarded,
             ret[a] # "timeout", ret'[a] = "timeout", AnsweredInTime(a)
      PROVE  FALSE
  <2>0. /\ a \in Awaits /\ TypeOK /\ TimeoutIsDue /\ AnswerReachesCaller
        /\ now \in Nat /\ startAt[a] \in Nat /\ Timeout[a] \in Nat \ {0} /\ Poll \in Nat
        /\ F(a) \in Futures /\ settledAt[F(a)] \in Nat
        /\ Answered(a) /\ settledAt[F(a)] + Poll < Deadline(a)
    <3>1. a \in Awaits /\ TypeOK /\ TimeoutIsDue /\ AnswerReachesCaller
      BY <1>1, Prompt DEF IInv, Guarded
    <3>2. /\ now \in Nat /\ startAt[a] \in Nat /\ Timeout[a] \in Nat /\ Poll \in Nat
          /\ F(a) \in Futures
      BY <1>1, <3>1 DEF TypeOK, ConstantsAssumption, F
    <3>3. settledAt[F(a)] \in Nat /\ Timeout[a] > 0
      BY <1>1, <3>1, <3>2 DEF TypeOK, Guarded
    <3>4. Answered(a) /\ settledAt[F(a)] + Poll < Deadline(a)
      BY <1>1 DEF AnsweredInTime
    <3> QED BY <3>1, <3>2, <3>3, <3>4
  <2>1. CASE GuardExpires(a)
    <3>1. pc[a] # "idle" /\ ret[a] = "none" /\ loopOpen /\ now >= Deadline(a)
      <4>1. CallerFollows /\ fut[a] # "none"
        BY <1>1, <2>1 DEF GuardExpires, Abandon, IInv
      <4> QED BY <2>0, <2>1, <4>1 DEF GuardExpires, Abandon, CallerFollows
    <3> QED BY <2>0, <3>1 DEF AnswerReachesCaller, Deadline
  <2>2. CASE Resume(a) /\ fut[a] = "timeout"
    <3>1. settledAt[F(a)] >= Deadline(a)
      BY <1>1, <2>0, <2>2, ResumedTimeout DEF AnswerReachesCaller
    <3> QED BY <2>0, <3>1 DEF Deadline
  <2> QED BY <1>1, <2>0, <2>1, <2>2, ToldTimeout
<1>2. ConstantsAssumption /\ IInv /\ [Next]_vars =>
        [\A a \in Guarded : ret[a] # "timeout" /\ ret'[a] = "timeout" => ~AnsweredInTime(a)]_vars
  BY <1>1
<1> QED BY <1>2, Invariance, ConstantsAssumption, PTL DEF Spec, TimeoutOnlyWithoutAnswer

-----------------------------------------------------------------------------
(* AwaitCppFuture implements RequestPromise. *)

\* Nothing changes for the callers.
LEMMA PromiseStutter ==
  ASSUME UNCHANGED <<cpp, registrant, ret>>,
         \A a \in Awaits : fut'[a] = "none" <=> fut[a] = "none"
  PROVE  UNCHANGED Promise!vars
BY DEF Promise!vars, OutcomeBar, StateBar

\* A caller that waits leaves with r.
LEMMA PromiseReturn ==
  ASSUME TypeOK, NEW a \in Awaits, ret[a] = "none", fut[a] # "none",
         NEW r \in Outcome \cup {"cancelled"},
         Promise!MayReturn(a, r), ret' = [ret EXCEPT ![a] = r],
         UNCHANGED <<cpp, registrant>>,
         \A b \in Awaits : fut'[b] = "none" <=> fut[b] = "none"
  PROVE  Promise!Next
<1>1. StateBar[a] = "waiting"
  BY DEF StateBar
<1>2. ret \in [Awaits -> {"none", "cancelled", "refused"} \cup Outcome] /\ r # "none"
  BY DEF TypeOK, Outcome, Settled, Misuse
<1>3. StateBar' = [StateBar EXCEPT ![a] = r]
  BY <1>2 DEF StateBar
<1>4. UNCHANGED <<OutcomeBar, registrant>>
  BY DEF OutcomeBar
<1>5. r \in Promise!Outcomes \cup Promise!Misuses \cup {"cancelled"}
  BY DEF Promise!Outcomes, Promise!Misuses, Outcome, Settled, Misuse
<1>6. Promise!Return(a)
  BY <1>1, <1>3, <1>4, <1>5 DEF Promise!Return
<1> QED BY <1>6 DEF Promise!Next

\* Every step of the bridge is a step of the promise or none.
LEMMA PromiseStep ==
  ConstantsAssumption /\ IInv /\ IInv' /\ [Next]_vars => [Promise!Next]_(Promise!vars)
<1> SUFFICES ASSUME ConstantsAssumption, IInv, IInv', [Next]_vars,
                    Promise!vars' # Promise!vars
             PROVE  Promise!Next
  OBVIOUS
<1> USE DEF F
<1>0. /\ TypeOK /\ CallerFollows /\ OutcomeAllowed
      /\ \A a \in Awaits : FutureOf[a] \in Futures
      /\ cpp \in [Futures -> {"idle", "inflight"} \cup Settled]
      /\ fut \in [Awaits -> {"none", "pending", "cancelled"} \cup Outcome]
      /\ ret \in [Awaits -> {"none", "cancelled", "refused"} \cup Outcome]
      /\ {"none", "pending", "cancelled", "refused", "idle", "inflight"} \cap Outcome = {}
      /\ {"idle", "inflight", "unset"} \cap Settled = {}
  BY DEF IInv, TypeOK, ConstantsAssumption, Outcome, Settled, Misuse
<1>1. ASSUME NEW a \in Awaits, AsyncRequest(a) \/ AwaitAgain(a) PROVE Promise!Next
  <2>1. /\ ret[a] = "none" /\ pc[a] = "idle" /\ fut' = [fut EXCEPT ![a] = "pending"]
        /\ UNCHANGED <<ret, registrant>>
    BY <1>1 DEF AsyncRequest, AwaitAgain, StartAwait, MayStart, registry
  <2>2. fut[a] = "none"
    BY <1>0, <2>1 DEF CallerFollows
  <2>3. UNCHANGED OutcomeBar
    BY <1>0, <1>1 DEF AsyncRequest, AwaitAgain, OutcomeBar
  <2>4. StateBar[a] = "idle" /\ StateBar' = [StateBar EXCEPT ![a] = "waiting"]
    BY <1>0, <2>1, <2>2 DEF StateBar
  <2> QED BY <2>1, <2>3, <2>4 DEF Promise!Next, Promise!Ask
<1>2. ASSUME NEW a \in Awaits, AsyncRequestFails(a) PROVE Promise!Next
  <2>1. /\ ret[a] = "none" /\ pc[a] = "idle" /\ ret' = [ret EXCEPT ![a] = "refused"]
        /\ UNCHANGED <<cpp, registrant, fut>>
    BY <1>2 DEF AsyncRequestFails, MayStart, registry, core
  <2>2. fut[a] = "none" /\ UNCHANGED OutcomeBar
    BY <1>0, <2>1 DEF CallerFollows, OutcomeBar
  <2>3. StateBar[a] = "idle" /\ StateBar' = [StateBar EXCEPT ![a] = "refused"]
    BY <1>0, <2>1, <2>2 DEF StateBar
  <2> QED BY <2>1, <2>2, <2>3 DEF Promise!Next, Promise!Refuse
<1>3. ASSUME NEW a \in Awaits, Publish(a) PROVE FALSE
  <2>1. /\ a \in posted /\ UNCHANGED <<cpp, registrant, ret>>
        /\ fut' = IF fut[a] = "cancelled" THEN fut ELSE [fut EXCEPT ![a] = got[a]]
    BY <1>3 DEF Publish, core, registry
  <2>2. pc[a] = "finished" /\ fut[a] # "none" /\ got[a] # "none"
    BY <1>0, <2>1 DEF CallerFollows, OutcomeAllowed
  <2> QED BY <1>0, <2>1, <2>2, PromiseStutter
<1>4. ASSUME NEW a \in Awaits, Resume(a) PROVE Promise!Next
  <2>1. /\ ret[a] = "none" /\ fut[a] \in Outcome /\ ret' = [ret EXCEPT ![a] = fut[a]]
        /\ UNCHANGED <<cpp, registrant, fut>>
    BY <1>4 DEF Resume, core, registry
  <2>2. got[a] = fut[a] /\ MayGive(a, fut[a])
    BY <1>0, <2>1 DEF CallerFollows, OutcomeAllowed
  <2>3. Promise!MayReturn(a, fut[a])
    <3>1. cpp[FutureOf[a]] = fut[a] => OutcomeBar[FutureOf[a]] = fut[a]
      <4>1. cpp[FutureOf[a]] = fut[a] => cpp[FutureOf[a]] \in Settled
        BY <1>0, <2>1
      <4> QED BY <1>0, <4>1 DEF OutcomeBar
    <3> QED BY <2>2, <3>1 DEF MayGive, Promise!MayReturn, Promise!Misuses, Misuse
  <2> QED BY <1>0, <2>1, <2>3, PromiseReturn
<1>5. ASSUME NEW a \in Awaits, NEW r \in {"timeout", "cancelled"}, Abandon(a, r),
             r = "timeout" => a \in Guarded
      PROVE  Promise!Next
  <2>1. /\ ret[a] = "none" /\ fut[a] # "none" /\ ret' = [ret EXCEPT ![a] = r]
        /\ UNCHANGED <<cpp, registrant>>
        /\ \A b \in Awaits : fut'[b] = "none" <=> fut[b] = "none"
    BY <1>0, <1>5 DEF Abandon, core, registry
  <2>2. Promise!MayReturn(a, r)
    BY <1>5 DEF Promise!MayReturn
  <2>3. r \in Outcome \cup {"cancelled"}
    BY <1>5 DEF Outcome, Settled
  <2> QED BY <1>0, <2>1, <2>2, <2>3, PromiseReturn
<1>6. ASSUME NEW a \in Awaits, Register(a) PROVE Promise!Next
  <2>1. /\ pc[a] = "consuming" /\ registrant[FutureOf[a]] = NoOne
        /\ registrant' = [registrant EXCEPT ![FutureOf[a]] = a]
        /\ UNCHANGED <<cpp, ret, fut>>
    BY <1>6 DEF Register, FetchFrame, core, caller
  <2>2. fut[a] # "none" /\ cpp[FutureOf[a]] \in Settled
    BY <1>0, <2>1 DEF CallerFollows, IInv, SettledBeforeGet
  <2>3. StateBar[a] # "idle" /\ OutcomeBar[FutureOf[a]] # "unset"
    BY <1>0, <2>2 DEF StateBar, OutcomeBar, Outcome, Settled, Misuse
  <2>4. UNCHANGED <<OutcomeBar, StateBar>>
    BY <2>1 DEF OutcomeBar, StateBar
  <2> QED BY <2>1, <2>3, <2>4 DEF Promise!Next, Promise!Take
<1>7. ASSUME NEW f \in Futures, NEW o \in Settled, SettleCpp(f, o) PROVE Promise!Next
  <2>1. /\ cpp[f] = "inflight" /\ cpp' = [cpp EXCEPT ![f] = o]
        /\ UNCHANGED <<registrant, ret, fut>>
    BY <1>7 DEF SettleCpp, registry, caller
  <2>2. OutcomeBar[f] = "unset" /\ OutcomeBar' = [OutcomeBar EXCEPT ![f] = o]
    BY <1>0, <2>1 DEF OutcomeBar
  <2>3. UNCHANGED StateBar /\ o \in Promise!Outcomes
    BY <2>1 DEF StateBar, Promise!Outcomes, Settled
  <2> QED BY <2>1, <2>2, <2>3 DEF Promise!Next, Promise!Settle
<1>8. ASSUME NEW a \in Awaits, FetchStep(a), ~Register(a) PROVE FALSE
  <2>1. UNCHANGED <<cpp, registrant, ret, fut>>
    BY <1>8 DEF FetchStep, PollReady, PollNotReady, PollConsumed, DeadlinePassed, Sleep,
                RegisterTwice, Get, Post, FetchFrame, core, registry, caller
  <2> QED BY <2>1, PromiseStutter
<1>9. ASSUME StartFetch \/ Tick \/ CloseLoop \/ BeginExit \/ UNCHANGED vars PROVE FALSE
  <2>1. UNCHANGED <<cpp, registrant, ret, fut>>
    BY <1>9 DEF StartFetch, Tick, CloseLoop, BeginExit, vars, core, registry, caller
  <2> QED BY <2>1, PromiseStutter
<1>10. "answer" \in Settled /\ "timeout" \in Settled
  BY DEF Settled
<1> QED BY <1>1, <1>2, <1>3, <1>4, <1>5, <1>6, <1>7, <1>8, <1>9, <1>10
        DEF Next, GuardExpires, CancelCaller, CppAnswer, CppExpire

\* async_request keeps its promise, for every instance of the bridge.
THEOREM Implements == Spec => PromiseSpec
<1>1. Init => Promise!Init
  BY ConstantsAssumption DEF Init, Promise!Init, OutcomeBar, StateBar, Settled,
                             ConstantsAssumption
<1> QED BY <1>1, PromiseStep, Invariance, ConstantsAssumption, PTL
        DEF Spec, PromiseSpec, Promise!Spec
=============================================================================
