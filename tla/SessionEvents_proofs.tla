--------------------------- MODULE SessionEvents_proofs ---------------------------
(***************************************************************************)
(* Proofs about Session, on top of those about order: the events of an     *)
(* incoming stream find the handlers that the stream's own handler         *)
(* registers.                                                              *)
(***************************************************************************)
EXTENDS SessionOrder_proofs

-----------------------------------------------------------------------------
(* What a step does to programs and to registrations. *)

\* The handler of a stream goes on by one instruction, and returns at its end.
Advances ==
  \A m \in Msgs : Opener(m) =>
    /\ \/ at'[m] = at[m]
       \/ at'[m] = at[m] + 1 /\ (Reached(m, "register") => Register(m))
    /\ run'[m] = "returned" => run[m] = "returned" \/ (at[m] > Len(Code(m)) /\ at'[m] = at[m])
Binds == \/ UNCHANGED bound /\ attached \subseteq attached'
         \/ \E f \in Frames : Register(f)

LEMMA Lengths ==
  ASSUME Assumptions, NEW f \in Frames PROVE Len(Code(f)) \in Nat
<1>1. (IF f \in Mains THEN f ELSE HandlerOf[f]) \in DOMAIN Body
  BY DEF Assumptions, ConstantsAssumption, Frames
<1> QED BY <1>1 DEF Assumptions, ProgramsAssumption, Code

\* It reaches no "return".
LEMMA OpenerOn ==
  ASSUME Assumptions, TypeOK, Positive, NEW m \in Msgs, Opener(m)
  PROVE  ~Reached(m, "return") /\ Cleanup(m) = {}
<1>1. m \in Frames /\ Len(Code(m)) \in Nat /\ at[m] \in Nat /\ at[m] >= 1
  BY Lengths DEF Frames, TypeOK, Positive
<1>2. \A i \in at[m]..Len(Code(m)) : i \in 1..Len(Code(m))
  BY <1>1
<1>3. Cleanup(m) = {}
  BY <1>2 DEF Cleanup, Opener, Verb
<1>4. ~Reached(m, "return")
  <2>1. at[m] <= Len(Code(m)) => at[m] \in 1..Len(Code(m))
    BY <1>1
  <2> QED BY <2>1 DEF Reached, Opener, Verb
<1> QED BY <1>3, <1>4

\* One frame moves, and no program but its own.
LEMMA OneAdvances ==
  ASSUME Assumptions, TypeOK, NEW f \in Frames, NEW s, Become(f, s) \/ UNCHANGED run,
         s = "returned" => at[f] > Len(Code(f)) /\ UNCHANGED at,
         \/ UNCHANGED at
         \/ Next1(f) /\ (Reached(f, "register") => Register(f))
  PROVE  Advances
<1>0. /\ run \in [Frames -> {"new"} \cup Alive \cup Over] /\ at \in [Frames -> Nat]
      /\ Msgs \subseteq Frames
  BY DEF TypeOK, Frames
<1> SUFFICES ASSUME NEW m \in Msgs
             PROVE  /\ \/ at'[m] = at[m]
                       \/ at'[m] = at[m] + 1 /\ (Reached(m, "register") => Register(m))
                    /\ run'[m] = "returned" =>
                         run[m] = "returned" \/ (at[m] > Len(Code(m)) /\ at'[m] = at[m])
  BY DEF Advances
<1>1. CASE m = f
  BY <1>0, <1>1 DEF Become, Next1
<1>2. CASE m # f
  BY <1>0, <1>2 DEF Become, Next1
<1> QED BY <1>1, <1>2

LEMMA EndAdvances ==
  ASSUME Assumptions, TypeOK, Positive, NEW f \in Frames, NEW how, End(f, how),
         how = "returned" => at[f] > Len(Code(f)) \/ Reached(f, "return")
  PROVE  Advances /\ Binds
<1>1. run' = [run EXCEPT ![f] = how] /\ UNCHANGED <<at, attached, bound>>
  BY DEF End, Become, binding
<1>2. \A m \in Msgs : Opener(m) => ~Reached(m, "return")
  BY OpenerOn
<1>3. /\ run \in [Frames -> {"new"} \cup Alive \cup Over] /\ Msgs \subseteq Frames
  BY DEF TypeOK, Frames
<1>4. Advances
  <2> SUFFICES ASSUME NEW m \in Msgs, Opener(m), run'[m] = "returned", run[m] # "returned"
               PROVE  at[m] > Len(Code(m))
    BY <1>1 DEF Advances
  <2> QED BY <1>1, <1>2, <1>3
<1> QED BY <1>1, <1>4 DEF Binds

LEMMA RaiseAdvances ==
  ASSUME Assumptions, TypeOK, Positive, NEW f \in Frames, Raise(f)
  PROVE  Advances /\ Binds
<1>1. CASE Cleanup(f) = {}
  BY <1>1, EndAdvances DEF Raise
<1>2. CASE Cleanup(f) # {}
  <2>1. /\ \E i : at' = [at EXCEPT ![f] = i]
        /\ \E s \in {"direct", "running"} : run' = [run EXCEPT ![f] = s]
        /\ UNCHANGED <<attached, bound>>
    BY <1>2 DEF Raise, Become, binding
  <2>2. \A m \in Msgs : Opener(m) => m # f
    BY <1>2, OpenerOn
  <2>3. /\ run \in [Frames -> {"new"} \cup Alive \cup Over] /\ at \in [Frames -> Nat]
        /\ Msgs \subseteq Frames
    BY DEF TypeOK, Frames
  <2> QED BY <2>1, <2>2, <2>3 DEF Advances, Binds
<1> QED BY <1>1, <1>2

LEMMA FrameAdvances ==
  ASSUME Assumptions, TypeOK, Positive, NEW f \in Frames,
         \/ Return(f) \/ Send(f) \/ Write(f) \/ SendFails(f) \/ AsyncRequest(f)
         \/ SyncRequest(f) \/ SetEvent(f) \/ Await(f) \/ Register(f) \/ Attach(f)
         \/ Start(f) \/ Connect(f) \/ StopBegins(f) \/ StopEnds(f)
         \/ Resume(f) \/ ResumeTimedOut(f) \/ Unblock(f) \/ WaitExpires(f)
  PROVE  Advances /\ Binds
<1>0. Assumptions /\ TypeOK /\ Positive
  OBVIOUS
<1>1. \A v, w : Reached(f, v) /\ Reached(f, w) => v = w
  BY DEF Reached
<1>2. CASE Return(f)
  <2>1. CASE \E how : End(f, how) /\ how # "returned"
    BY <1>0, <2>1, EndAdvances
  <2>2. CASE End(f, "returned") /\ (at[f] > Len(Code(f)) \/ Reached(f, "return"))
    BY <1>0, <2>2, EndAdvances
  <2>3. CASE Raise(f)
    BY <1>0, <2>3, RaiseAdvances
  <2> QED BY <1>2, <2>1, <2>2, <2>3 DEF Return
<1>3. CASE Raise(f)
  BY <1>3, RaiseAdvances
<1>4. ASSUME NEW v, v # "register", Does(f, v) \/ Reached(f, v), Next1(f) \/ UNCHANGED at,
             NEW s \in {"awake", "awaiting", "blocked", "running"}, Become(f, s) \/ UNCHANGED run,
             UNCHANGED bound, attached \subseteq attached'
      PROVE  Advances /\ Binds
  <2>1. ~Reached(f, "register")
    BY <1>1, <1>4 DEF Does
  <2> QED BY <1>4, <2>1, OneAdvances DEF Binds
<1>5. CASE Send(f) \/ Write(f)
  BY <1>4, <1>5 DEF Send, Write, binding
<1>6. CASE AsyncRequest(f) \/ SyncRequest(f)
  BY <1>3, <1>4, <1>6 DEF AsyncRequest, SyncRequest, Ask, binding
<1>7. CASE SetEvent(f) \/ Attach(f) \/ Start(f) \/ Connect(f)
  BY <1>4, <1>7 DEF SetEvent, Attach, Start, Connect, binding
<1>8. CASE Await(f)
  BY <1>4, <1>8 DEF Await, binding
<1>9. CASE Register(f)
  <2>1. Advances
    <3>1. Next1(f) /\ UNCHANGED run /\ "running" # "returned"
      BY <1>9 DEF Register
    <3> QED BY <1>0, <1>9, <3>1, OneAdvances
  <2> QED BY <1>9, <2>1 DEF Binds
<1>10. CASE StopBegins(f) \/ StopEnds(f)
  BY <1>3, <1>4, <1>10 DEF StopBegins, StopEnds, binding
<1>11. CASE Resume(f)
  <2>1. CASE UNCHANGED at
    BY <1>11, <2>1, OneAdvances DEF Resume, Enter, LoopFrame, binding, Binds
  <2>2. CASE Next1(f) /\ (Reached(f, "async_request") \/ Reached(f, "wait"))
    BY <1>4, <1>11, <2>2 DEF Resume, Enter, LoopFrame, binding
  <2> QED BY <1>11, <2>1, <2>2 DEF Resume
<1>12. CASE Unblock(f)
  BY <1>3, <1>4, <1>12 DEF Unblock, LoopFrame, binding
<1>13. CASE WaitExpires(f)
  BY <1>3, <1>4, <1>13 DEF WaitExpires, Enter, LoopFrame, binding
<1>14. CASE SendFails(f) \/ ResumeTimedOut(f)
  BY <1>3, <1>14 DEF SendFails, ResumeTimedOut
<1> QED BY <1>2, <1>5, <1>6, <1>7, <1>8, <1>9, <1>10, <1>11, <1>12, <1>13, <1>14

LEMMA ProgramStep ==
  ASSUME Assumptions, SafeInv, [Next]_vars
  PROVE  Advances /\ Binds
<1>0. TypeOK /\ Positive /\ Msgs \subseteq Frames
  BY DEF SafeInv, Positive, Frames
<1>1. ASSUME UNCHANGED <<run, at, attached, bound>> PROVE Advances /\ Binds
  BY <1>1 DEF Advances, Binds
<1>2. ASSUME NEW f \in Frames, NEW s, s # "returned", Become(f, s), UNCHANGED <<at, attached, bound>>
      PROVE  Advances /\ Binds
  BY <1>0, <1>2, OneAdvances DEF Binds
<1>3. ASSUME NEW m \in Msgs, CancelTask(m) PROVE Advances /\ Binds
  BY <1>0, <1>3, EndAdvances, RaiseAdvances DEF CancelTask
<1>4. ASSUME NEW e \in Ends, AcceptLoopRuns(e) \/ TakeResponse(e) \/ ResultArrives(e) \/ ResultExpires(e)
      PROVE  Advances /\ Binds
  BY <1>1, <1>4 DEF AcceptLoopRuns, TakeResponse, ResultArrives, ResultExpires, binding
<1>5. ASSUME NEW e \in Ends, TakeInVain(e) \/ TakeCoroutine(e) \/ TakeSync(e)
      PROVE  Advances /\ Binds
  <2>1. Takes(e, "call")
    BY <1>5 DEF TakeInVain, TakeCoroutine, TakeSync
  <2>2. Taken(e) \in Frames
    BY <1>0, <2>1, Taking
  <2> QED BY <1>2, <1>5, <2>2 DEF TakeInVain, TakeCoroutine, TakeSync, binding
<1>6. CASE StartTask
  <2>1. Head(ready) \in Frames
    BY <1>0, <1>6 DEF TypeOK, StartTask
  <2> QED BY <1>2, <1>6, <2>1 DEF StartTask, Enter, LoopFrame, binding
<1>7. ASSUME NEW r \in Msgs, RequestExpires(r) PROVE Advances /\ Binds
  BY <1>1, <1>7 DEF RequestExpires, binding
<1>8. CASE LoseSession \/ UNCHANGED vars
  BY <1>1, <1>8 DEF LoseSession, vars, binding
<1>9. CASE Step
  BY <1>0, <1>3, <1>4, <1>5, <1>6, <1>9, FrameAdvances DEF Step
<1>10. CASE Expire
  BY <1>0, <1>4, <1>7, <1>10, FrameAdvances DEF Expire
<1> QED BY <1>8, <1>9, <1>10 DEF Next, Goes

-----------------------------------------------------------------------------
(* Who is registered. *)

\* What a step starts is a message that an I/O thread takes from its inbox, or
\* one that the loop has in its queue.
LEMMA StartedFrom ==
  ASSUME Assumptions, SafeInv, OrderInv, [Next]_vars, NEW m \in Msgs, run[m] = "new", run'[m] # "new"
  PROVE  OnWire(m)
<1>0. TypeOK /\ WireInv /\ Quiet /\ SentFirst /\ run \in [Frames -> {"new"} \cup Alive \cup Over]
  BY DEF SafeInv, OrderInv, SentInv, Quiet, SentFirst, TypeOK
<1>1. CASE Plain
  BY <1>1 DEF Plain, Moves
<1>2. ASSUME NEW e \in Ends, TakeInVain(e) \/ TakeCoroutine(e) \/ TakeSync(e)
      PROVE  OnWire(m)
  <2>1. Takes(e, "call") /\ UNCHANGED sent /\ \E s : Become(Taken(e), s)
    BY <1>2 DEF TakeInVain, TakeCoroutine, TakeSync
  <2>2. m = Taken(e)
    BY <1>0, <2>1 DEF Become, Frames
  <2> QED BY <1>0, <2>1, <2>2, CallTaken
<1>3. CASE StartTask
  <2>1. m = Head(ready) /\ ready \in Seq(Msgs) /\ ready # <<>>
    BY <1>0, <1>3 DEF StartTask, Enter, Become, TypeOK, Frames
  <2>2. In(ready, m)
    <3>1. 1 \in 1..Len(ready) /\ ready[1] = Head(ready)
      BY <2>1
    <3> QED BY <2>1, <3>1 DEF In
  <2> QED BY <2>2 DEF OrderInv, PlaceInv
<1> QED BY <1>0, <1>1, <1>2, <1>3, PlainStep DEF Started

\* A registration gives the handler to the loop where the endpoint has one.
LEMMA RegisterBinds ==
  ASSUME Assumptions, SafeInv, BindingInv, NEW f \in Frames, Register(f)
  PROVE  /\ attached \subseteq attached'
         /\ \A n \in Msgs :
              /\ bound'[HandlerOf[n]] = "loop" => To[n] \in attached'
              /\ bound[HandlerOf[n]] = "loop" => bound'[HandlerOf[n]] = "loop"
              /\ HandlerOf[n] = Arg(f).h /\ To[n] \in attached' => bound'[HandlerOf[n]] = "loop"
              /\ HandlerOf[n] = Arg(f).h /\ run[f] = "running" => To[n] \in attached'
<1>1. Fits(Code(f)[at[f]]) /\ Code(f)[at[f]].do = "register"
  <2>1. Reached(f, "register") /\ TypeOK /\ Positive
    BY DEF Register, Does, SafeInv, Positive
  <2> QED BY <2>1, Arguments
<1>2. /\ Arg(f).h \in Handlers /\ \A n \in Msgs : HandlerOf[n] = Arg(f).h => To[n] = Arg(f).e
      /\ \A n \in Msgs : HandlerOf[n] \in Handlers
      /\ bound \in [Handlers -> {"none", "direct", "loop"}]
  BY <1>1 DEF Fits, Arg, Assumptions, ConstantsAssumption, SafeInv, TypeOK
<1>3. /\ attached' = IF run[f] = "running" THEN attached \cup {Arg(f).e} ELSE attached
      /\ bound' = [bound EXCEPT ![Arg(f).h] = IF Arg(f).e \in attached' THEN "loop" ELSE "direct"]
  BY DEF Register
<1>4. bound'[Arg(f).h] = (IF Arg(f).e \in attached' THEN "loop" ELSE "direct")
      /\ \A h \in Handlers : h # Arg(f).h => bound'[h] = bound[h]
  BY <1>2, <1>3
<1>5. attached \subseteq attached' /\ (run[f] = "running" => Arg(f).e \in attached')
  BY <1>3
<1>6. \A n \in Msgs : bound[HandlerOf[n]] = "loop" => To[n] \in attached
  BY DEF BindingInv
<1>7. ASSUME NEW n \in Msgs
      PROVE  /\ bound'[HandlerOf[n]] = "loop" => To[n] \in attached'
             /\ bound[HandlerOf[n]] = "loop" => bound'[HandlerOf[n]] = "loop"
             /\ HandlerOf[n] = Arg(f).h /\ To[n] \in attached' => bound'[HandlerOf[n]] = "loop"
             /\ HandlerOf[n] = Arg(f).h /\ run[f] = "running" => To[n] \in attached'
  <2>1. CASE HandlerOf[n] = Arg(f).h
    BY <1>2, <1>4, <1>5, <1>6, <2>1
  <2>2. CASE HandlerOf[n] # Arg(f).h
    BY <1>2, <1>4, <1>5, <1>6, <2>2
  <2> QED BY <2>1, <2>2
<1> QED BY <1>5, <1>7

LEMMA BindingStep ==
  ASSUME Assumptions, SafeInv, OrderInv, AttachedInTime, BindingInv, [Next]_vars
  PROVE  BindingInv'
<1>0. /\ Advances /\ Binds /\ ThreadInv
      /\ \A m \in Msgs : m \in Frames /\ Len(Code(m)) \in Nat /\ at[m] \in Nat
  BY ProgramStep, Lengths DEF SafeInv, TypeOK, Frames
<1>1. /\ attached \subseteq attached'
      /\ \A n \in Msgs :
           /\ bound'[HandlerOf[n]] = "loop" => To[n] \in attached'
           /\ bound[HandlerOf[n]] = "loop" => bound'[HandlerOf[n]] = "loop"
  <2>1. CASE UNCHANGED bound /\ attached \subseteq attached'
    BY <2>1 DEF BindingInv
  <2> QED BY <1>0, <2>1, RegisterBinds DEF Binds
<1>2. ASSUME NEW m \in Msgs, Opener(m), run'[m] # "new", HandlerOf[m] \notin Coroutines
      PROVE  To[m] \in attached
  <2>1. CASE run[m] # "new"
    BY <1>2, <2>1 DEF BindingInv
  <2>2. CASE run[m] = "new"
    <3>1. OnWire(m)
      BY <1>2, <2>2, StartedFrom
    <3> QED BY <1>2, <3>1 DEF AttachedInTime, OnWire, In
  <2> QED BY <2>1, <2>2
<1>3. ASSUME NEW m \in Msgs, Opener(m), run'[m] = "returned" PROVE at'[m] > Len(Code(m))
  <2>1. CASE run[m] = "returned"
    <3>1. at[m] > Len(Code(m))
      BY <1>3, <2>1 DEF BindingInv
    <3> QED BY <1>0, <1>3, <3>1 DEF Advances
  <2>2. CASE at[m] > Len(Code(m)) /\ at'[m] = at[m]
    BY <2>2
  <2> QED BY <1>0, <1>3, <2>1, <2>2 DEF Advances
<1>4. ASSUME NEW m \in Msgs, Opener(m), NEW n \in Msgs, NEW i \in 1..Len(Code(m)),
             i < at'[m], Registers(m, i, n), To[m] = To[n]
      PROVE  bound'[HandlerOf[n]] = "loop"
  <2>1. CASE i < at[m]
    BY <1>1, <1>4, <2>1 DEF BindingInv
  <2>2. CASE i = at[m] /\ (Reached(m, "register") => Register(m))
    <3>1. Register(m) /\ Arg(m).h = HandlerOf[n]
      BY <1>0, <1>4, <2>2 DEF Registers, Verb, Reached, Arg
    <3>2. CASE run[m] = "running"
      BY <1>0, <1>4, <3>1, <3>2, RegisterBinds
    <3>3. CASE run[m] = "direct"
      <4>1. HandlerOf[m] \notin Coroutines
        BY <1>0, <3>3 DEF ThreadInv
      <4>2. To[n] \in attached
        BY <1>4, <3>3, <4>1 DEF BindingInv
      <4> QED BY <1>0, <1>1, <1>4, <3>1, <4>2, RegisterBinds
    <3> QED BY <3>1, <3>2, <3>3 DEF Register, Does
  <2>3. i < at[m] \/ (i = at[m] /\ (Reached(m, "register") => Register(m)))
    BY <1>0, <1>4 DEF Advances
  <2> QED BY <2>1, <2>2, <2>3
<1>5. ASSUME NEW m \in Msgs, Opener(m)
      PROVE  /\ run'[m] # "new" /\ HandlerOf[m] \notin Coroutines => To[m] \in attached'
             /\ run'[m] = "returned" => at'[m] > Len(Code(m))
             /\ \A n \in Msgs, i \in 1..Len(Code(m)) :
                  i < at'[m] /\ Registers(m, i, n) /\ To[m] = To[n] => bound'[HandlerOf[n]] = "loop"
  BY <1>1, <1>2, <1>3, <1>4, <1>5
<1> QED BY <1>1, <1>5 DEF BindingInv, Opener, Registers, Verb, Code, Decorator

-----------------------------------------------------------------------------
(* Events and their handlers. *)

LEMMA EventStep ==
  ASSUME Assumptions, SafeInv, OrderInv, BindingInv, NoEventLost, [Next]_vars
  PROVE  NoEventLost'
<1>0. /\ TypeOK /\ WireInv /\ Quiet /\ SentFirst /\ OrderInv'
      /\ run \in [Frames -> {"new"} \cup Alive \cup Over] /\ Msgs \subseteq Frames
      /\ {"returned", "dropped", "lost"} \subseteq Over /\ "queued" \notin Over /\ "new" \notin Over
      /\ {"dropped", "lost"} \subseteq Unstarted
  BY OrderStep DEF SafeInv, OrderInv, SentInv, Quiet, SentFirst, TypeOK, Frames, Over, Unstarted
<1> SUFFICES ASSUME NEW m \in Msgs, NEW n \in Msgs, run'[n] \in {"dropped", "lost"},
                    Ahead(m, n)', Opens(m, n), run'[m] \notin Over \ {"returned"}, m \notin late'
             PROVE  FALSE
  BY DEF NoEventLost, Opens, Opener, Registers, Verb, Code, Decorator
\* The I/O thread has waited for m.
<1>1. run'[m] = "returned"
  <2>1. WaitedFor(m) /\ Once(m)' /\ run'[n] # "new"
    BY DEF WaitedFor, Opens, Opener, Waits, Ahead
  <2>2. run'[m] \in Over \/ m \in late'
    BY <1>0, <2>1 DEF OrderInv, WaitInv, WaitedFor, Decorator
  <2> QED BY <2>2
\* So m has registered the handler of n, if it ended before this step.
<1>2. run[m] = "returned" => bound[HandlerOf[n]] = "loop"
  <2>1. PICK i \in 1..Len(Code(m)) : Registers(m, i, n)
    BY DEF Opens
  <2>2. at[m] \in Nat /\ Len(Code(m)) \in Nat /\ To[m] = To[n]
    BY <1>0, Lengths DEF TypeOK, Ahead
  <2>3. run[m] = "returned" => i < at[m]
    BY <2>2 DEF BindingInv, Opens
  <2> QED BY <2>1, <2>2, <2>3 DEF BindingInv, Opens
<1>3. ASSUME run[n] \in {"dropped", "lost"}, late \subseteq late',
             Ahead(m, n), run[m] \in Over => run'[m] = run[m]
      PROVE  FALSE
  <2>1. WaitedFor(m) /\ Once(m) /\ run[n] # "new"
    BY <1>3 DEF WaitedFor, Opens, Opener, Waits, Ahead
  <2>2. run[m] \in Over
    BY <1>3, <2>1 DEF OrderInv, WaitInv
  <2> QED BY <1>1, <1>3, <2>2 DEF NoEventLost
<1>4. CASE Plain
  <2>1. run'[n] = run[n] /\ (run[m] \in Over => run'[m] = run[m]) /\ late \subseteq late'
    BY <1>0, <1>4 DEF Plain, Moves
  <2>2. Ahead(m, n)
    <3>1. Sent(n)
      BY <1>0, <2>1 DEF SentFirst
    <3> QED BY <1>4, <3>1 DEF Plain, WireMoves, WireKept, WireLost, WireCall
  <2> QED BY <1>3, <2>1, <2>2
<1>5. ASSUME NEW e \in Ends, TakeInVain(e) \/ TakeCoroutine(e) \/ TakeSync(e)
      PROVE  FALSE
  <2>1. /\ Takes(e, "call") /\ UNCHANGED <<sent, late>> /\ Taken(e) \in Msgs
        /\ \E s \in {"dropped", "lost", "queued", "direct"} :
             Become(Taken(e), s) /\ (s \in {"dropped", "lost"} => TakeInVain(e))
    <3>1. Takes(e, "call") /\ UNCHANGED <<sent, late>>
      BY <1>5 DEF TakeInVain, TakeCoroutine, TakeSync, loopVars
    <3>2. Taken(e) \in Msgs
      BY <1>0, <3>1, Taking
    <3> QED BY <1>5, <3>1, <3>2 DEF TakeInVain, TakeCoroutine, TakeSync
  <2>2. Ahead(m, n)
    BY <1>0, <2>1, CallTaken
  <2>3. run[m] = "returned" /\ m # Taken(e)
    BY <1>0, <1>1, <2>1 DEF Become
  <2>4. CASE n = Taken(e)
    <3>1. TakeInVain(e)
      BY <1>0, <2>1, <2>4 DEF Become
    <3> QED BY <1>2, <2>3, <2>4, <3>1 DEF TakeInVain
  <2>5. CASE n # Taken(e)
    <3>1. run[n] = run'[n] /\ run'[m] = run[m]
      BY <1>0, <2>1, <2>3, <2>5 DEF Become
    <3> QED BY <1>3, <2>1, <2>2, <3>1
  <2> QED BY <2>4, <2>5
<1>6. CASE StartTask
  <2>1. /\ UNCHANGED <<sent, late>> /\ Head(ready) \in Frames /\ Become(Head(ready), "running")
    <3>1. Head(ready) \in Msgs
      BY <1>0, <1>6 DEF StartTask, TypeOK
    <3> QED BY <1>0, <1>6, <3>1 DEF StartTask, Enter, LoopFrame, wire
  <2>2. m # Head(ready) /\ n # Head(ready)
    BY <1>0, <1>1, <2>1 DEF Become
  <2>3. run'[m] = run[m] /\ run'[n] = run[n]
    BY <1>0, <2>1, <2>2 DEF Become
  <2> QED BY <1>3, <2>1, <2>3, Same
<1> QED BY <1>0, <1>4, <1>5, <1>6, PlainStep DEF Started

\* No event of an incoming stream finds its handler missing, unless the wait for
\* the stream's own handler ran out: for any programs whose synchronous stream
\* handlers run where their endpoint has a loop.
THEOREM EventsFindHandlers == Spec /\ []AttachedInTime => []NoEventLost
<1>0. Assumptions
  BY ConstantsAssumption, ProgramsAssumption DEF Assumptions
<1>1. Init => BindingInv /\ NoEventLost
  <2> SUFFICES ASSUME Init PROVE BindingInv /\ NoEventLost
    OBVIOUS
  <2>1. /\ \A m \in Msgs : run[m] = "new" /\ at[m] = 1 /\ HandlerOf[m] \in Handlers
        /\ \A h \in Handlers : bound[h] # "loop"
    BY <1>0 DEF Init, Assumptions, ConstantsAssumption, Frames
  <2>2. \A m \in Msgs : \A i \in 1..Len(Code(m)) : ~(i < at[m])
    BY <2>1
  <2>3. BindingInv
    BY <2>1, <2>2 DEF BindingInv
  <2> QED BY <2>1, <2>3 DEF NoEventLost
<1>2. IInv /\ AttachedInTime /\ (BindingInv /\ NoEventLost) /\ [Next]_vars => (BindingInv /\ NoEventLost)'
  BY <1>0, BindingStep, EventStep DEF IInv
<1> QED BY <1>1, <1>2, Invariance, PTL DEF Spec

\* Coroutines need no such hypothesis: the loop that runs one is adopted by the
\* decorators it calls.
THEOREM CoroutinesKeepEvents == ASSUME CoroutineOpeners PROVE Spec => []NoEventLost
<1>1. AttachedInTime
  BY DEF AttachedInTime, CoroutineOpeners
<1> QED BY <1>1, EventsFindHandlers, PTL
====
