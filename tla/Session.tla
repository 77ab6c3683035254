------------------------------- MODULE Session -------------------------------
(***************************************************************************)
(* One session of two endpoints of ObscuraProto/__init__.py, a Server and  *)
(* a Client, put together: the application's coroutines and the handlers   *)
(* it registers, as the programs they are, run on one event loop and on    *)
(* the I/O thread of each endpoint.  An I/O thread takes the messages of   *)
(* its endpoint one by one; it runs synchronous handlers itself, hands     *)
(* coroutines to the loop, and waits for those that must answer.           *)
(*                                                                         *)
(* What CallbackDispatcher, AwaitCppFuture and StreamExecutor model in     *)
(* detail is one step here: a poll, a fetch, an ordered write.             *)
(***************************************************************************)
EXTENDS Naturals, Sequences

CONSTANTS
  Server, Client, \* the two endpoints
  Mains,          \* coroutines of the application, from the start on the loop
  Scenes,         \* [mains: those there are, early: the handlers registered
                  \* before the loop runs, patient: limits run out only where
                  \* nothing else can happen, lossy: the session may be lost]
  Msgs,           \* messages: requests, payloads, stream events, core events
  To,             \* the endpoint that receives each
  HandlerOf,      \* the handler that each is for
  Handlers,
  Registration,   \* the decorator that registers each: "on_request", ...
  Coroutines,     \* the handlers that are coroutine functions
  Body,           \* the program of each main and each handler
  Ready,          \* the message of on_ready
  Nobody

Ends   == {Server, Client}
Frames == Mains \cup Msgs
Peer(e) == IF e = Server THEN Client ELSE Server

Code(f) == Body[IF f \in Mains THEN f ELSE HandlerOf[f]]
Verbs == {"start", "connect", "stop", "attach", "register", "send", "write",
          "async_request", "sync_request", "set", "wait", "sleep",
          "reply", "reply_error", "raise", "return"}

ASSUME ConstantsAssumption ==
  /\ Server # Client /\ Mains \cap Msgs = {} /\ Nobody \notin Frames
  /\ To \in [Msgs -> Ends] /\ HandlerOf \in [Msgs -> Handlers]
  /\ Coroutines \subseteq Handlers /\ DOMAIN Body = Mains \cup Handlers
  /\ Ready \in Msgs /\ To[Ready] = Client
  /\ Scenes \subseteq [mains : SUBSET Mains, early : SUBSET Handlers, patient : BOOLEAN, lossy : BOOLEAN]

VARIABLES
  scene,     \* one of Scenes
  up,        \* each endpoint: "new", "starting", "up", "stopping", "hung" or "down"
  session,   \* "none", "open" or "closed"
  inbox,     \* what each I/O thread has to take, in order
  sent,      \* history: what was put on the wire to each endpoint, in order
  io,        \* the message each I/O thread is in
  run,       \* where each frame is: on the loop, on its I/O thread, ended
  at,        \* the instruction it has come to
  ready,     \* coroutines handed to the loop and not started
  late,      \* those whose I/O thread has given up
  attached,  \* endpoints whose dispatcher has a loop
  bound,     \* each handler: "none", "direct" (wrapped without a loop), "loop"
  asked,     \* the outcome of each request for its caller
  events,    \* asyncio events that are set
  noticed,   \* those whose waiters the loop has seen
  begun      \* history: messages whose handlers have begun, in order

wire == <<session, inbox, sent>>
loopVars == <<ready, late>>
binding == <<attached, bound>>
flags == <<events, noticed>>
vars == <<scene, up, wire, io, run, at, loopVars, binding, asked, flags, begun>>

Alive == {"queued", "awake", "awaiting", "running", "blocked", "direct"}
Over  == {"returned", "replied", "reply_error", "raised", "cancelled", "dropped", "lost"}

TypeOK ==
  /\ scene \in Scenes
  /\ up \in [Ends -> {"new", "starting", "up", "stopping", "hung", "down"}]
  /\ session \in {"none", "open", "closed"}
  /\ inbox \in [Ends -> Seq({"call", "response"} \X Msgs)]
  /\ sent \in [Ends -> Seq({"call", "response"} \X Msgs)]
  /\ io \in [Ends -> Msgs \cup {Nobody}]
  /\ run \in [Frames -> {"new"} \cup Alive \cup Over] /\ at \in [Frames -> Nat]
  /\ ready \in Seq(Msgs) /\ late \subseteq Msgs
  /\ attached \subseteq Ends /\ bound \in [Handlers -> {"none", "direct", "loop"}]
  /\ asked \in [Msgs -> {"none", "waiting", "answer", "error_payload", "timeout"}]
  /\ begun \in Seq(Msgs)

Init ==
  /\ scene \in Scenes /\ up = [e \in Ends |-> "new"] /\ session = "none"
  /\ inbox = [e \in Ends |-> <<>>] /\ sent = [e \in Ends |-> <<>>]
  /\ io = [e \in Ends |-> Nobody]
  /\ run = [f \in Frames |-> IF f \in scene.mains THEN "awake" ELSE "new"]
  /\ at = [f \in Frames |-> 1] /\ ready = <<>> /\ late = {}
  /\ attached = {} /\ bound = [h \in Handlers |-> IF h \in scene.early THEN "direct" ELSE "none"]
  /\ asked = [m \in Msgs |-> "none"]
  /\ events = {} /\ noticed = {} /\ begun = <<>>

-----------------------------------------------------------------------------
(* Which wrapper each decorator takes. *)

StreamDecorators == {"on_incoming_stream", "on_stream", "on_anon_stream"}
RequestDecorators == {"on_request", "on_anon_request"}
IdentityDecorator == {"on_client_identity"}

\* wrap_fire_and_forget.
ServerForgets == {"on_payload", "default_payload_handler"}
AnonForgets == {"on_anon_payload", "anon_default_payload_handler"}
ConnectionForgets == {"on_open", "on_close"}
ClientForgets == {"on_ready", "on_disconnect"}
StreamForgets == {"on_data", "on_end", "on_cancel"}

\* mutant: incoming streams are dispatched like payloads.
WaitsLess == RequestDecorators \cup IdentityDecorator
\* mutant: payloads are dispatched like requests.
WaitsMore == StreamDecorators \cup RequestDecorators \cup IdentityDecorator \cup ServerForgets

\* wrap and wrap_identity: the I/O thread waits for the coroutine.
Waits == StreamDecorators \cup RequestDecorators \cup IdentityDecorator

\* What a client has of them.
ClientStreams == {"on_incoming_stream", "on_stream"}
ClientRequests == {"on_request"}
ClientPayloads == {"on_payload", "default_payload_handler"}

Offered(e) ==
  StreamForgets \cup
  IF e = Client THEN ClientStreams \cup ClientRequests \cup ClientPayloads \cup ClientForgets
  ELSE StreamDecorators \cup RequestDecorators \cup IdentityDecorator
       \cup ServerForgets \cup AnonForgets \cup ConnectionForgets

Decorator(m) == Registration[HandlerOf[m]]
IsRequest(m) == Decorator(m) \in RequestDecorators
Identity(m) == Decorator(m) \in IdentityDecorator

Fits(i) ==
  /\ i.do \in Verbs
  /\ i.do \in {"send", "write", "connect"} => i.x \in Msgs /\ ~IsRequest(i.x)
  /\ i.do \in {"async_request", "sync_request"} => i.x \in Msgs /\ IsRequest(i.x)
  /\ i.do \in {"start", "stop", "attach"} => i.x \in Ends
  /\ i.do = "register" => /\ i.x.e \in Ends /\ i.x.h \in Handlers
                          /\ \A m \in Msgs : HandlerOf[m] = i.x.h => To[m] = i.x.e

ASSUME ProgramsAssumption ==
  /\ \A m \in Msgs : Decorator(m) \in Offered(To[m])
  /\ ~IsRequest(Ready)
  /\ \A b \in DOMAIN Body :
       Len(Body[b]) \in Nat /\ \A n \in 1..Len(Body[b]) : Fits(Body[b][n])

-----------------------------------------------------------------------------
(* Running a frame: on the loop ("running") or on an I/O thread ("direct"). *)

LoopFree == \A f \in Frames : run[f] \notin {"running", "blocked"}
Reached(f, verb) == at[f] <= Len(Code(f)) /\ Code(f)[at[f]].do = verb
Does(f, verb) == run[f] \in {"running", "direct"} /\ Reached(f, verb)
Arg(f) == Code(f)[at[f]].x
Next1(f) == at' = [at EXCEPT ![f] = @ + 1]
Become(f, s) == run' = [run EXCEPT ![f] = s]

\* Whatever the loop executes makes it serve what was scheduled on it, also by
\* a thread that did not wake it up.
Notice(f) == noticed' = IF run[f] = "direct" THEN noticed ELSE events'

Deliver(e, what, m) == /\ inbox' = [inbox EXCEPT ![e] = Append(@, <<what, m>>)]
                       /\ sent' = [sent EXCEPT ![e] = Append(@, <<what, m>>)]

\* The core's side of a handler's result: the response, or a session that the
\* identity handler has accepted.
Conclude(m, how) ==
  IF IsRequest(m) /\ how \in {"replied", "reply_error"} /\ session = "open"
  THEN Deliver(Peer(To[m]), "response", m) /\ UNCHANGED session
  ELSE IF Identity(m) /\ how = "replied" /\ session = "none"
  THEN Deliver(Client, "call", Ready) /\ session' = "open"
  ELSE UNCHANGED wire

End(f, how) ==
  /\ Become(f, how)
  /\ IF run[f] = "direct" THEN io' = [io EXCEPT ![To[f]] = Nobody] /\ Conclude(f, how)
     ELSE UNCHANGED <<io, wire>>
  /\ UNCHANGED <<up, at, loopVars, binding, asked, events, begun>> /\ Notice(f)

\* An exception goes through f.  What follows "return" in a program is what its
\* async with blocks do with one.
Cleanup(f) == {i \in at[f]..Len(Code(f)) : Code(f)[i].do = "return"}
Raise(f) ==
  IF Cleanup(f) = {} THEN End(f, "raised")
  ELSE /\ at' = [at EXCEPT ![f] = 1 + CHOOSE i \in Cleanup(f) : TRUE]
       /\ Become(f, IF run[f] = "direct" THEN "direct" ELSE "running")
       /\ UNCHANGED <<up, wire, io, loopVars, binding, asked, events, begun>> /\ Notice(f)

\* The handler returns a Payload or True, cannot unpack its request, raises, or
\* returns nothing.
Return(f) ==
  \/ Does(f, "reply") /\ End(f, "replied")
  \/ Does(f, "reply_error") /\ End(f, "reply_error")
  \/ Does(f, "raise") /\ Raise(f)
  \/ /\ run[f] \in {"running", "direct"}
     /\ at[f] > Len(Code(f)) \/ Reached(f, "return")
     /\ End(f, "returned")

CanSend(m) == session = "open" /\ up[Peer(To[m])] = "up"

\* send, send_to_identity, send_anonymous; Stream.write, end, cancel.
Send(f) ==
  /\ Does(f, "send") /\ CanSend(Arg(f))
  /\ Deliver(To[Arg(f)], "call", Arg(f)) /\ Next1(f)
  /\ UNCHANGED <<up, session, io, run, loopVars, binding, asked, events, begun>>
  /\ Notice(f)

\* async_write, async_end, async_cancel: the single worker keeps the order, and
\* the coroutine goes on when it is done.
Write(f) ==
  /\ Does(f, "write") /\ run[f] = "running" /\ CanSend(Arg(f))
  /\ Deliver(To[Arg(f)], "call", Arg(f)) /\ Next1(f) /\ Become(f, "awake")
  /\ UNCHANGED <<up, session, io, loopVars, binding, asked, events, begun>>
  /\ Notice(f)

\* A binding raises where there is no session.
SendFails(f) ==
  /\ \E v \in {"send", "write", "async_request", "sync_request"} : Does(f, v)
  /\ ~CanSend(Arg(f)) /\ Raise(f)

\* A request of the model is one call.
Ask(f, s) ==
  /\ CanSend(Arg(f)) /\ asked[Arg(f)] = "none" /\ asked' = [asked EXCEPT ![Arg(f)] = "waiting"]
  /\ Deliver(To[Arg(f)], "call", Arg(f)) /\ Become(f, s)
  /\ UNCHANGED <<up, session, io, at, loopVars, binding, events, begun>>
  /\ Notice(f)

\* async_request and async_request_to_identity.
AsyncRequest(f) == Does(f, "async_request") /\ run[f] = "running" /\ Ask(f, "awaiting")

\* sync_request in a coroutine blocks the loop; on an I/O thread it is refused.
SyncRequest(f) ==
  /\ Does(f, "sync_request")
  /\ IF run[f] = "direct" THEN Raise(f) ELSE Ask(f, "blocked")

\* asyncio.Event: on an I/O thread set() does not wake the loop up, which sees
\* the event only if it was about to look.
SetEvent(f) ==
  /\ Does(f, "set") /\ events' = events \cup {Arg(f)} /\ Next1(f)
  /\ Notice(f) \/ noticed' = events'
  /\ UNCHANGED <<up, wire, io, run, loopVars, binding, asked, begun>>

Await(f) ==
  /\ run[f] = "running"
  /\ \/ Does(f, "sleep") /\ Become(f, "awaiting") /\ UNCHANGED at
     \/ /\ Does(f, "wait")
        /\ IF Arg(f) \in events THEN Next1(f) /\ UNCHANGED run
           ELSE Become(f, "awaiting") /\ UNCHANGED at
  /\ UNCHANGED <<up, wire, io, loopVars, binding, asked, events, begun>> /\ Notice(f)

\* A decorator, in a coroutine or in a handler: a dispatcher without a loop
\* adopts the running one, and the handler is wrapped for the loop of now.
Register(f) ==
  /\ Does(f, "register") /\ Next1(f)
  /\ attached' = IF run[f] = "running" THEN attached \cup {Arg(f).e} ELSE attached
  /\ bound' = [bound EXCEPT ![Arg(f).h] = IF Arg(f).e \in attached' THEN "loop" ELSE "direct"]
  /\ UNCHANGED <<up, wire, io, run, loopVars, asked, events, begun>> /\ Notice(f)

Attach(f) ==
  /\ Does(f, "attach") /\ Next1(f) /\ attached' = attached \cup {Arg(f)}
  /\ UNCHANGED <<up, wire, io, run, loopVars, bound, asked, events, begun>> /\ Notice(f)

-----------------------------------------------------------------------------
(* The endpoints' life (the core is external). *)

\* start; the accept loop runs a little later.
Start(f) ==
  /\ Does(f, "start") /\ up[Arg(f)] = "new"
  /\ up' = [up EXCEPT ![Arg(f)] = "starting"] /\ Next1(f)
  /\ UNCHANGED <<wire, io, run, loopVars, binding, asked, events, begun>> /\ Notice(f)

AcceptLoopRuns(e) ==
  /\ up[e] = "starting" /\ up' = [up EXCEPT ![e] = "up"]
  /\ UNCHANGED <<wire, io, run, at, loopVars, binding, asked, flags, begun>>

\* connect, and the handshake: with an identity, its handler decides.
Connect(f) ==
  /\ Does(f, "connect") /\ up[Client] = "new"
  /\ up' = [up EXCEPT ![Client] = "up"] /\ Next1(f)
  /\ IF up[Server] # "up" THEN UNCHANGED wire
     ELSE /\ Deliver(To[Arg(f)], "call", Arg(f))
          /\ session' = IF Arg(f) = Ready THEN "open" ELSE session
  /\ UNCHANGED <<io, run, loopVars, binding, asked, events, begun>> /\ Notice(f)

\* stop, disconnect: refused on an I/O thread.  In __aexit__ it blocks the loop
\* until the I/O thread is joined; a server whose accept loop does not run yet
\* may hang (README.md, Known Issues).
StopBegins(f) ==
  /\ Does(f, "stop")
  /\ IF run[f] = "direct" THEN Raise(f)
     ELSE /\ up' = [up EXCEPT ![Arg(f)] = IF @ = "starting" THEN "hung" ELSE "stopping"]
          /\ Become(f, "blocked")
          /\ UNCHANGED <<wire, io, at, loopVars, binding, asked, events, begun>>
          /\ Notice(f)

StopEnds(f) ==
  /\ run[f] = "blocked" /\ Reached(f, "stop")
  /\ up[Arg(f)] = "stopping" /\ io[Arg(f)] = Nobody
  /\ up' = [up EXCEPT ![Arg(f)] = "down"]
  /\ session' = IF session = "open" THEN "closed" ELSE session
  /\ Next1(f) /\ Become(f, "running") /\ noticed' = events
  /\ UNCHANGED <<inbox, sent, io, loopVars, binding, asked, events, begun>>

LoseSession ==
  /\ scene.lossy /\ session = "open" /\ session' = "closed"
  /\ inbox' = [e \in Ends |-> <<>>]
  /\ UNCHANGED <<sent, up, io, run, at, loopVars, binding, asked, flags, begun>>

-----------------------------------------------------------------------------
(* The I/O thread of endpoint e. *)

Takes(e, what) == /\ up[e] = "up" /\ io[e] = Nobody /\ inbox[e] # <<>>
                  /\ Head(inbox[e])[1] = what /\ inbox' = [inbox EXCEPT ![e] = Tail(@)]
Taken(e) == Head(inbox[e])[2]

\* mutant: a late answer is recorded.
TakeLate(e) ==
  /\ Takes(e, "response")
  /\ asked' = [asked EXCEPT ![Taken(e)] = IF @ = "waiting" THEN "answer" ELSE "late"]
  /\ UNCHANGED <<up, session, sent, io, run, at, loopVars, binding, flags, begun>>

\* The response settles the request, unless its limit ran out.
TakeResponse(e) ==
  /\ Takes(e, "response")
  /\ asked' = IF asked[Taken(e)] # "waiting" THEN asked ELSE
              [asked EXCEPT ![Taken(e)] = IF run[Taken(e)] = "replied" THEN "answer"
                                          ELSE "error_payload"]
  /\ UNCHANGED <<up, session, sent, io, run, at, loopVars, binding, flags, begun>>

\* No handler; or a coroutine that nothing runs: the core gets the coroutine
\* itself, identity_wrapper raises.
TakeInVain(e) ==
  /\ Takes(e, "call")
  /\ LET h == HandlerOf[Taken(e)] IN
     \/ bound[h] = "none" /\ Become(Taken(e), "dropped")
     \/ bound[h] = "direct" /\ h \in Coroutines /\ Become(Taken(e), "lost")
  /\ UNCHANGED <<up, session, sent, io, at, loopVars, binding, asked, flags, begun>>

\* run_coroutine_threadsafe, and the wait for the result where there is one.
TakeCoroutine(e) ==
  /\ Takes(e, "call")
  /\ HandlerOf[Taken(e)] \in Coroutines /\ bound[HandlerOf[Taken(e)]] = "loop"
  /\ Become(Taken(e), "queued") /\ ready' = Append(ready, Taken(e))
  /\ io' = IF Decorator(Taken(e)) \in Waits THEN [io EXCEPT ![e] = Taken(e)] ELSE io
  /\ UNCHANGED <<up, session, sent, at, late, binding, asked, flags, begun>>

TakeSync(e) ==
  /\ Takes(e, "call")
  /\ HandlerOf[Taken(e)] \notin Coroutines /\ bound[HandlerOf[Taken(e)]] # "none"
  /\ Become(Taken(e), "direct") /\ io' = [io EXCEPT ![e] = Taken(e)]
  /\ begun' = Append(begun, Taken(e))
  /\ UNCHANGED <<up, session, sent, at, loopVars, binding, asked, flags>>

\* mutant: the result of a coroutine is not passed on.
ResultDropped(e) ==
  /\ io[e] # Nobody /\ run[io[e]] \in Over
  /\ io' = [io EXCEPT ![e] = Nobody]
  /\ UNCHANGED <<up, wire, run, at, loopVars, binding, asked, flags, begun>>

\* The poll finds the coroutine done.
ResultArrives(e) ==
  /\ io[e] # Nobody /\ run[io[e]] \in Over
  /\ io' = [io EXCEPT ![e] = Nobody] /\ Conclude(io[e], run[io[e]])
  /\ UNCHANGED <<up, run, at, loopVars, binding, asked, flags, begun>>

-----------------------------------------------------------------------------
(* The event loop (asyncio is external). *)

Enter(f) == LoopFree /\ Become(f, "running") /\ noticed' = events
LoopFrame == UNCHANGED <<up, wire, io, binding, asked, events>>

\* mutant: coroutines are started in any order.
StartAny ==
  \E i \in 1..Len(ready) :
    /\ Enter(ready[i]) /\ begun' = Append(begun, ready[i])
    /\ ready' = SubSeq(ready, 1, i - 1) \o SubSeq(ready, i + 1, Len(ready))
    /\ LoopFrame /\ UNCHANGED <<at, late>>

StartTask ==
  /\ ready # <<>> /\ Enter(Head(ready)) /\ ready' = Tail(ready)
  /\ begun' = Append(begun, Head(ready))
  /\ LoopFrame /\ UNCHANGED <<at, late>>

Resume(f) ==
  /\ \/ run[f] = "awake" /\ UNCHANGED at
     \/ /\ run[f] = "awaiting" /\ Next1(f)
        /\ \/ Reached(f, "async_request") /\ asked[Arg(f)] \in {"answer", "error_payload"}
           \/ Reached(f, "wait") /\ Arg(f) \in noticed
  /\ Enter(f) /\ LoopFrame /\ UNCHANGED <<loopVars, begun>>

\* mutant: a timeout is taken for an answer.
ResumeAnyway(f) ==
  /\ run[f] = "awaiting" /\ Reached(f, "async_request") /\ asked[Arg(f)] = "timeout"
  /\ Next1(f) /\ Enter(f) /\ LoopFrame /\ UNCHANGED <<loopVars, begun>>

\* TimeoutError goes through the coroutine.
ResumeTimedOut(f) ==
  /\ LoopFree /\ run[f] = "awaiting" /\ Reached(f, "async_request")
  /\ asked[Arg(f)] = "timeout" /\ Raise(f)

\* sync_request returns, or raises.
Unblock(f) ==
  /\ run[f] = "blocked" /\ Reached(f, "sync_request")
  /\ \/ /\ asked[Arg(f)] \in {"answer", "error_payload"}
        /\ Become(f, "running") /\ Next1(f) /\ noticed' = events
        /\ LoopFrame /\ UNCHANGED <<loopVars, begun>>
     \/ asked[Arg(f)] = "timeout" /\ Raise(f)

\* The cancellation of an abandoned coroutine reaches it at an await, as an
\* exception: it may go on after it.  (Where it does, the model may cancel it
\* again at a later await.)
CancelTask(m) ==
  /\ LoopFree /\ m \in late /\ run[m] \in {"awake", "awaiting"}
  /\ IF Cleanup(m) = {} THEN End(m, "cancelled") ELSE Raise(m)

-----------------------------------------------------------------------------
(* Limits: result_timeout, a request's, wait_for's, sleep. *)

Step ==
  \/ \E f \in Frames :
       \/ Return(f) \/ Send(f) \/ Write(f) \/ SendFails(f) \/ AsyncRequest(f)
       \/ SyncRequest(f) \/ SetEvent(f) \/ Await(f) \/ Register(f) \/ Attach(f)
       \/ Start(f) \/ Connect(f) \/ StopBegins(f) \/ StopEnds(f)
       \/ Resume(f) \/ ResumeTimedOut(f) \/ Unblock(f)
  \/ \E m \in Msgs : CancelTask(m)
  \/ \E e \in Ends : \/ AcceptLoopRuns(e) \/ TakeResponse(e) \/ TakeInVain(e)
                     \/ TakeCoroutine(e) \/ TakeSync(e) \/ ResultArrives(e)
  \/ StartTask

MayExpire == scene.patient => ~ENABLED Step

RequestExpires(r) ==
  /\ asked[r] = "waiting" /\ asked' = [asked EXCEPT ![r] = "timeout"]
  /\ UNCHANGED <<up, wire, io, run, at, loopVars, binding, flags, begun>>

\* mutant: the wait for a result has no limit.
ResultAwaited(e) == FALSE /\ e \in Ends /\ UNCHANGED vars

\* mutant: a response is sent for a coroutine that is given up.
ResultMadeUp(e) ==
  /\ io[e] # Nobody /\ run[io[e]] # "direct"
  /\ late' = late \cup {io[e]} /\ io' = [io EXCEPT ![e] = Nobody]
  /\ Conclude(io[e], "reply_error")
  /\ UNCHANGED <<up, run, at, ready, binding, asked, flags, begun>>

\* The I/O thread gives the coroutine up and has nothing to pass on.
ResultExpires(e) ==
  /\ io[e] # Nobody /\ run[io[e]] # "direct"
  /\ late' = late \cup {io[e]} /\ io' = [io EXCEPT ![e] = Nobody]
  /\ UNCHANGED <<up, wire, run, at, ready, binding, asked, flags, begun>>

\* A wait_for wakes the loop up: only an event that is not set is a timeout.  A
\* sleep is longer than the accept loop takes to run.
WaitExpires(f) ==
  /\ LoopFree /\ run[f] = "awaiting"
  /\ \/ /\ \/ Reached(f, "sleep") /\ \A e \in Ends : up[e] # "starting"
           \/ Reached(f, "wait") /\ Arg(f) \in events
        /\ Next1(f) /\ Enter(f) /\ LoopFrame /\ UNCHANGED <<loopVars, begun>>
     \/ f \in Mains /\ Reached(f, "wait") /\ Arg(f) \notin events /\ Raise(f)

Expire == MayExpire /\ \/ \E r \in Msgs : RequestExpires(r)
                       \/ \E e \in Ends : ResultExpires(e)
                       \/ \E f \in Frames : WaitExpires(f)

Goes == (Step \/ Expire) /\ UNCHANGED scene
Next == \/ Goes
        \/ (LoseSession /\ UNCHANGED scene)

Spec == Init /\ [][Next]_vars

\* The machine does not stop: programs are finite, so this weakest fairness of
\* all is enough.
FairSpec == Spec /\ WF_vars(Goes)

-----------------------------------------------------------------------------
(* Properties. *)

Before(s, m, n) == \E j \in 1..Len(s) : s[j] = n /\ \E i \in 1..(j - 1) : s[i] = m
Begun(m) == \E i \in 1..Len(begun) : begun[i] = m

\* What a requester goes on with: a payload.  (That of a wrapper which could not
\* unpack the request cannot be told from an answer.)
Answered(r) == asked[r] \in {"answer", "error_payload"}

\* A program goes past a request with a payload; or it has caught the exception,
\* in what follows a "return" that it has come past since.
Verb(f, i) == Code(f)[i].do
Requests == {"async_request", "sync_request"}
HadAnswers(f) ==
  \A i \in 1..Len(Code(f)) :
    i < at[f] /\ Verb(f, i) \in Requests =>
      Answered(Code(f)[i].x) \/ \E j \in i..(at[f] - 1) : Verb(f, j) = "return"

PassInv == \A f \in Frames : HadAnswers(f)

\* That payload is what a request's handler ended with, in time.
AnswerInv ==
  \A r \in Msgs : Answered(r) =>
    /\ IsRequest(r) /\ r \notin late
    /\ run[r] = (IF asked[r] = "answer" THEN "replied" ELSE "reply_error")

\* From the requester to the handler and back: a program that goes past
\* async_request or sync_request without catching an exception has a payload which
\* the handler of that very request ended with, before its I/O thread gave it up;
\* whichever limits ran out, and in handlers that make requests as in mains.
AnswersAreEarned == PassInv /\ AnswerInv

\* Of the messages to one endpoint, each put on the wire once (and so not before
\* itself), m before n.
Call(m) == <<"call", m>>
Once(m) == ~Before(sent[To[m]], Call(m), Call(m))
Ahead(m, n) == /\ To[m] = To[n] /\ Before(sent[To[n]], Call(m), Call(n))
               /\ Once(m) /\ Once(n)

\* Handlers begin in the order their messages were sent: events of one stream,
\* of several, payloads and requests.  (A coroutine is queued on the loop while a
\* synchronous handler of a later message runs at once: the one exception.)
SessionInOrder ==
  \A m, n \in Msgs :
    Begun(n) /\ run[m] \notin {"dropped", "lost"} /\ Ahead(m, n) =>
      \/ Before(begun, m, n)
      \/ HandlerOf[m] \in Coroutines /\ HandlerOf[n] \notin Coroutines

\* The handler of an incoming stream is what registers those of its events: for
\* n's endpoint and before anything else may end it.
Registers(m, i, n) == /\ Verb(m, i) = "register" /\ Code(m)[i].x.h = HandlerOf[n]
Opener(m) == /\ Decorator(m) \in StreamDecorators
             /\ \A i \in 1..Len(Code(m)) : Verb(m, i) # "return"
Opens(m, n) == Opener(m) /\ \E i \in 1..Len(Code(m)) : Registers(m, i, n)

\* The I/O thread waits for the handler of an incoming stream, a coroutine too:
\* no event of the stream finds its handler missing, unless that wait ran out.
NoEventLost ==
  \A m, n \in Msgs :
    run[n] \in {"dropped", "lost"} /\ Ahead(m, n) /\ Opens(m, n) =>
      m \in late \/ run[m] \in Over \ {"returned"}

\* What that takes: the decorators that a synchronous handler calls find a loop.
AttachedInTime ==
  \A m \in Msgs :
    Opener(m) /\ HandlerOf[m] \notin Coroutines
      /\ (\E i \in 1..Len(inbox[To[m]]) : inbox[To[m]][i] = Call(m)) => To[m] \in attached

\* A rule for programs that is enough: the handlers of streams are coroutines,
\* whose decorators adopt the loop they run on.
CoroutineOpeners == \A m \in Msgs : Opener(m) => HandlerOf[m] \in Coroutines

\* Every program of the application comes to its end, or is told that a limit
\* ran out: nothing waits for ever for another part.  Where limits are long
\* enough it ends without an error.
MainsEnd == <>(\A f \in scene.mains : run[f] \in Over)
MainsSucceed == <>(scene.patient => \A f \in scene.mains : run[f] = "returned")

\* No handler keeps its I/O thread.
ThreadsFreed == []<>(\A e \in Ends : io[e] = Nobody)

\* README, "From inside handlers, use await async_request() instead".
NoSelfWait ==
  \A e \in Ends, r \in Msgs :
    ~ /\ <<"response", r>> \in {inbox[e][i] : i \in 1..Len(inbox[e])}
      /\ io[e] # Nobody /\ run[io[e]] \in {"awaiting", "blocked"}
      /\ (\E v \in Requests : Reached(io[e], v)) /\ Arg(io[e]) = r

\* A rule for programs that is enough: a coroutine that its I/O thread waits for
\* makes no request through its own endpoint.
AsksElsewhere ==
  \A m \in Msgs : HandlerOf[m] \in Coroutines /\ Decorator(m) \in Waits =>
    \A i \in 1..Len(Code(m)) :
      Verb(m, i) \in Requests => To[Code(m)[i].x] = To[m]

-----------------------------------------------------------------------------
(* The inductive invariant (Session_proofs). *)

\* A request reaches its endpoint once, before its handler starts; a response
\* is on its way only from a handler that has replied and was not given up.
WireInv ==
  \A e \in Ends : \A i \in 1..Len(inbox[e]) :
    LET m == inbox[e][i][2] IN
      /\ inbox[e][i][1] = "call" =>
           /\ To[m] = e
           /\ IsRequest(m) => run[m] = "new" /\ asked[m] # "none"
                              /\ \A j \in 1..Len(inbox[e]) : inbox[e][j] = inbox[e][i] => j = i
      /\ inbox[e][i][1] = "response" =>
           IsRequest(m) /\ m \notin late /\ run[m] \in {"replied", "reply_error"}

\* A request's coroutine is queued once.
QueueInv ==
  \A i \in 1..Len(ready) :
    /\ HandlerOf[ready[i]] \in Coroutines
    /\ IsRequest(ready[i]) => /\ run[ready[i]] = "queued"
                              /\ \A j \in 1..Len(ready) : ready[j] = ready[i] => j = i

\* A request that was never made, or never taken, has no handler.
RequestInv ==
  \A r \in Msgs : IsRequest(r) =>
    /\ asked[r] = "none" => run[r] = "new"
    /\ run[r] = "new" => r \notin late

\* An I/O thread in a request's handler has not passed a result on, and has not
\* given the handler up.
ThreadInv ==
  /\ \A e \in Ends : io[e] # Nobody =>
       /\ To[io[e]] = e
       /\ IsRequest(io[e]) =>
            /\ run[io[e]] # "new" /\ io[e] \notin late /\ ~Answered(io[e])
            /\ \A d \in Ends : \A i \in 1..Len(inbox[d]) : inbox[d][i] # <<"response", io[e]>>
  /\ \A f \in Frames : run[f] = "direct" =>
       f \in Msgs /\ HandlerOf[f] \notin Coroutines /\ io[To[f]] = f

\* All of them, with what a program has come to.
SafeInv == /\ TypeOK /\ (\A f \in Frames : at[f] >= 1)
           /\ WireInv /\ QueueInv /\ RequestInv /\ ThreadInv /\ AnswerInv

-----------------------------------------------------------------------------
(* The inductive invariants about waiting and order (SessionOrder_proofs). *)

\* Responses go to the requester's endpoint; the I/O thread waits for nothing
\* but the coroutines whose result it needs.
RouteInv ==
  \A e \in Ends :
    /\ \A i \in 1..Len(inbox[e]) :
         inbox[e][i][1] = "response" => e = Peer(To[inbox[e][i][2]])
    /\ io[e] # Nobody /\ run[io[e]] # "direct" =>
         HandlerOf[io[e]] \in Coroutines /\ Decorator(io[e]) \in Waits

In(s, x) == \E i \in 1..Len(s) : s[i] = x
Sent(m) == In(sent[To[m]], Call(m))
OnWire(m) == In(inbox[To[m]], Call(m))
Behind(n, m) == Before(inbox[To[n]], Call(m), Call(n))
Unstarted == {"new", "queued", "dropped", "lost"}

\* Nothing is on the wire, or begins, that was not sent; and nothing is sent
\* before the client connects.
SentInv ==
  /\ up[Client] = "new" => session = "none" /\ \A e \in Ends : sent[e] = <<>>
  /\ \A m \in Msgs : OnWire(m) \/ run[m] # "new" => Sent(m)

\* Where a message that was sent is: in its inbox, until it is taken or the
\* session is lost, or with the loop, until it begins.
PlaceInv ==
  \A m \in Msgs :
    /\ (run[m] = "queued" => In(ready, m)) /\ (In(ready, m) => run[m] # "new")
    /\ session # "closed" /\ run[m] = "new" /\ Sent(m) => OnWire(m)
    /\ Once(m) =>
         /\ OnWire(m) => run[m] = "new" /\ ~Behind(m, m)
         /\ In(ready, m) => run[m] = "queued" /\ ~Before(ready, m, m)
         /\ Begun(m) <=> run[m] \notin Unstarted

\* Inboxes and the loop's queue keep the order in which messages were sent.
LineInv ==
  \A m, n \in Msgs :
    run[m] \in {"new", "queued"} /\ Ahead(m, n) =>
      /\ OnWire(n) => run[m] # "new" \/ Behind(n, m)
      /\ run[n] # "new" => run[m] # "new"
      /\ run[m] = "queued" /\ run[n] = "queued" => Before(ready, m, n)

\* An I/O thread goes on when the handler it waits for has ended, or was given up.
WaitedFor(m) == HandlerOf[m] \notin Coroutines \/ Decorator(m) \in Waits
WaitInv ==
  \A m \in Msgs : Once(m) /\ WaitedFor(m) =>
    /\ run[m] # "new" => io[To[m]] = m \/ run[m] \in Over \/ m \in late
    /\ \A n \in Msgs : run[n] # "new" /\ Ahead(m, n) => run[m] \in Over \/ m \in late

OrderInv == SentInv /\ PlaceInv /\ LineInv /\ WaitInv /\ SessionInOrder

IInv == SafeInv /\ PassInv /\ RouteInv /\ OrderInv

-----------------------------------------------------------------------------
(* Which handlers are registered (SessionEvents_proofs). *)

\* The handler of a stream has executed what it has passed, and all of it when
\* it returns; a handler bound to the loop stays so.
BindingInv ==
  \A m \in Msgs :
    /\ bound[HandlerOf[m]] = "loop" => To[m] \in attached
    /\ Opener(m) =>
         /\ run[m] # "new" /\ HandlerOf[m] \notin Coroutines => To[m] \in attached
         /\ run[m] = "returned" => at[m] > Len(Code(m))
         /\ \A n \in Msgs, i \in 1..Len(Code(m)) :
              i < at[m] /\ Registers(m, i, n) /\ To[m] = To[n] => bound[HandlerOf[n]] = "loop"
=============================================================================
