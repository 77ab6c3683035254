----------------------------- MODULE MCSession -----------------------------
(***************************************************************************)
(* Instances of Session for TLC: programs of the application.              *)
(***************************************************************************)
EXTENDS Session, TLC

I(verb, arg) == [do |-> verb, x |-> arg]
On(endpoint, handler) == I("register", [e |-> endpoint, h |-> handler])

\* examples/async_server_client.py.
ExampleRegistration ==
  [hello |-> "on_payload", calc |-> "on_request", open |-> "on_incoming_stream",
   chunk |-> "on_data", end |-> "on_end", identity |-> "on_client_identity",
   echo |-> "on_request", ready |-> "on_ready", echo_chunk |-> "on_data", echo_end |-> "on_end"]
ExampleCoroutines == {"hello", "calc", "chunk", "end"}
ExampleHandlers ==
  [hello    |-> <<I("async_request", "echo"), I("set", "echo_done")>>,
   calc     |-> <<I("reply", 0)>>,
   open     |-> <<On(Server, "chunk"), On(Server, "end")>>,
   chunk    |-> <<I("write", "echo_chunk")>>,
   end      |-> <<I("write", "echo_end")>>,
   identity |-> <<I("reply", 0)>>,
   echo     |-> <<I("reply", 0)>>,
   ready    |-> <<I("set", "client_ready")>>,
   echo_chunk |-> <<I("set", "echo_received")>>,
   echo_end   |-> <<>>]
Exits == <<I("stop", Client), I("stop", Server)>>
Within(program) == program \o Exits \o <<I("return", 0)>> \o Exits \o <<I("raise", 0)>>

\* mutant: the server is not given the time to start.
MainWithoutSleep ==
  Within(<<I("start", Server), I("attach", Server), On(Server, "identity"),
           I("attach", Client), On(Client, "ready"),
           I("connect", "identity"), I("wait", "client_ready")>>)

ExampleMain ==
  Within(<<I("start", Server), I("sleep", 0), I("attach", Server),
           On(Server, "hello"), On(Server, "calc"), On(Server, "open"), On(Server, "identity"),
           I("attach", Client), On(Client, "echo"), On(Client, "ready"),
           I("connect", "identity"), I("wait", "client_ready"),
           I("async_request", "calc"),
           I("send", "hello"), I("wait", "echo_done"),
           I("send", "open"), On(Client, "echo_chunk"), I("send", "chunk"),
           I("wait", "echo_received"), I("send", "end"), I("sleep", 0)>>)

\* Two other coroutines, with what the example leaves out: an anonymous session,
\* a stream that a coroutine opens, a handler that fails, and a synchronous
\* request, which blocks the loop and is answered with an error.
ServiceRegistration ==
  [upload |-> "on_stream", part |-> "on_data", last |-> "on_data", done |-> "on_end", status |-> "on_anon_request"]
ServiceHandlers ==
  [upload |-> <<On(Server, "part"), On(Server, "done")>>,
   part |-> <<>>, last |-> <<>>, done |-> <<I("sync_request", "echo")>>, status |-> <<I("reply_error", 0)>>]
Service ==
  Within(<<I("start", Server), I("sleep", 0), I("attach", Server), On(Server, "calc"),
           On(Server, "status"), On(Server, "upload"), On(Client, "ready"),
           I("connect", "ready"), I("wait", "client_ready"), I("async_request", "calc"),
           I("sync_request", "status")>>)
Uploader ==
  <<I("wait", "client_ready"), I("send", "hello"), I("send", "upload"), I("write", "part"),
    I("send", "last"), I("send", "done")>>

AllMains == {"main", "service", "uploader"}
AllBodies == "main" :> ExampleMain @@ "service" :> Service @@ "uploader" :> Uploader
             @@ ExampleHandlers @@ ServiceHandlers
AllRegistrations == ExampleRegistration @@ ServiceRegistration
AllMsgs == DOMAIN AllRegistrations
AllTo == [m \in AllMsgs |->
  IF m \in {"echo", "ready", "echo_chunk", "echo_end"} THEN Client ELSE Server]
AllCoroutines == ExampleCoroutines \cup {"upload", "part"}
AllHandlerOf == [m \in AllMsgs |-> IF m = "last" THEN "part" ELSE m]

Calm(mains) == [mains |-> mains, early |-> {}, patient |-> TRUE, lossy |-> FALSE]
Rough(mains, early) == [mains |-> mains, early |-> early, patient |-> FALSE, lossy |-> TRUE]
ThreeScenes == {Calm({"main"}), Rough({"main"}, {}), Rough({"service", "uploader"}, {"hello"})}

\* README, "From inside handlers": a request handler that makes a request.
Nested ==
  <<On(Server, "relay"), I("wait", "client_ready"), I("async_request", "relay")>>
NestedHandlers == [relay |-> <<I("async_request", "echo"), I("reply", 0)>>]
NestedMains == AllMains \cup {"nested"}
NestedBodies == AllBodies @@ "nested" :> Nested @@ NestedHandlers
NestedRegistrations == AllRegistrations @@ [relay |-> "on_request"]
NestedMsgs == DOMAIN NestedRegistrations
NestedTo == AllTo @@ [relay |-> Server]
NestedHandlerOf == AllHandlerOf @@ [relay |-> "relay"]
NestedCoroutines == AllCoroutines \cup {"relay"}
NestedScene == {Calm({"main", "nested"})}
=============================================================================
