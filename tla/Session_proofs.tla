---------------------------- MODULE Session_proofs ----------------------------
(***************************************************************************)
(* Proofs about Session for any programs of mains and handlers, any        *)
(* messages, and limits that may run out at any moment.                    *)
(***************************************************************************)
EXTENDS Session, TLAPS

Assumptions == ConstantsAssumption /\ ProgramsAssumption
Positive == \A f \in Frames : at[f] >= 1
Safe == WireInv /\ QueueInv /\ RequestInv /\ ThreadInv /\ AnswerInv

-----------------------------------------------------------------------------
(* Types. *)

\* The instruction that a program has come to has the argument its verb needs.
LEMMA Arguments ==
  ASSUME Assumptions, TypeOK, Positive, NEW f \in Frames, NEW v, Reached(f, v)
  PROVE  Fits(Code(f)[at[f]]) /\ Code(f)[at[f]].do = v
<1> DEFINE b == IF f \in Mains THEN f ELSE HandlerOf[f]
<1>1. b \in DOMAIN Body
  BY DEF Assumptions, ConstantsAssumption, Frames
<1>2. Len(Body[b]) \in Nat /\ at[f] \in Nat /\ at[f] >= 1 /\ at[f] <= Len(Body[b])
  BY <1>1 DEF Assumptions, ProgramsAssumption, Positive, TypeOK, Reached, Code
<1>3. at[f] \in 1..Len(Body[b])
  BY <1>2
<1> QED BY <1>1, <1>3 DEF Assumptions, ProgramsAssumption, Reached, Code

\* One more message in an inbox.
LEMMA Delivery ==
  ASSUME TypeOK, NEW e \in Ends, NEW w \in {"call", "response"}, NEW m \in Msgs,
         Deliver(e, w, m)
  PROVE  /\ inbox' \in [Ends -> Seq({"call", "response"} \X Msgs)]
         /\ sent' \in [Ends -> Seq({"call", "response"} \X Msgs)]
         /\ \A d \in Ends : Len(inbox[d]) \in Nat
         /\ \A d \in Ends : d # e => inbox'[d] = inbox[d]
         /\ Len(inbox'[e]) = Len(inbox[e]) + 1
         /\ inbox'[e][Len(inbox[e]) + 1] = <<w, m>>
         /\ \A i \in 1..Len(inbox[e]) : inbox'[e][i] = inbox[e][i]
<1>1. \A d \in Ends : inbox[d] \in Seq({"call", "response"} \X Msgs)
  BY DEF TypeOK
<1>2. <<w, m>> \in {"call", "response"} \X Msgs
  OBVIOUS
<1>3. /\ inbox' = [inbox EXCEPT ![e] = Append(inbox[e], <<w, m>>)]
      /\ inbox \in [Ends -> Seq({"call", "response"} \X Msgs)]
  BY DEF Deliver, TypeOK
<1>4. Append(inbox[e], <<w, m>>) \in Seq({"call", "response"} \X Msgs)
  BY <1>1, <1>2
<1>5. sent' \in [Ends -> Seq({"call", "response"} \X Msgs)]
  <2>1. sent[e] \in Seq({"call", "response"} \X Msgs)
    BY DEF TypeOK
  <2>2. Append(sent[e], <<w, m>>) \in Seq({"call", "response"} \X Msgs)
    BY <1>2, <2>1
  <2> QED BY <2>2 DEF Deliver, TypeOK
<1>6. /\ inbox' \in [Ends -> Seq({"call", "response"} \X Msgs)]
      /\ inbox'[e] = Append(inbox[e], <<w, m>>)
      /\ \A d \in Ends : d # e => inbox'[d] = inbox[d]
  BY <1>3, <1>4
<1> QED BY <1>1, <1>2, <1>5, <1>6

\* The first message leaves an inbox.
LEMMA Taking ==
  ASSUME TypeOK, NEW e \in Ends, NEW w, Takes(e, w)
  PROVE  /\ inbox' \in [Ends -> Seq({"call", "response"} \X Msgs)]
         /\ Taken(e) \in Msgs /\ inbox[e][1] = <<w, Taken(e)>> /\ 1 \in 1..Len(inbox[e])
         /\ \A d \in Ends : d # e => inbox'[d] = inbox[d]
         /\ \A i \in 1..Len(inbox'[e]) :
              i + 1 \in 1..Len(inbox[e]) /\ inbox'[e][i] = inbox[e][i + 1]
         /\ \A d \in Ends : Len(inbox[d]) \in Nat
<1>1. /\ inbox \in [Ends -> Seq({"call", "response"} \X Msgs)]
      /\ inbox[e] \in Seq({"call", "response"} \X Msgs) /\ inbox[e] # <<>>
      /\ inbox' = [inbox EXCEPT ![e] = Tail(inbox[e])]
  BY DEF TypeOK, Takes
<1>2. /\ Tail(inbox[e]) \in Seq({"call", "response"} \X Msgs)
      /\ Head(inbox[e]) = inbox[e][1] /\ 1 \in 1..Len(inbox[e])
      /\ Len(inbox[e]) \in Nat /\ Len(Tail(inbox[e])) = Len(inbox[e]) - 1
      /\ \A i \in 1..Len(Tail(inbox[e])) : Tail(inbox[e])[i] = inbox[e][i + 1]
  BY <1>1
<1>3. inbox[e][1] \in {"call", "response"} \X Msgs
  BY <1>1, <1>2
<1>4. Taken(e) \in Msgs /\ inbox[e][1] = <<w, Taken(e)>>
  BY <1>2, <1>3 DEF Taken, Takes
<1>5. inbox'[e] = Tail(inbox[e]) /\ \A d \in Ends : d # e => inbox'[d] = inbox[d]
  BY <1>1
<1>6. \A i \in 1..Len(inbox'[e]) : i + 1 \in 1..Len(inbox[e])
  BY <1>2, <1>5
<1>7. \A d \in Ends : Len(inbox[d]) \in Nat
  BY <1>1
<1>8. inbox' \in [Ends -> Seq({"call", "response"} \X Msgs)]
  BY <1>1, <1>2
<1> QED BY <1>2, <1>4, <1>5, <1>6, <1>7, <1>8

-----------------------------------------------------------------------------
(* What the steps do to requests and responses. *)

\* No message of the inboxes is new, except for calls that are not requests.
NoNewRequest ==
  \A d \in Ends : \A i \in 1..Len(inbox'[d]) :
    \/ i \in 1..Len(inbox[d]) /\ inbox'[d][i] = inbox[d][i]
    \/ \E m \in Msgs : inbox'[d][i] = <<"call", m>> /\ To[m] = d /\ ~IsRequest(m)

\* Everything that a frame does on the loop or on its thread, short of asking,
\* of concluding on its I/O thread and of starting.
LEMMA MoveSafe ==
  ASSUME TypeOK, Safe, NoNewRequest, UNCHANGED <<io, ready, late, asked>>,
         \/ UNCHANGED run
         \/ \E f \in Frames, s \in (Alive \cup Over) \ {"queued"} :
              /\ run[f] \in Alive \ {"queued"} /\ run' = [run EXCEPT ![f] = s]
              /\ s = "direct" => run[f] = "direct"
  PROVE  Safe'
<1>0. run \in [Frames -> {"new"} \cup Alive \cup Over]
  BY DEF TypeOK
<1>1. /\ \A f \in Frames : run'[f] # run[f] =>
              /\ run[f] \notin {"new", "queued"} \cup Over
              /\ run'[f] \notin {"new", "queued", "direct"}
      /\ \A m \in Msgs : m \in Frames
  BY <1>0 DEF Alive, Over, Frames
<1>2. WireInv'
  <2> SUFFICES ASSUME NEW d \in Ends, NEW i \in 1..Len(inbox'[d]),
                      NEW m, m = inbox'[d][i][2]
               PROVE  /\ inbox'[d][i][1] = "call" =>
                           /\ To[m] = d
                           /\ IsRequest(m) => run'[m] = "new" /\ asked'[m] # "none"
                                /\ \A j \in 1..Len(inbox'[d]) :
                                     inbox'[d][j] = inbox'[d][i] => j = i
                      /\ inbox'[d][i][1] = "response" =>
                           IsRequest(m) /\ m \notin late' /\ run'[m] \in {"replied", "reply_error"}
    BY DEF WireInv, IsRequest, Decorator
  <2>1. CASE \E n \in Msgs : inbox'[d][i] = <<"call", n>> /\ To[n] = d /\ ~IsRequest(n)
    BY <2>1
  <2>2. CASE /\ i \in 1..Len(inbox[d]) /\ inbox'[d][i] = inbox[d][i]
             /\ ~\E n \in Msgs : inbox'[d][i] = <<"call", n>> /\ To[n] = d /\ ~IsRequest(n)
    <3>1. \A j \in 1..Len(inbox'[d]) : inbox'[d][j] = inbox'[d][i] =>
            j \in 1..Len(inbox[d]) /\ inbox'[d][j] = inbox[d][j]
      BY <2>2 DEF NoNewRequest
    <3>2. inbox[d][i] \in {"call", "response"} \X Msgs /\ m \in Msgs
      BY <2>2 DEF TypeOK
    <3>3. inbox[d][i][1] = "call" => To[m] = d
            /\ (IsRequest(m) => run[m] = "new" /\ asked[m] # "none"
                 /\ \A j \in 1..Len(inbox[d]) : inbox[d][j] = inbox[d][i] => j = i)
      BY <2>2 DEF Safe, WireInv
    <3>4. inbox[d][i][1] = "response" =>
            IsRequest(m) /\ m \notin late /\ run[m] \in {"replied", "reply_error"}
      BY <2>2 DEF Safe, WireInv
    <3> QED BY <1>1, <2>2, <3>1, <3>2, <3>3, <3>4 DEF Over
  <2> QED BY <2>1, <2>2 DEF NoNewRequest
<1>3. QueueInv'
  <2>1. \A i \in 1..Len(ready) : ready[i] \in Msgs
    BY DEF TypeOK
  <2> QED BY <1>1, <2>1 DEF Safe, QueueInv, IsRequest, Decorator
<1>4. RequestInv'
  BY <1>1 DEF Safe, RequestInv, IsRequest, Decorator
<1>5. ThreadInv'
  <2>1. ASSUME NEW e \in Ends, io[e] # Nobody
        PROVE  To[io[e]] = e /\ (IsRequest(io[e]) =>
                 /\ run'[io[e]] # "new" /\ io[e] \notin late /\ ~Answered(io[e])
                 /\ \A d \in Ends : \A i \in 1..Len(inbox'[d]) :
                      inbox'[d][i] # <<"response", io[e]>>)
    <3>1. io[e] \in Msgs
      BY <2>1 DEF TypeOK
    <3>2. To[io[e]] = e /\ (IsRequest(io[e]) =>
                 /\ run[io[e]] # "new" /\ io[e] \notin late /\ ~Answered(io[e])
                 /\ \A d \in Ends : \A i \in 1..Len(inbox[d]) :
                      inbox[d][i] # <<"response", io[e]>>)
      BY <2>1 DEF Safe, ThreadInv
    <3> QED BY <1>1, <3>1, <3>2 DEF NoNewRequest
  <2>2. ASSUME NEW f \in Frames, run'[f] = "direct"
        PROVE  f \in Msgs /\ HandlerOf[f] \notin Coroutines /\ io'[To[f]] = f
    BY <1>1, <2>2 DEF Safe, ThreadInv
  <2> QED BY <2>1, <2>2 DEF ThreadInv, IsRequest, Decorator, Answered
<1>6. AnswerInv'
  BY <1>1 DEF Safe, AnswerInv, Answered, IsRequest, Decorator, Over
<1> QED BY <1>2, <1>3, <1>4, <1>5, <1>6 DEF Safe

\* A call that is not a request, and no call at all, are nothing new.
LEMMA NothingNew ==
  ASSUME TypeOK
  PROVE  /\ UNCHANGED inbox => NoNewRequest
         /\ \A m \in Msgs : Deliver(To[m], "call", m) /\ To[m] \in Ends /\ ~IsRequest(m)
              => NoNewRequest
<1>1. UNCHANGED inbox => NoNewRequest
  BY DEF NoNewRequest
<1>2. ASSUME NEW m \in Msgs, Deliver(To[m], "call", m), To[m] \in Ends, ~IsRequest(m)
      PROVE  NoNewRequest
  <2> SUFFICES ASSUME NEW d \in Ends, NEW i \in 1..Len(inbox'[d]),
                      ~(i \in 1..Len(inbox[d]) /\ inbox'[d][i] = inbox[d][i])
               PROVE  inbox'[d][i] = <<"call", m>> /\ To[m] = d
    BY <1>2 DEF NoNewRequest
  <2>1. d = To[m]
    BY <1>2, Delivery
  <2>2. i = Len(inbox[d]) + 1
    BY <1>2, <2>1, Delivery
  <2> QED BY <1>2, <2>1, <2>2, Delivery
<1> QED BY <1>1, <1>2

\* What ConcludeSafe and AskSafe need of an inbox with one more message.
LEMMA DeliveredElements ==
  ASSUME TypeOK, NEW e \in Ends, NEW w \in {"call", "response"}, NEW m \in Msgs,
         Deliver(e, w, m), NEW d \in Ends, NEW i \in 1..Len(inbox'[d])
  PROVE  \/ i \in 1..Len(inbox[d]) /\ inbox'[d][i] = inbox[d][i]
         \/ d = e /\ i = Len(inbox[d]) + 1 /\ inbox'[d][i] = <<w, m>>
<1>1. CASE d = e
  BY <1>1, Delivery
<1>2. CASE d # e
  BY <1>2, Delivery
<1> QED BY <1>1, <1>2

\* The result of a handler leaves its I/O thread: a synchronous one ends, or a
\* coroutine has ended.
LEMMA ConcludeSafe ==
  ASSUME Assumptions, TypeOK, Safe, NEW f \in Msgs, io[To[f]] = f,
         NEW how \in Over, run[f] = "direct" \/ run[f] = how,
         run' = [run EXCEPT ![f] = how], io' = [io EXCEPT ![To[f]] = Nobody],
         Conclude(f, how), UNCHANGED <<ready, late, asked>>
  PROVE  Safe' /\ inbox' \in [Ends -> Seq({"call", "response"} \X Msgs)]
               /\ sent' \in [Ends -> Seq({"call", "response"} \X Msgs)]
               /\ session' \in {"none", "open", "closed"}
<1>0. /\ run \in [Frames -> {"new"} \cup Alive \cup Over] /\ io \in [Ends -> Msgs \cup {Nobody}]
      /\ Msgs \subseteq Frames /\ To[f] \in Ends /\ f # Nobody
      /\ Ready \in Msgs /\ To[Ready] = Client /\ Client \in Ends /\ Peer(To[f]) \in Ends
      /\ ~IsRequest(Ready) /\ inbox \in [Ends -> Seq({"call", "response"} \X Msgs)]
      /\ session \in {"none", "open", "closed"}
  BY DEF TypeOK, Assumptions, ConstantsAssumption, ProgramsAssumption, Frames, Ends, Peer
<1>1. /\ \/ UNCHANGED wire
         \/ Deliver(To[Ready], "call", Ready) /\ session' = "open"
         \/ /\ IsRequest(f) /\ how \in {"replied", "reply_error"}
            /\ Deliver(Peer(To[f]), "response", f) /\ UNCHANGED session
  BY <1>0 DEF Conclude
<1>2. /\ inbox' \in [Ends -> Seq({"call", "response"} \X Msgs)]
      /\ sent' \in [Ends -> Seq({"call", "response"} \X Msgs)]
      /\ session' \in {"none", "open", "closed"}
  BY <1>0, <1>1, Delivery DEF wire, TypeOK
<1>3. \A d \in Ends : \A i \in 1..Len(inbox'[d]) :
        \/ i \in 1..Len(inbox[d]) /\ inbox'[d][i] = inbox[d][i]
        \/ inbox'[d][i] = <<"call", Ready>> /\ To[Ready] = d
        \/ inbox'[d][i] = <<"response", f>> /\ IsRequest(f) /\ how \in {"replied", "reply_error"}
  BY <1>0, <1>1, DeliveredElements DEF wire
<1>4. /\ IsRequest(f) => f \notin late /\ run[f] # "new" /\ ~Answered(f)
           /\ \A d \in Ends : \A i \in 1..Len(inbox[d]) : inbox[d][i] # <<"response", f>>
      /\ run'[f] = how /\ \A g \in Frames : g # f => run'[g] = run[g]
      /\ how \notin {"new", "queued", "direct"} /\ run[f] # "queued"
  BY <1>0 DEF Safe, ThreadInv, Over, Alive
<1>5. WireInv'
  <2> SUFFICES ASSUME NEW d \in Ends, NEW i \in 1..Len(inbox'[d]),
                      NEW m, m = inbox'[d][i][2]
               PROVE  /\ inbox'[d][i][1] = "call" =>
                           /\ To[m] = d
                           /\ IsRequest(m) => run'[m] = "new" /\ asked'[m] # "none"
                                /\ \A j \in 1..Len(inbox'[d]) :
                                     inbox'[d][j] = inbox'[d][i] => j = i
                      /\ inbox'[d][i][1] = "response" =>
                           IsRequest(m) /\ m \notin late' /\ run'[m] \in {"replied", "reply_error"}
    BY DEF WireInv, IsRequest, Decorator
  <2>1. CASE inbox'[d][i] = <<"call", Ready>> /\ To[Ready] = d
    BY <1>0, <2>1
  <2>2. CASE inbox'[d][i] = <<"response", f>> /\ IsRequest(f) /\ how \in {"replied", "reply_error"}
    BY <1>4, <2>2
  <2>3. CASE i \in 1..Len(inbox[d]) /\ inbox'[d][i] = inbox[d][i]
    <3>1. inbox[d][i] \in {"call", "response"} \X Msgs /\ m \in Msgs
      BY <2>3 DEF TypeOK
    <3>2. inbox[d][i][1] = "call" => To[m] = d
            /\ (IsRequest(m) => run[m] = "new" /\ asked[m] # "none"
                 /\ \A j \in 1..Len(inbox[d]) : inbox[d][j] = inbox[d][i] => j = i)
      BY <2>3 DEF Safe, WireInv
    <3>3. inbox[d][i][1] = "response" =>
            IsRequest(m) /\ m \notin late /\ run[m] \in {"replied", "reply_error"}
      BY <2>3 DEF Safe, WireInv
    <3>4. inbox[d][i] = <<inbox[d][i][1], m>>
      BY <2>3, <3>1
    <3>5. inbox[d][i][1] = "call" /\ IsRequest(m) =>
            \A j \in 1..Len(inbox'[d]) : inbox'[d][j] = inbox'[d][i] => j = i
      <4> SUFFICES ASSUME inbox[d][i][1] = "call", IsRequest(m),
                          NEW j \in 1..Len(inbox'[d]), inbox'[d][j] = inbox'[d][i]
                   PROVE  j = i
        OBVIOUS
      <4>1. inbox'[d][j] # <<"call", Ready>> /\ inbox'[d][j] # <<"response", f>>
        BY <1>0, <2>3, <3>4
      <4> QED BY <1>3, <2>3, <3>2, <4>1
    <3>6. IsRequest(m) /\ inbox[d][i][1] = "call" => m # f
      BY <1>4, <3>2
    <3>7. inbox[d][i][1] = "response" => m # f
      BY <1>4, <2>3, <3>3, <3>4
    <3> QED BY <1>0, <1>4, <2>3, <3>1, <3>2, <3>3, <3>5, <3>6, <3>7
  <2> QED BY <1>3, <2>1, <2>2, <2>3
<1>6. QueueInv'
  <2>1. \A i \in 1..Len(ready) : ready[i] \in Msgs
    BY DEF TypeOK
  <2> QED BY <1>0, <1>4, <2>1 DEF Safe, QueueInv, IsRequest, Decorator
<1>7. RequestInv'
  BY <1>0, <1>4 DEF Safe, RequestInv, IsRequest, Decorator
<1>8. ThreadInv'
  <2>1. ASSUME NEW e \in Ends, io'[e] # Nobody
        PROVE  To[io'[e]] = e /\ (IsRequest(io'[e]) =>
                 /\ run'[io'[e]] # "new" /\ io'[e] \notin late /\ ~Answered(io'[e])
                 /\ \A d \in Ends : \A i \in 1..Len(inbox'[d]) :
                      inbox'[d][i] # <<"response", io'[e]>>)
    <3>1. io'[e] = io[e] /\ io[e] \in Msgs /\ e # To[f]
      BY <1>0, <2>1
    <3>2. To[io[e]] = e /\ (IsRequest(io[e]) =>
                 /\ run[io[e]] # "new" /\ io[e] \notin late /\ ~Answered(io[e])
                 /\ \A d \in Ends : \A i \in 1..Len(inbox[d]) :
                      inbox[d][i] # <<"response", io[e]>>)
      BY <2>1, <3>1 DEF Safe, ThreadInv
    <3>3. io[e] # f
      BY <3>1, <3>2
    <3>4. \A d \in Ends : \A i \in 1..Len(inbox'[d]) :
            IsRequest(io[e]) => inbox'[d][i] # <<"response", io[e]>>
      BY <1>3, <3>2, <3>3
    <3> QED BY <1>0, <1>4, <3>1, <3>2, <3>3, <3>4
  <2>2. ASSUME NEW g \in Frames, run'[g] = "direct"
        PROVE  g \in Msgs /\ HandlerOf[g] \notin Coroutines /\ io'[To[g]] = g
    <3>1. g # f /\ run[g] = "direct"
      BY <1>4, <2>2
    <3>2. g \in Msgs /\ HandlerOf[g] \notin Coroutines /\ io[To[g]] = g
      BY <3>1 DEF Safe, ThreadInv
    <3>3. To[g] \in Ends /\ To[g] # To[f]
      BY <3>1, <3>2 DEF Assumptions, ConstantsAssumption
    <3> QED BY <1>0, <3>2, <3>3
  <2> QED BY <2>1, <2>2 DEF ThreadInv, IsRequest, Decorator, Answered
<1>9. AnswerInv'
  BY <1>0, <1>4 DEF Safe, AnswerInv, Answered, IsRequest, Decorator
<1> QED BY <1>2, <1>5, <1>6, <1>7, <1>8, <1>9 DEF Safe

\* A request is made: the one call of it.
LEMMA AskSafe ==
  ASSUME Assumptions, TypeOK, Positive, Safe, NEW f \in Frames, NEW s \in {"awaiting", "blocked"},
         run[f] = "running", Arg(f) \in Msgs, IsRequest(Arg(f)), Ask(f, s)
  PROVE  Safe'
<1> DEFINE m == Arg(f)
<1>0. /\ run \in [Frames -> {"new"} \cup Alive \cup Over]
      /\ asked \in [Msgs -> {"none", "waiting", "answer", "error_payload", "timeout"}]
      /\ To[m] \in Ends /\ m \in Frames /\ Msgs \subseteq Frames
  BY DEF TypeOK, Assumptions, ConstantsAssumption, Frames
<1>1. /\ asked[m] = "none" /\ asked' = [asked EXCEPT ![m] = "waiting"]
      /\ Deliver(To[m], "call", m) /\ run' = [run EXCEPT ![f] = s]
      /\ UNCHANGED <<io, ready, late>>
  BY DEF Ask, Become, loopVars
<1>2. run[m] = "new" /\ m \notin late /\ m # f
  BY <1>1 DEF Safe, RequestInv
<1>3. \A d \in Ends : \A i \in 1..Len(inbox[d]) :
        inbox[d][i] # <<"call", m>> /\ inbox[d][i] # <<"response", m>>
  <2> SUFFICES ASSUME NEW d \in Ends, NEW i \in 1..Len(inbox[d])
               PROVE  inbox[d][i] # <<"call", m>> /\ inbox[d][i] # <<"response", m>>
    OBVIOUS
  <2> QED BY <1>1, <1>2 DEF Safe, WireInv
<1>4. \A d \in Ends : \A i \in 1..Len(inbox'[d]) :
         \/ i \in 1..Len(inbox[d]) /\ inbox'[d][i] = inbox[d][i]
         \/ d = To[m] /\ i = Len(inbox[d]) + 1 /\ inbox'[d][i] = <<"call", m>>
  BY <1>0, <1>1, DeliveredElements
<1>5. WireInv'
  <2> SUFFICES ASSUME NEW d \in Ends, NEW i \in 1..Len(inbox'[d]),
                      NEW n, n = inbox'[d][i][2]
               PROVE  /\ inbox'[d][i][1] = "call" =>
                           /\ To[n] = d
                           /\ IsRequest(n) => run'[n] = "new" /\ asked'[n] # "none"
                                /\ \A j \in 1..Len(inbox'[d]) :
                                     inbox'[d][j] = inbox'[d][i] => j = i
                      /\ inbox'[d][i][1] = "response" =>
                           IsRequest(n) /\ n \notin late' /\ run'[n] \in {"replied", "reply_error"}
    BY DEF WireInv, IsRequest, Decorator
  <2>1. CASE d = To[m] /\ i = Len(inbox[d]) + 1 /\ inbox'[d][i] = <<"call", m>>
    <3>1. ASSUME NEW j \in 1..Len(inbox'[d]), inbox'[d][j] = inbox'[d][i] PROVE j = i
      <4>1. ~(j \in 1..Len(inbox[d]) /\ inbox'[d][j] = inbox[d][j])
        BY <1>3, <2>1, <3>1
      <4> QED BY <1>4, <2>1, <3>1, <4>1
    <3>2. run'[m] = "new" /\ asked'[m] = "waiting"
      BY <1>0, <1>1, <1>2
    <3> QED BY <2>1, <3>1, <3>2
  <2>2. CASE i \in 1..Len(inbox[d]) /\ inbox'[d][i] = inbox[d][i]
    <3>1. inbox[d][i] \in {"call", "response"} \X Msgs /\ n \in Msgs
      BY <2>2 DEF TypeOK
    <3>2. inbox[d][i][1] = "call" => To[n] = d
            /\ (IsRequest(n) => run[n] = "new" /\ asked[n] # "none"
                 /\ \A j \in 1..Len(inbox[d]) : inbox[d][j] = inbox[d][i] => j = i)
      BY <2>2 DEF Safe, WireInv
    <3>3. inbox[d][i][1] = "response" =>
            IsRequest(n) /\ n \notin late /\ run[n] \in {"replied", "reply_error"}
      BY <2>2 DEF Safe, WireInv
    <3>4. inbox[d][i][1] = "call" /\ IsRequest(n) =>
            \A j \in 1..Len(inbox'[d]) : inbox'[d][j] = inbox'[d][i] => j = i
      BY <1>3, <1>4, <2>2, <3>2
    <3>5. run[n] \in {"new", "replied", "reply_error"} => run'[n] = run[n]
      BY <1>0, <1>1
    <3>6. asked[n] # "none" => asked'[n] # "none"
      BY <1>0, <1>1, <3>1
    <3> QED BY <1>1, <2>2, <3>2, <3>3, <3>4, <3>5, <3>6
  <2> QED BY <1>4, <2>1, <2>2
<1>6. QueueInv'
  <2>1. \A i \in 1..Len(ready) : ready[i] \in Msgs
    BY DEF TypeOK
  <2> QED BY <1>0, <1>1, <2>1 DEF Safe, QueueInv, IsRequest, Decorator
<1>7. RequestInv'
  BY <1>0, <1>1, <1>2 DEF Safe, RequestInv, IsRequest, Decorator
<1>8. ThreadInv'
  <2>1. ASSUME NEW e \in Ends, io[e] # Nobody
        PROVE  To[io[e]] = e /\ (IsRequest(io[e]) =>
                 /\ run'[io[e]] # "new" /\ io[e] \notin late /\ ~Answered(io[e])'
                 /\ \A d \in Ends : \A i \in 1..Len(inbox'[d]) :
                      inbox'[d][i] # <<"response", io[e]>>)
    <3>1. io[e] \in Msgs
      BY <2>1 DEF TypeOK
    <3>2. To[io[e]] = e /\ (IsRequest(io[e]) =>
                 /\ run[io[e]] # "new" /\ io[e] \notin late /\ ~Answered(io[e])
                 /\ \A d \in Ends : \A i \in 1..Len(inbox[d]) :
                      inbox[d][i] # <<"response", io[e]>>)
      BY <2>1 DEF Safe, ThreadInv
    <3>3. \A d \in Ends : \A i \in 1..Len(inbox'[d]) :
            IsRequest(io[e]) => inbox'[d][i] # <<"response", io[e]>>
      BY <1>4, <3>2
    <3>4. run[io[e]] # "new" => run'[io[e]] # "new"
      BY <1>0, <1>1, <3>1
    <3>5. ~Answered(io[e]) => ~Answered(io[e])'
      BY <1>0, <1>1, <3>1 DEF Answered
    <3> QED BY <3>2, <3>3, <3>4, <3>5
  <2>2. ASSUME NEW g \in Frames, run'[g] = "direct"
        PROVE  g \in Msgs /\ HandlerOf[g] \notin Coroutines /\ io[To[g]] = g
    BY <1>0, <1>1, <2>2 DEF Safe, ThreadInv
  <2> QED BY <1>1, <2>1, <2>2 DEF ThreadInv, IsRequest, Decorator
<1>9. AnswerInv'
  BY <1>0, <1>1 DEF Safe, AnswerInv, Answered, IsRequest, Decorator
<1> QED BY <1>5, <1>6, <1>7, <1>8, <1>9 DEF Safe

\* A frame ends on the loop, or on its thread.
LEMMA EndSafe ==
  ASSUME Assumptions, TypeOK, Safe, NEW f \in Frames, NEW how \in Over,
         run[f] \in Alive \ {"queued"}, End(f, how)
  PROVE  Safe' /\ inbox' \in [Ends -> Seq({"call", "response"} \X Msgs)]
               /\ sent' \in [Ends -> Seq({"call", "response"} \X Msgs)]
               /\ session' \in {"none", "open", "closed"}
               /\ io' \in [Ends -> Msgs \cup {Nobody}]
<1>1. /\ run' = [run EXCEPT ![f] = how] /\ UNCHANGED <<ready, late, asked>>
  BY DEF End, Become, loopVars
<1>2. CASE run[f] = "direct"
  <2>1. f \in Msgs /\ io[To[f]] = f
    BY <1>2 DEF Safe, ThreadInv
  <2>2. Conclude(f, how) /\ io' = [io EXCEPT ![To[f]] = Nobody]
    BY <1>2 DEF End
  <2>3. io' \in [Ends -> Msgs \cup {Nobody}]
    BY <2>2 DEF TypeOK
  <2> QED BY <1>1, <1>2, <2>1, <2>2, <2>3, ConcludeSafe
<1>3. CASE run[f] # "direct"
  <2>1. UNCHANGED <<io, wire>>
    BY <1>3 DEF End
  <2>2. NoNewRequest
    BY <2>1, NothingNew DEF wire
  <2>3. how \in (Alive \cup Over) \ {"queued"} /\ how # "direct"
    BY DEF Alive, Over
  <2> QED BY <1>1, <2>1, <2>2, <2>3, MoveSafe DEF TypeOK, wire
<1> QED BY <1>2, <1>3

\* An exception ends a frame, or goes to its clean-up.
LEMMA RaiseSafe ==
  ASSUME Assumptions, TypeOK, Safe, NEW f \in Frames,
         run[f] \in Alive \ {"queued"}, Raise(f)
  PROVE  Safe' /\ inbox' \in [Ends -> Seq({"call", "response"} \X Msgs)]
               /\ sent' \in [Ends -> Seq({"call", "response"} \X Msgs)]
               /\ session' \in {"none", "open", "closed"}
               /\ io' \in [Ends -> Msgs \cup {Nobody}]
<1>1. CASE Cleanup(f) = {}
  BY <1>1, EndSafe DEF Raise, Over
<1>2. CASE Cleanup(f) # {}
  <2>1. /\ run' = [run EXCEPT ![f] = IF run[f] = "direct" THEN "direct" ELSE "running"]
        /\ UNCHANGED <<inbox, sent, session, io, ready, late, asked>>
    BY <1>2 DEF Raise, Become, wire, loopVars
  <2>2. {"direct", "running"} \subseteq (Alive \cup Over) \ {"queued"}
    BY DEF Alive
  <2>3. PICK s \in (Alive \cup Over) \ {"queued"} :
          run' = [run EXCEPT ![f] = s] /\ (s = "direct" => run[f] = "direct")
    BY <2>1, <2>2
  <2>4. NoNewRequest
    BY <2>1, NothingNew
  <2> QED BY <2>1, <2>3, <2>4, MoveSafe DEF TypeOK
<1> QED BY <1>1, <1>2

\* What an I/O thread takes leaves its inbox, and a request's call was its only
\* one; nothing else in the inboxes changes.
LEMMA TakenElements ==
  ASSUME Assumptions, TypeOK, Safe, NEW e \in Ends, NEW w, Takes(e, w)
  PROVE  /\ Taken(e) \in Msgs
         /\ \A d \in Ends : \A i \in 1..Len(inbox'[d]) :
              \E k \in 1..Len(inbox[d]) : inbox'[d][i] = inbox[d][k]
         /\ \A d \in Ends : \A i, j \in 1..Len(inbox'[d]) :
              /\ inbox'[d][i] = inbox'[d][j]
              /\ inbox'[d][i][1] = "call" /\ IsRequest(inbox'[d][i][2])
              => i = j
         /\ w = "call" =>
              /\ To[Taken(e)] = e
              /\ IsRequest(Taken(e)) =>
                   /\ run[Taken(e)] = "new" /\ asked[Taken(e)] # "none"
                   /\ \A d \in Ends : \A i \in 1..Len(inbox'[d]) :
                        inbox'[d][i] # <<"call", Taken(e)>>
         /\ w = "response" =>
              /\ IsRequest(Taken(e)) /\ Taken(e) \notin late
              /\ run[Taken(e)] \in {"replied", "reply_error"}
              /\ \A d \in Ends : io[d] # Taken(e)
<1> DEFINE m == Taken(e)
<1>1. /\ m \in Msgs /\ inbox[e][1] = <<w, m>> /\ 1 \in 1..Len(inbox[e])
      /\ \A d \in Ends : d # e => inbox'[d] = inbox[d]
      /\ \A i \in 1..Len(inbox'[e]) :
           i + 1 \in 1..Len(inbox[e]) /\ inbox'[e][i] = inbox[e][i + 1]
  BY Taking
<1>2. \A d \in Ends : \A i \in 1..Len(inbox'[d]) :
        \E k \in 1..Len(inbox[d]) : inbox'[d][i] = inbox[d][k]
  BY <1>1
<1>3. ASSUME NEW d \in Ends, NEW i \in 1..Len(inbox'[d]), NEW j \in 1..Len(inbox'[d]),
             inbox'[d][i] = inbox'[d][j], inbox'[d][i][1] = "call", IsRequest(inbox'[d][i][2])
      PROVE  i = j
  <2>1. CASE d # e
    BY <1>1, <1>3, <2>1 DEF Safe, WireInv
  <2>2. CASE d = e
    <3>1. inbox[e][i + 1] = inbox[e][j + 1] /\ i + 1 \in 1..Len(inbox[e]) /\ j + 1 \in 1..Len(inbox[e])
          /\ inbox[e][i + 1][1] = "call" /\ IsRequest(inbox[e][i + 1][2])
      BY <1>1, <1>3, <2>2
    <3>2. i + 1 = j + 1
      BY <3>1 DEF Safe, WireInv
    <3> QED BY <3>2
  <2> QED BY <2>1, <2>2
<1>4. ASSUME w = "call"
      PROVE  /\ To[m] = e
             /\ IsRequest(m) =>
                  /\ run[m] = "new" /\ asked[m] # "none"
                  /\ \A d \in Ends : \A i \in 1..Len(inbox'[d]) : inbox'[d][i] # <<"call", m>>
  <2>1. /\ To[m] = e
        /\ IsRequest(m) =>
             /\ run[m] = "new" /\ asked[m] # "none"
             /\ \A j \in 1..Len(inbox[e]) : inbox[e][j] = inbox[e][1] => j = 1
    BY <1>1, <1>4 DEF Safe, WireInv
  <2>2. ASSUME IsRequest(m), NEW d \in Ends, NEW i \in 1..Len(inbox'[d])
        PROVE  inbox'[d][i] # <<"call", m>>
    <3>1. CASE d = e
      BY <1>1, <1>4, <2>1, <2>2, <3>1
    <3>2. CASE d # e
      <4>1. inbox'[d][i] = inbox[d][i] /\ i \in 1..Len(inbox[d])
        BY <1>1, <3>2
      <4>2. inbox[d][i] = <<"call", m>> => To[m] = d
        BY <4>1 DEF Safe, WireInv
      <4> QED BY <2>1, <3>2, <4>1, <4>2
    <3> QED BY <3>1, <3>2
  <2> QED BY <2>1, <2>2
<1>5. ASSUME w = "response"
      PROVE  /\ IsRequest(m) /\ m \notin late /\ run[m] \in {"replied", "reply_error"}
             /\ \A d \in Ends : io[d] # m
  <2>1. IsRequest(m) /\ m \notin late /\ run[m] \in {"replied", "reply_error"}
    BY <1>1, <1>5 DEF Safe, WireInv
  <2>2. m # Nobody
    BY <1>1 DEF Assumptions, ConstantsAssumption, Frames
  <2> QED BY <1>1, <1>5, <2>1, <2>2 DEF Safe, ThreadInv
<1> QED BY <1>1, <1>2, <1>3, <1>4, <1>5

\* With fewer messages, and the taken one's handler started, dropped or given
\* to the loop.
LEMMA TakeCallSafe ==
  ASSUME Assumptions, TypeOK, Safe, NEW e \in Ends, Takes(e, "call"),
         NEW s \in {"queued", "direct", "dropped", "lost"},
         run' = [run EXCEPT ![Taken(e)] = s], UNCHANGED <<late, asked>>,
         io' = [io EXCEPT ![e] = Taken(e)] \/ UNCHANGED io,
         s = "queued" => HandlerOf[Taken(e)] \in Coroutines /\ ready' = Append(ready, Taken(e)),
         s # "queued" => UNCHANGED ready,
         io' # io => s \in {"queued", "direct"},
         s = "direct" => HandlerOf[Taken(e)] \notin Coroutines /\ io' = [io EXCEPT ![e] = Taken(e)]
  PROVE  Safe'
<1> DEFINE m == Taken(e)
<1>0. /\ run \in [Frames -> {"new"} \cup Alive \cup Over] /\ io \in [Ends -> Msgs \cup {Nobody}]
      /\ Msgs \subseteq Frames /\ m \in Msgs /\ m \in Frames /\ io[e] = Nobody /\ To[m] = e
      /\ m # Nobody /\ ready \in Seq(Msgs)
  <2>1. m \in Msgs /\ To[m] = e
    BY TakenElements
  <2> QED BY <2>1 DEF TypeOK, Frames, Takes, Assumptions, ConstantsAssumption
<1>1. /\ \A f \in Frames : f # m => run'[f] = run[f]
      /\ run'[m] = s /\ s # "new"
      /\ IsRequest(m) => /\ run[m] = "new" /\ asked[m] # "none" /\ m \notin late
                         /\ ~Answered(m)
  BY <1>0, TakenElements DEF Safe, RequestInv, AnswerInv, Answered
<1>a. \A d \in Ends : \A i \in 1..Len(inbox'[d]) :
        \E k \in 1..Len(inbox[d]) : inbox'[d][i] = inbox[d][k]
  BY TakenElements
<1>2. WireInv'
  <2> SUFFICES ASSUME NEW d \in Ends, NEW i \in 1..Len(inbox'[d]),
                      NEW n, n = inbox'[d][i][2]
               PROVE  /\ inbox'[d][i][1] = "call" =>
                           /\ To[n] = d
                           /\ IsRequest(n) => run'[n] = "new" /\ asked'[n] # "none"
                                /\ \A j \in 1..Len(inbox'[d]) :
                                     inbox'[d][j] = inbox'[d][i] => j = i
                      /\ inbox'[d][i][1] = "response" =>
                           IsRequest(n) /\ n \notin late' /\ run'[n] \in {"replied", "reply_error"}
    BY DEF WireInv, IsRequest, Decorator
  <2>1. PICK k \in 1..Len(inbox[d]) : inbox'[d][i] = inbox[d][k]
    BY TakenElements
  <2>2. inbox[d][k] \in {"call", "response"} \X Msgs /\ n \in Msgs
    BY <2>1 DEF TypeOK
  <2>3. inbox[d][k][1] = "call" => To[n] = d /\ (IsRequest(n) => run[n] = "new" /\ asked[n] # "none")
    BY <2>1 DEF Safe, WireInv
  <2>4. inbox[d][k][1] = "response" =>
          IsRequest(n) /\ n \notin late /\ run[n] \in {"replied", "reply_error"}
    BY <2>1 DEF Safe, WireInv
  <2>5. IsRequest(n) => n # m
    <3>1. inbox'[d][i] = <<inbox[d][k][1], n>>
      BY <2>1, <2>2
    <3>2. inbox[d][k][1] = "call" /\ IsRequest(m) => n # m
      <4>1. IsRequest(m) => inbox'[d][i] # <<"call", m>>
        BY TakenElements
      <4> QED BY <3>1, <4>1
    <3>3. inbox[d][k][1] = "response" /\ IsRequest(m) => n # m
      BY <1>1, <2>4
    <3> QED BY <2>2, <3>2, <3>3
  <2>6. inbox'[d][i][1] = "call" /\ IsRequest(n) =>
          \A j \in 1..Len(inbox'[d]) : inbox'[d][j] = inbox'[d][i] => j = i
    BY TakenElements
  <2> QED BY <1>0, <1>1, <2>1, <2>2, <2>3, <2>4, <2>5, <2>6
<1>3. QueueInv'
  <2>1. \A i \in 1..Len(ready) : ready[i] \in Msgs /\ (IsRequest(ready[i]) => ready[i] # m)
    BY <1>0, <1>1 DEF Safe, QueueInv
  <2>2. CASE s # "queued"
    BY <1>0, <1>1, <2>1, <2>2 DEF Safe, QueueInv, IsRequest, Decorator
  <2>3. CASE s = "queued"
    <3>1. /\ Len(ready) \in Nat /\ Len(ready') = Len(ready) + 1 /\ ready'[Len(ready) + 1] = m
          /\ \A i \in 1..Len(ready) : ready'[i] = ready[i]
      BY <1>0, <2>3
    <3>2. ASSUME NEW i \in 1..Len(ready')
          PROVE  /\ HandlerOf[ready'[i]] \in Coroutines
                 /\ IsRequest(ready'[i]) =>
                      /\ run'[ready'[i]] = "queued"
                      /\ \A j \in 1..Len(ready') : ready'[j] = ready'[i] => j = i
      <4>1. CASE i = Len(ready) + 1
        BY <1>1, <2>1, <2>3, <3>1, <4>1
      <4>2. CASE i \in 1..Len(ready)
        <5>1. /\ HandlerOf[ready[i]] \in Coroutines /\ ready'[i] = ready[i]
              /\ IsRequest(ready[i]) => /\ run[ready[i]] = "queued"
                    /\ \A j \in 1..Len(ready) : ready[j] = ready[i] => j = i
          BY <3>1, <4>2 DEF Safe, QueueInv
        <5>2. IsRequest(ready[i]) => run'[ready[i]] = "queued"
          BY <1>0, <1>1, <2>1, <4>2, <5>1
        <5>3. ASSUME IsRequest(ready[i]), NEW j \in 1..Len(ready'), ready'[j] = ready'[i]
              PROVE  j = i
          <6>1. j # Len(ready) + 1
            BY <2>1, <3>1, <4>2, <5>1, <5>3
          <6> QED BY <3>1, <5>1, <5>3, <6>1
        <5> QED BY <5>1, <5>2, <5>3
      <4> QED BY <3>1, <4>1, <4>2
    <3> QED BY <3>2 DEF QueueInv, IsRequest, Decorator
  <2> QED BY <2>2, <2>3
<1>4. RequestInv'
  BY <1>0, <1>1 DEF Safe, RequestInv, IsRequest, Decorator
<1>5. ThreadInv'
  <2>1. ASSUME NEW d \in Ends, io'[d] # Nobody
        PROVE  To[io'[d]] = d /\ (IsRequest(io'[d]) =>
                 /\ run'[io'[d]] # "new" /\ io'[d] \notin late /\ ~Answered(io'[d])
                 /\ \A g \in Ends : \A i \in 1..Len(inbox'[g]) :
                      inbox'[g][i] # <<"response", io'[d]>>)
    <3>1. CASE io'[d] = io[d]
      <4>1. io[d] \in Msgs
        BY <1>0, <2>1, <3>1
      <4>2. To[io[d]] = d /\ (IsRequest(io[d]) =>
               /\ run[io[d]] # "new" /\ io[d] \notin late /\ ~Answered(io[d])
               /\ \A g \in Ends : \A i \in 1..Len(inbox[g]) :
                      inbox[g][i] # <<"response", io[d]>>)
        BY <2>1, <3>1 DEF Safe, ThreadInv
      <4>3. ASSUME IsRequest(io[d]), NEW g \in Ends, NEW i \in 1..Len(inbox'[g])
            PROVE  inbox'[g][i] # <<"response", io[d]>>
        <5>1. PICK k \in 1..Len(inbox[g]) : inbox'[g][i] = inbox[g][k]
          BY <1>a
        <5> QED BY <4>2, <4>3, <5>1
      <4>4. run[io[d]] # "new" => run'[io[d]] # "new"
        BY <1>0, <1>1, <4>1
      <4> QED BY <3>1, <4>2, <4>3, <4>4
    <3>2. CASE io'[d] # io[d]
      <4>1. d = e /\ io'[d] = m
        BY <1>0, <3>2
      <4>2. IsRequest(m) => \A g \in Ends : \A i \in 1..Len(inbox[g]) :
              inbox[g][i] # <<"response", m>>
        <5> SUFFICES ASSUME IsRequest(m), NEW g \in Ends, NEW i \in 1..Len(inbox[g]),
                            inbox[g][i] = <<"response", m>>
                     PROVE  FALSE
          OBVIOUS
        <5>1. run[m] \in {"replied", "reply_error"}
          BY DEF Safe, WireInv
        <5> QED BY <1>1, <5>1
      <4>3. ASSUME IsRequest(m), NEW g \in Ends, NEW i \in 1..Len(inbox'[g])
            PROVE  inbox'[g][i] # <<"response", m>>
        <5>1. PICK k \in 1..Len(inbox[g]) : inbox'[g][i] = inbox[g][k]
          BY <1>a
        <5> QED BY <4>2, <4>3, <5>1
      <4> QED BY <1>0, <1>1, <4>1, <4>3
    <3> QED BY <3>1, <3>2
  <2>2. ASSUME NEW f \in Frames, run'[f] = "direct"
        PROVE  f \in Msgs /\ HandlerOf[f] \notin Coroutines /\ io'[To[f]] = f
    <3>1. CASE f = m
      BY <1>0, <1>1, <2>2, <3>1
    <3>2. CASE f # m
      <4>1. f \in Msgs /\ HandlerOf[f] \notin Coroutines /\ io[To[f]] = f
        BY <1>1, <2>2, <3>2 DEF Safe, ThreadInv
      <4>2. To[f] # e /\ To[f] \in Ends
        BY <1>0, <4>1 DEF Assumptions, ConstantsAssumption, Frames
      <4> QED BY <1>0, <4>1, <4>2
    <3> QED BY <3>1, <3>2
  <2> QED BY <2>1, <2>2 DEF ThreadInv, IsRequest, Decorator, Answered
<1>6. AnswerInv'
  BY <1>0, <1>1 DEF Safe, AnswerInv, Answered, IsRequest, Decorator
<1> QED BY <1>2, <1>3, <1>4, <1>5, <1>6 DEF Safe

\* A response settles its request: its handler has replied and was not given up.
LEMMA ResponseSafe ==
  ASSUME Assumptions, TypeOK, Safe, NEW e \in Ends, TakeResponse(e) PROVE Safe'
<1> DEFINE m == Taken(e)
<1>1. /\ Takes(e, "response") /\ UNCHANGED <<io, run, ready, late>>
      /\ asked' = IF asked[m] # "waiting" THEN asked ELSE
           [asked EXCEPT ![m] = IF run[m] = "replied" THEN "answer" ELSE "error_payload"]
  BY DEF TakeResponse, loopVars
<1>2. /\ m \in Msgs /\ IsRequest(m) /\ m \notin late /\ run[m] \in {"replied", "reply_error"}
      /\ \A d \in Ends : io[d] # m
  BY <1>1, TakenElements
<1>3. \A r \in Msgs : r # m => asked'[r] = asked[r]
  BY <1>1, <1>2 DEF TypeOK
<1>4. \A r \in Msgs : asked[r] = "none" <=> asked'[r] = "none"
  BY <1>1, <1>2 DEF TypeOK
<1>5. asked'[m] = asked[m] \/ asked'[m] = IF run[m] = "replied" THEN "answer" ELSE "error_payload"
  BY <1>1, <1>2 DEF TypeOK
<1>6. WireInv'
  <2> SUFFICES ASSUME NEW d \in Ends, NEW i \in 1..Len(inbox'[d]),
                      NEW n, n = inbox'[d][i][2]
               PROVE  /\ inbox'[d][i][1] = "call" =>
                           /\ To[n] = d
                           /\ IsRequest(n) => run'[n] = "new" /\ asked'[n] # "none"
                                /\ \A j \in 1..Len(inbox'[d]) :
                                     inbox'[d][j] = inbox'[d][i] => j = i
                      /\ inbox'[d][i][1] = "response" =>
                           IsRequest(n) /\ n \notin late' /\ run'[n] \in {"replied", "reply_error"}
    BY DEF WireInv, IsRequest, Decorator
  <2>1. PICK k \in 1..Len(inbox[d]) : inbox'[d][i] = inbox[d][k]
    BY <1>1, TakenElements
  <2>2. n \in Msgs
    BY <2>1 DEF TypeOK
  <2>3. /\ inbox[d][k][1] = "call" =>
             To[n] = d /\ (IsRequest(n) => run[n] = "new" /\ asked[n] # "none")
        /\ inbox[d][k][1] = "response" =>
             IsRequest(n) /\ n \notin late /\ run[n] \in {"replied", "reply_error"}
    BY <2>1 DEF Safe, WireInv
  <2>4. inbox'[d][i][1] = "call" /\ IsRequest(n) =>
          \A j \in 1..Len(inbox'[d]) : inbox'[d][j] = inbox'[d][i] => j = i
    BY <1>1, TakenElements
  <2> QED BY <1>1, <1>4, <2>1, <2>2, <2>3, <2>4
<1>7. QueueInv'
  BY <1>1 DEF Safe, QueueInv, IsRequest, Decorator
<1>8. RequestInv'
  BY <1>1, <1>4 DEF Safe, RequestInv, IsRequest, Decorator
<1>9. ThreadInv'
  <2>1. ASSUME NEW d \in Ends, io[d] # Nobody
        PROVE  To[io[d]] = d /\ (IsRequest(io[d]) =>
                 /\ run[io[d]] # "new" /\ io[d] \notin late /\ ~Answered(io[d])'
                 /\ \A g \in Ends : \A i \in 1..Len(inbox'[g]) :
                      inbox'[g][i] # <<"response", io[d]>>)
    <3>1. To[io[d]] = d /\ (IsRequest(io[d]) =>
             /\ run[io[d]] # "new" /\ io[d] \notin late /\ ~Answered(io[d])
             /\ \A g \in Ends : \A i \in 1..Len(inbox[g]) :
                    inbox[g][i] # <<"response", io[d]>>)
      BY <2>1 DEF Safe, ThreadInv
    <3>2. \A g \in Ends : \A i \in 1..Len(inbox'[g]) :
            IsRequest(io[d]) => inbox'[g][i] # <<"response", io[d]>>
      <4>1. \A g \in Ends : \A i \in 1..Len(inbox'[g]) :
              \E k \in 1..Len(inbox[g]) : inbox'[g][i] = inbox[g][k]
        BY <1>1, TakenElements
      <4>2. IsRequest(io[d]) => \A g \in Ends : \A i \in 1..Len(inbox[g]) :
                                  inbox[g][i] # <<"response", io[d]>>
        BY <3>1
      <4> SUFFICES ASSUME NEW g \in Ends, NEW i \in 1..Len(inbox'[g]), IsRequest(io[d])
                   PROVE  inbox'[g][i] # <<"response", io[d]>>
        OBVIOUS
      <4>3. PICK k \in 1..Len(inbox[g]) : inbox'[g][i] = inbox[g][k]
        BY <4>1
      <4>4. inbox[g][k] # <<"response", io[d]>>
        BY <4>2
      <4> QED BY <4>3, <4>4
    <3>3. asked'[io[d]] = asked[io[d]]
      <4>1. io[d] \in Msgs
        BY <2>1 DEF TypeOK
      <4> QED BY <1>2, <1>3, <4>1
    <3>4. ~Answered(io[d]) => ~Answered(io[d])'
      BY <1>1, <3>3 DEF Answered
    <3> QED BY <1>1, <3>1, <3>2, <3>4
  <2>2. \A f \in Frames : run[f] = "direct" =>
          f \in Msgs /\ HandlerOf[f] \notin Coroutines /\ io[To[f]] = f
    BY DEF Safe, ThreadInv
  <2> QED BY <1>1, <2>1, <2>2 DEF ThreadInv, IsRequest, Decorator
<1>10. AnswerInv'
  <2> SUFFICES ASSUME NEW r \in Msgs, asked'[r] \in {"answer", "error_payload"}
               PROVE  /\ IsRequest(r) /\ r \notin late
                      /\ run[r] = (IF asked'[r] = "answer" THEN "replied" ELSE "reply_error")
    BY <1>1 DEF AnswerInv, Answered, IsRequest, Decorator
  <2>1. CASE asked'[r] = asked[r]
    BY <2>1 DEF Safe, AnswerInv, Answered
  <2>2. CASE asked'[r] # asked[r]
    BY <1>2, <1>3, <1>5, <2>2
  <2> QED BY <2>1, <2>2
<1> QED BY <1>6, <1>7, <1>8, <1>9, <1>10 DEF Safe

\* The loop starts the coroutine at the head of its queue.
LEMMA StartSafe ==
  ASSUME Assumptions, TypeOK, Safe, StartTask
  PROVE  Safe' /\ ready' \in Seq(Msgs) /\ Head(ready) \in Msgs
<1> DEFINE m == Head(ready)
<1>1. /\ ready # <<>> /\ ready' = Tail(ready) /\ run' = [run EXCEPT ![m] = "running"]
      /\ UNCHANGED <<inbox, io, asked, late>>
  BY DEF StartTask, Enter, Become, LoopFrame, wire
<1>2. /\ ready \in Seq(Msgs) /\ run \in [Frames -> {"new"} \cup Alive \cup Over]
      /\ Msgs \subseteq Frames /\ io \in [Ends -> Msgs \cup {Nobody}]
  BY DEF TypeOK, Frames
<1>3. /\ Len(ready) \in Nat \ {0} /\ m = ready[1] /\ m \in Msgs /\ ready' \in Seq(Msgs)
      /\ Len(ready') = Len(ready) - 1 /\ \A i \in 1..Len(ready) : ready[i] \in Msgs
      /\ \A i \in 1..Len(ready') : ready'[i] = ready[i + 1]
  BY <1>1, <1>2
<1>4. \A i \in 1..Len(ready') : i + 1 \in 1..Len(ready) /\ i + 1 # 1
  BY <1>3
<1>5. /\ HandlerOf[m] \in Coroutines /\ (IsRequest(m) => run[m] = "queued")
      /\ IsRequest(m) => \A i \in 1..Len(ready') : ready'[i] # m
  BY <1>3, <1>4 DEF Safe, QueueInv
<1>6. run'[m] = "running" /\ \A f \in Frames : f # m => run'[f] = run[f]
  BY <1>1, <1>2, <1>3
<1>7. WireInv'
  <2> SUFFICES ASSUME NEW d \in Ends, NEW i \in 1..Len(inbox[d]),
                      NEW n, n = inbox[d][i][2]
               PROVE  /\ inbox[d][i][1] = "call" =>
                           /\ To[n] = d
                           /\ IsRequest(n) => run'[n] = "new" /\ asked[n] # "none"
                                /\ \A j \in 1..Len(inbox[d]) :
                                     inbox[d][j] = inbox[d][i] => j = i
                      /\ inbox[d][i][1] = "response" =>
                           IsRequest(n) /\ n \notin late /\ run'[n] \in {"replied", "reply_error"}
    BY <1>1 DEF WireInv, IsRequest, Decorator
  <2>1. n \in Msgs
    BY DEF TypeOK
  <2>2. IsRequest(n) /\ run[n] \in {"new", "replied", "reply_error"} => run'[n] = run[n]
    BY <1>2, <1>5, <1>6, <2>1
  <2> QED BY <2>1, <2>2 DEF Safe, WireInv
<1>8. QueueInv'
  <2> SUFFICES ASSUME NEW i \in 1..Len(ready')
               PROVE  /\ HandlerOf[ready'[i]] \in Coroutines
                      /\ IsRequest(ready'[i]) =>
                           /\ run'[ready'[i]] = "queued"
                           /\ \A j \in 1..Len(ready') : ready'[j] = ready'[i] => j = i
    BY DEF QueueInv, IsRequest, Decorator
  <2>1. /\ HandlerOf[ready[i + 1]] \in Coroutines /\ ready'[i] = ready[i + 1]
        /\ IsRequest(ready[i + 1]) =>
             /\ run[ready[i + 1]] = "queued"
             /\ \A j \in 1..Len(ready) : ready[j] = ready[i + 1] => j = i + 1
    BY <1>3, <1>4 DEF Safe, QueueInv
  <2>2. IsRequest(ready'[i]) => run'[ready'[i]] = "queued"
    BY <1>2, <1>3, <1>4, <1>5, <1>6, <2>1
  <2>3. ASSUME IsRequest(ready'[i]), NEW j \in 1..Len(ready'), ready'[j] = ready'[i]
        PROVE  j = i
    <3>1. j + 1 = i + 1
      BY <1>3, <1>4, <2>1, <2>3
    <3> QED BY <3>1
  <2> QED BY <2>1, <2>2, <2>3
<1>9. RequestInv'
  BY <1>1, <1>2, <1>3, <1>5, <1>6 DEF Safe, RequestInv, IsRequest, Decorator
<1>10. ThreadInv'
  <2>1. ASSUME NEW d \in Ends, io[d] # Nobody
        PROVE  To[io[d]] = d /\ (IsRequest(io[d]) =>
                 /\ run'[io[d]] # "new" /\ io[d] \notin late /\ ~Answered(io[d])
                 /\ \A g \in Ends : \A i \in 1..Len(inbox[g]) :
                      inbox[g][i] # <<"response", io[d]>>)
    <3>1. To[io[d]] = d /\ (IsRequest(io[d]) =>
             /\ run[io[d]] # "new" /\ io[d] \notin late /\ ~Answered(io[d])
             /\ \A g \in Ends : \A i \in 1..Len(inbox[g]) :
                    inbox[g][i] # <<"response", io[d]>>)
      BY <2>1 DEF Safe, ThreadInv
    <3>2. io[d] \in Frames
      BY <1>2, <2>1
    <3> QED BY <1>6, <3>1, <3>2
  <2>2. ASSUME NEW f \in Frames, run'[f] = "direct"
        PROVE  f \in Msgs /\ HandlerOf[f] \notin Coroutines /\ io[To[f]] = f
    BY <1>6, <2>2 DEF Safe, ThreadInv
  <2> QED BY <1>1, <2>1, <2>2 DEF ThreadInv, IsRequest, Decorator, Answered
<1>11. AnswerInv'
  BY <1>1, <1>2, <1>5, <1>6 DEF Safe, AnswerInv, Answered, IsRequest, Decorator
<1> QED BY <1>3, <1>7, <1>8, <1>9, <1>10, <1>11 DEF Safe

\* An I/O thread gives a coroutine up: no response of it exists, nor will.
LEMMA ExpireSafe ==
  ASSUME Assumptions, TypeOK, Safe, NEW e \in Ends, ResultExpires(e)
  PROVE  Safe' /\ io' \in [Ends -> Msgs \cup {Nobody}] /\ late' \subseteq Msgs
<1> DEFINE m == io[e]
<1>1. /\ m # Nobody /\ run[m] # "direct" /\ late' = late \cup {m}
      /\ io' = [io EXCEPT ![e] = Nobody] /\ UNCHANGED <<inbox, run, ready, asked>>
  BY DEF ResultExpires, wire
<1>2. /\ io \in [Ends -> Msgs \cup {Nobody}] /\ m \in Msgs /\ late \subseteq Msgs
  BY <1>1 DEF TypeOK
<1>3. To[m] = e /\ (IsRequest(m) =>
             /\ run[m] # "new" /\ ~Answered(m)
             /\ \A g \in Ends : \A i \in 1..Len(inbox[g]) : inbox[g][i] # <<"response", m>>)
  BY <1>1 DEF Safe, ThreadInv
<1>4. WireInv'
  <2> SUFFICES ASSUME NEW d \in Ends, NEW i \in 1..Len(inbox[d]),
                      NEW n, n = inbox[d][i][2], inbox[d][i][1] = "response"
               PROVE  IsRequest(n) /\ n \notin late' /\ run[n] \in {"replied", "reply_error"}
    BY <1>1 DEF Safe, WireInv, IsRequest, Decorator
  <2>1. inbox[d][i] \in {"call", "response"} \X Msgs
    BY DEF TypeOK
  <2>2. inbox[d][i] = <<"response", n>>
    BY <2>1
  <2>3. IsRequest(n) /\ n \notin late /\ run[n] \in {"replied", "reply_error"}
    BY DEF Safe, WireInv
  <2> QED BY <1>1, <1>3, <2>2, <2>3
<1>5. QueueInv'
  BY <1>1 DEF Safe, QueueInv, IsRequest, Decorator
<1>6. RequestInv'
  BY <1>1, <1>3 DEF Safe, RequestInv, IsRequest, Decorator
<1>7. ThreadInv'
  <2>1. ASSUME NEW d \in Ends, io'[d] # Nobody
        PROVE  To[io'[d]] = d /\ (IsRequest(io'[d]) =>
                 /\ run[io'[d]] # "new" /\ io'[d] \notin late' /\ ~Answered(io'[d])
                 /\ \A g \in Ends : \A i \in 1..Len(inbox[g]) :
                      inbox[g][i] # <<"response", io'[d]>>)
    <3>1. d # e /\ io'[d] = io[d]
      BY <1>1, <1>2, <2>1
    <3>2. To[io[d]] = d /\ (IsRequest(io[d]) =>
             /\ run[io[d]] # "new" /\ io[d] \notin late /\ ~Answered(io[d])
             /\ \A g \in Ends : \A i \in 1..Len(inbox[g]) :
                    inbox[g][i] # <<"response", io[d]>>)
      BY <2>1, <3>1 DEF Safe, ThreadInv
    <3> QED BY <1>1, <1>3, <3>1, <3>2
  <2>2. ASSUME NEW f \in Frames, run[f] = "direct"
        PROVE  f \in Msgs /\ HandlerOf[f] \notin Coroutines /\ io'[To[f]] = f
    <3>1. f \in Msgs /\ HandlerOf[f] \notin Coroutines /\ io[To[f]] = f
      BY <2>2 DEF Safe, ThreadInv
    <3>2. To[f] # e /\ To[f] \in Ends
      BY <1>1, <2>2, <3>1 DEF Assumptions, ConstantsAssumption
    <3> QED BY <1>1, <1>2, <3>1, <3>2
  <2> QED BY <1>1, <2>1, <2>2 DEF ThreadInv, IsRequest, Decorator, Answered
<1>8. AnswerInv'
  <2> SUFFICES ASSUME NEW r \in Msgs, asked[r] \in {"answer", "error_payload"}
               PROVE  /\ IsRequest(r) /\ r \notin late'
                      /\ run[r] = (IF asked[r] = "answer" THEN "replied" ELSE "reply_error")
    BY <1>1 DEF AnswerInv, Answered, IsRequest, Decorator
  <2> QED BY <1>1, <1>3 DEF Safe, AnswerInv, Answered
<1>9. io' \in [Ends -> Msgs \cup {Nobody}] /\ late' \subseteq Msgs
  BY <1>1, <1>2
<1> QED BY <1>4, <1>5, <1>6, <1>7, <1>8, <1>9 DEF Safe

-----------------------------------------------------------------------------
\* Where a frame does something, it runs.
LEMMA Doing ==
  ASSUME NEW f \in Frames
  PROVE  /\ \A v : Does(f, v) => run[f] \in Alive \ {"queued"} /\ Reached(f, v)
         /\ run[f] \in {"running", "direct", "awake", "awaiting", "blocked"}
              => run[f] \in Alive \ {"queued"}
         /\ {"replied", "reply_error", "returned", "raised", "cancelled"} \subseteq Over
         /\ {"running", "awake", "awaiting", "blocked"} \subseteq (Alive \cup Over) \ {"queued"}
BY DEF Does, Alive, Over

\* A step of a frame's program.
LEMMA FrameSafe ==
  ASSUME Assumptions, TypeOK, Positive, Safe, NEW f \in Frames,
         \/ Return(f) \/ Send(f) \/ Write(f) \/ SendFails(f) \/ AsyncRequest(f)
         \/ SyncRequest(f) \/ SetEvent(f) \/ Await(f) \/ Register(f) \/ Attach(f)
         \/ Start(f) \/ Connect(f) \/ StopBegins(f) \/ StopEnds(f)
         \/ Resume(f) \/ ResumeTimedOut(f) \/ Unblock(f) \/ WaitExpires(f)
  PROVE  Safe'
<1>0. To \in [Msgs -> Ends]
  BY DEF Assumptions, ConstantsAssumption
<1>1. ASSUME NEW s \in {"running", "awake", "awaiting", "blocked"},
             run[f] \in {"running", "direct", "awake", "awaiting", "blocked"},
             Become(f, s), NoNewRequest, UNCHANGED <<io, ready, late, asked>>
      PROVE  Safe'
  BY <1>1, Doing, MoveSafe DEF Become
<1>2. ASSUME UNCHANGED run, NoNewRequest, UNCHANGED <<io, ready, late, asked>>
      PROVE  Safe'
  BY <1>2, MoveSafe
<1>3. CASE Return(f)
  <2>1. run[f] \in Alive \ {"queued"}
    BY <1>3, Doing DEF Return
  <2>2. (\E how \in Over : End(f, how)) \/ Raise(f)
    BY <1>3, Doing DEF Return
  <2> QED BY <2>1, <2>2, EndSafe, RaiseSafe
<1>4. CASE Send(f) \/ Write(f)
  <2>1. \E v \in {"send", "write"} : Does(f, v) /\ Reached(f, v)
    BY <1>4, Doing DEF Send, Write
  <2>2. Arg(f) \in Msgs /\ ~IsRequest(Arg(f)) /\ To[Arg(f)] \in Ends
    BY <1>0, <2>1, Arguments DEF Fits, Arg
  <2>3. Deliver(To[Arg(f)], "call", Arg(f)) /\ UNCHANGED <<io, ready, late, asked>>
    BY <1>4 DEF Send, Write, loopVars
  <2>4. NoNewRequest
    BY <2>2, <2>3, NothingNew
  <2> QED BY <1>1, <1>2, <1>4, <2>3, <2>4 DEF Send, Write
<1>5. CASE SendFails(f) \/ ResumeTimedOut(f)
  <2>1. Raise(f) /\ run[f] \in Alive \ {"queued"}
    BY <1>5, Doing DEF SendFails, ResumeTimedOut
  <2> QED BY <2>1, RaiseSafe
<1>6. CASE AsyncRequest(f) \/ SyncRequest(f)
  <2>1. \E v \in {"async_request", "sync_request"} : Does(f, v) /\ Reached(f, v)
    BY <1>6, Doing DEF AsyncRequest, SyncRequest
  <2>2. Arg(f) \in Msgs /\ IsRequest(Arg(f))
    BY <2>1, Arguments DEF Fits, Arg
  <2>3. CASE Raise(f)
    BY <2>1, <2>3, Doing, RaiseSafe
  <2>4. CASE run[f] = "running" /\ \E s \in {"awaiting", "blocked"} : Ask(f, s)
    BY <2>2, <2>4, AskSafe
  <2>5. Raise(f) \/ (run[f] = "running" /\ \E s \in {"awaiting", "blocked"} : Ask(f, s))
    BY <1>6 DEF AsyncRequest, SyncRequest, Does
  <2> QED BY <2>3, <2>4, <2>5
<1>7. CASE SetEvent(f) \/ Register(f) \/ Attach(f) \/ Start(f)
  <2>1. UNCHANGED <<inbox, run, io, ready, late, asked>>
    BY <1>7 DEF SetEvent, Register, Attach, Start, wire, loopVars
  <2> QED BY <1>2, <2>1, NothingNew
<1>8. CASE Await(f)
  <2>1. UNCHANGED <<inbox, io, ready, late, asked>> /\ run[f] = "running"
        /\ (UNCHANGED run \/ Become(f, "awaiting"))
    BY <1>8 DEF Await, wire, loopVars
  <2> QED BY <1>1, <1>2, <2>1, NothingNew
<1>9. CASE Connect(f)
  <2>1. Arg(f) \in Msgs /\ ~IsRequest(Arg(f)) /\ To[Arg(f)] \in Ends
    <3>1. Reached(f, "connect")
      BY <1>9 DEF Connect, Does
    <3>2. Fits(Code(f)[at[f]]) /\ Code(f)[at[f]].do = "connect"
      BY <3>1, Arguments
    <3> QED BY <1>0, <3>2 DEF Fits, Arg
  <2>2. (UNCHANGED inbox \/ Deliver(To[Arg(f)], "call", Arg(f)))
        /\ UNCHANGED <<run, io, ready, late, asked>>
    BY <1>9 DEF Connect, wire, loopVars
  <2> QED BY <1>2, <2>1, <2>2, NothingNew
<1>10. CASE StopBegins(f)
  <2>1. CASE run[f] = "direct"
    BY <1>10, <2>1, Doing, RaiseSafe DEF StopBegins
  <2>2. CASE run[f] # "direct"
    <3>1. Become(f, "blocked") /\ UNCHANGED <<inbox, io, ready, late, asked>>
          /\ run[f] = "running"
      BY <1>10, <2>2 DEF StopBegins, Does, wire, loopVars
    <3> QED BY <1>1, <3>1, NothingNew
  <2> QED BY <2>1, <2>2
<1>11. CASE StopEnds(f) \/ Resume(f)
  <2>1. Become(f, "running") /\ UNCHANGED <<inbox, io, ready, late, asked>>
        /\ run[f] \in {"blocked", "awake", "awaiting"}
    BY <1>11 DEF StopEnds, Resume, Enter, LoopFrame, wire, loopVars
  <2> QED BY <1>1, <2>1, NothingNew
<1>12. CASE Unblock(f) \/ WaitExpires(f)
  <2>1. run[f] \in {"blocked", "awaiting"}
    BY <1>12 DEF Unblock, WaitExpires
  <2>2. CASE Raise(f)
    BY <2>1, <2>2, Doing, RaiseSafe
  <2>3. CASE ~Raise(f)
    <3>1. Become(f, "running") /\ UNCHANGED <<inbox, io, ready, late, asked>>
      BY <1>12, <2>3 DEF Unblock, WaitExpires, Enter, LoopFrame, wire, loopVars
    <3> QED BY <1>1, <2>1, <3>1, NothingNew
  <2> QED BY <2>2, <2>3
<1> QED BY <1>3, <1>4, <1>5, <1>6, <1>7, <1>8, <1>9, <1>10, <1>11, <1>12

\* Every step keeps the promise that answers are earned.
LEMMA SafeStep ==
  Assumptions /\ TypeOK /\ Positive /\ Safe /\ [Next]_vars => Safe'
<1> SUFFICES ASSUME Assumptions, TypeOK, Positive, Safe, [Next]_vars
             PROVE  Safe'
  OBVIOUS
<1>1. ASSUME NEW m \in Msgs, CancelTask(m) PROVE Safe'
  BY <1>1, EndSafe, RaiseSafe, Doing DEF CancelTask, Frames
<1>2. ASSUME NEW e \in Ends, AcceptLoopRuns(e) PROVE Safe'
  BY <1>2, MoveSafe, NothingNew DEF AcceptLoopRuns, wire, loopVars
<1>3. ASSUME NEW e \in Ends, TakeInVain(e) \/ TakeCoroutine(e) \/ TakeSync(e) PROVE Safe'
  <2>1. CASE TakeInVain(e)
    BY <2>1, TakeCallSafe DEF TakeInVain, Become, loopVars
  <2>2. CASE TakeCoroutine(e)
    BY <2>2, TakeCallSafe DEF TakeCoroutine, Become
  <2>3. CASE TakeSync(e)
    BY <2>3, TakeCallSafe DEF TakeSync, Become, loopVars
  <2> QED BY <1>3, <2>1, <2>2, <2>3
<1>4. ASSUME NEW e \in Ends, ResultArrives(e) PROVE Safe'
  <2>1. /\ io[e] \in Msgs /\ run[io[e]] \in Over /\ UNCHANGED <<run, ready, late, asked>>
        /\ io' = [io EXCEPT ![e] = Nobody] /\ Conclude(io[e], run[io[e]])
    BY <1>4 DEF ResultArrives, TypeOK, loopVars
  <2>2. To[io[e]] = e
    BY <1>4 DEF ResultArrives, Safe, ThreadInv
  <2>3. run' = [run EXCEPT ![io[e]] = run[io[e]]]
    BY <2>1 DEF TypeOK
  <2> QED BY <2>1, <2>2, <2>3, ConcludeSafe
<1>5. ASSUME NEW r \in Msgs, RequestExpires(r) PROVE Safe'
  <2>1. /\ UNCHANGED <<inbox, io, run, ready, late>> /\ asked[r] = "waiting"
        /\ asked'[r] = "timeout" /\ \A m \in Msgs : m # r => asked'[m] = asked[m]
    BY <1>5 DEF RequestExpires, TypeOK, wire, loopVars
  <2>2. \A m \in Msgs : (asked[m] = "none" <=> asked'[m] = "none")
                        /\ (Answered(m)' => Answered(m) /\ asked'[m] = asked[m])
    BY <2>1 DEF Answered
  <2>3. WireInv'
    <3>1. \A d \in Ends : \A i \in 1..Len(inbox[d]) : inbox[d][i][2] \in Msgs
      BY DEF TypeOK
    <3> QED BY <2>1, <2>2, <3>1 DEF Safe, WireInv, IsRequest, Decorator
  <2>4. QueueInv' /\ RequestInv'
    BY <2>1, <2>2 DEF Safe, QueueInv, RequestInv, IsRequest, Decorator
  <2>5. ThreadInv'
    <3>1. \A e \in Ends : io[e] # Nobody => io[e] \in Msgs
      BY DEF TypeOK
    <3> QED BY <2>1, <2>2, <3>1 DEF Safe, ThreadInv, IsRequest, Decorator
  <2>6. AnswerInv'
    BY <2>1, <2>2 DEF Safe, AnswerInv, Answered, IsRequest, Decorator
  <2> QED BY <2>3, <2>4, <2>5, <2>6 DEF Safe
<1>6. CASE LoseSession
  <2>1. NoNewRequest
    BY <1>6 DEF LoseSession, NoNewRequest
  <2> QED BY <1>6, <2>1, MoveSafe DEF LoseSession, loopVars
<1>7. CASE UNCHANGED vars
  BY <1>7, MoveSafe, NothingNew DEF vars, wire, loopVars
<1>8. CASE Expire
  BY <1>5, <1>8, ExpireSafe, FrameSafe DEF Expire
<1>9. CASE Step
  BY <1>1, <1>2, <1>3, <1>4, <1>9, ResponseSafe, FrameSafe, StartSafe DEF Step
<1> QED BY <1>6, <1>7, <1>8, <1>9 DEF Next, Goes

-----------------------------------------------------------------------------
(* Type correctness. *)

\* The parts of TypeOK that the steps of a program share.
RunType == run \in [Frames -> {"new"} \cup Alive \cup Over]
AtType == at \in [Frames -> Nat] /\ Positive
WireType == /\ session \in {"none", "open", "closed"}
            /\ inbox \in [Ends -> Seq({"call", "response"} \X Msgs)]
            /\ sent \in [Ends -> Seq({"call", "response"} \X Msgs)]
            /\ io \in [Ends -> Msgs \cup {Nobody}]
LoopType == ready \in Seq(Msgs) /\ late \subseteq Msgs
BindingType == attached \subseteq Ends /\ bound \in [Handlers -> {"none", "direct", "loop"}]
RestType == /\ scene \in Scenes
            /\ up \in [Ends -> {"new", "starting", "up", "stopping", "hung", "down"}]
            /\ asked \in [Msgs -> {"none", "waiting", "answer", "error_payload", "timeout"}]
            /\ begun \in Seq(Msgs)

LEMMA TypeParts ==
  TypeOK /\ Positive
    <=> RunType /\ AtType /\ WireType /\ LoopType /\ BindingType /\ RestType
BY DEF TypeOK, RunType, AtType, WireType, LoopType, BindingType, RestType

LEMMA PartsType ==
  ASSUME RunType', AtType', WireType', LoopType', BindingType', RestType'
  PROVE  (TypeOK /\ Positive)'
BY DEF TypeOK, RunType, AtType, WireType, LoopType, BindingType, RestType

LEMMA RunStep ==
  ASSUME RunType, NEW f \in Frames, NEW s \in Alive \cup Over, Become(f, s)
  PROVE  RunType'
BY DEF RunType, Become

LEMMA AtStep ==
  ASSUME AtType, NEW f \in Frames, Next1(f) \/ UNCHANGED at
  PROVE  AtType'
BY DEF AtType, Next1, Positive

LEMMA RaiseType ==
  ASSUME Assumptions, TypeOK, Positive, Safe, NEW f \in Frames,
         run[f] \in Alive \ {"queued"}, Raise(f), UNCHANGED scene
  PROVE  (TypeOK /\ Positive)'
<1>0. RunType /\ AtType /\ WireType /\ LoopType /\ BindingType /\ RestType
  BY TypeParts
<1>1. WireType'
  BY RaiseSafe DEF WireType
<1>2. RunType'
  BY <1>0, RunStep DEF Raise, End, Alive, Over
<1>3. AtType'
  <2>1. CASE Cleanup(f) = {}
    BY <1>0, <2>1, AtStep DEF Raise, End
  <2>2. CASE Cleanup(f) # {}
    <3>1. \A i \in Cleanup(f) : i \in Nat /\ i >= 1
      BY <1>0 DEF Cleanup, AtType, Positive
    <3>2. (CHOOSE i \in Cleanup(f) : TRUE) \in Cleanup(f)
      BY <2>2
    <3> QED BY <1>0, <2>2, <3>1, <3>2 DEF Raise, AtType, Positive
  <2> QED BY <2>1, <2>2
<1>4. LoopType' /\ BindingType' /\ RestType'
  BY <1>0 DEF Raise, End, LoopType, BindingType, RestType, loopVars, binding
<1> QED BY <1>1, <1>2, <1>3, <1>4, PartsType

LEMMA EndType ==
  ASSUME Assumptions, TypeOK, Positive, Safe, NEW f \in Frames, NEW how \in Over,
         run[f] \in Alive \ {"queued"}, End(f, how), UNCHANGED scene
  PROVE  (TypeOK /\ Positive)'
<1>0. RunType /\ AtType /\ WireType /\ LoopType /\ BindingType /\ RestType
  BY TypeParts
<1>1. WireType'
  BY EndSafe DEF WireType
<1>2. RunType'
  BY <1>0, RunStep DEF End
<1>3. AtType'
  BY <1>0, AtStep DEF End
<1>4. LoopType' /\ BindingType' /\ RestType'
  BY <1>0 DEF End, LoopType, BindingType, RestType, loopVars, binding
<1> QED BY <1>1, <1>2, <1>3, <1>4, PartsType

LEMMA FrameType ==
  ASSUME Assumptions, TypeOK, Positive, Safe, NEW f \in Frames, UNCHANGED scene,
         \/ Return(f) \/ Send(f) \/ Write(f) \/ SendFails(f) \/ AsyncRequest(f)
         \/ SyncRequest(f) \/ SetEvent(f) \/ Await(f) \/ Register(f) \/ Attach(f)
         \/ Start(f) \/ Connect(f) \/ StopBegins(f) \/ StopEnds(f)
         \/ Resume(f) \/ ResumeTimedOut(f) \/ Unblock(f) \/ WaitExpires(f)
  PROVE  (TypeOK /\ Positive)'
<1>0. /\ To \in [Msgs -> Ends]
      /\ RunType /\ AtType /\ WireType /\ LoopType /\ BindingType /\ RestType
  BY TypeParts DEF Assumptions, ConstantsAssumption
<1>1. ASSUME RunType', AtType', WireType', LoopType', BindingType', RestType'
      PROVE  (TypeOK /\ Positive)'
  BY <1>1, PartsType
<1>2. {"running", "awake", "awaiting", "blocked"} \subseteq Alive \cup Over
  BY DEF Alive
<1>3. UNCHANGED run => RunType'
  BY <1>0 DEF RunType
<1>4. UNCHANGED <<session, inbox, sent, io>> => WireType'
  BY <1>0 DEF WireType
<1>5. UNCHANGED <<ready, late>> => LoopType'
  BY <1>0 DEF LoopType
<1>6. UNCHANGED <<attached, bound>> => BindingType'
  BY <1>0 DEF BindingType
<1>7. UNCHANGED <<up, asked, begun>> => RestType'
  BY <1>0 DEF RestType
<1>8. CASE Return(f)
  <2>1. run[f] \in Alive \ {"queued"}
    BY <1>8, Doing DEF Return
  <2>2. (\E how \in Over : End(f, how)) \/ Raise(f)
    BY <1>8, Doing DEF Return
  <2> QED BY <2>1, <2>2, EndType, RaiseType
<1>9. CASE Send(f) \/ Write(f)
  <2>1. \E v \in {"send", "write"} : Does(f, v) /\ Reached(f, v)
    BY <1>9, Doing DEF Send, Write
  <2>2. Arg(f) \in Msgs /\ To[Arg(f)] \in Ends
    BY <1>0, <2>1, Arguments DEF Fits, Arg
  <2>3. WireType'
    BY <1>0, <1>9, <2>2, Delivery DEF Send, Write, WireType
  <2>4. RunType' /\ AtType'
    BY <1>0, <1>2, <1>3, <1>9, RunStep, AtStep DEF Send, Write
  <2> QED BY <1>1, <1>5, <1>6, <1>7, <1>9, <2>3, <2>4 DEF Send, Write, loopVars, binding
<1>10. CASE SendFails(f) \/ ResumeTimedOut(f)
  <2>1. Raise(f) /\ run[f] \in Alive \ {"queued"}
    BY <1>10, Doing DEF SendFails, ResumeTimedOut
  <2> QED BY <2>1, RaiseType
<1>11. CASE AsyncRequest(f) \/ SyncRequest(f)
  <2>1. \E v \in {"async_request", "sync_request"} : Does(f, v) /\ Reached(f, v)
    BY <1>11, Doing DEF AsyncRequest, SyncRequest
  <2>2. Arg(f) \in Msgs /\ To[Arg(f)] \in Ends
    BY <1>0, <2>1, Arguments DEF Fits, Arg
  <2>3. CASE Raise(f)
    BY <2>1, <2>3, Doing, RaiseType
  <2>4. ASSUME NEW s \in {"awaiting", "blocked"}, Ask(f, s) PROVE (TypeOK /\ Positive)'
    <3>1. WireType'
      BY <1>0, <2>2, <2>4, Delivery DEF Ask, WireType
    <3>2. RunType' /\ AtType'
      BY <1>0, <1>2, <2>4, RunStep, AtStep DEF Ask
    <3>3. RestType'
      BY <1>0, <2>4 DEF Ask, RestType
    <3> QED BY <1>1, <1>5, <1>6, <2>4, <3>1, <3>2, <3>3 DEF Ask, loopVars, binding
  <2> QED BY <1>11, <2>3, <2>4 DEF AsyncRequest, SyncRequest
<1>12. CASE SetEvent(f)
  BY <1>0, <1>1, <1>3, <1>4, <1>5, <1>6, <1>7, <1>12, AtStep DEF SetEvent, wire, loopVars, binding
<1>13. CASE Await(f)
  <2>1. RunType' /\ AtType'
    BY <1>0, <1>2, <1>3, <1>13, RunStep, AtStep DEF Await
  <2> QED BY <1>1, <1>4, <1>5, <1>6, <1>7, <1>13, <2>1 DEF Await, wire, loopVars, binding
<1>14. CASE Register(f) \/ Attach(f)
  <2>1. \/ Register(f) /\ Arg(f).e \in Ends /\ Arg(f).h \in Handlers
        \/ Attach(f) /\ Arg(f) \in Ends
    BY <1>14, Doing, Arguments DEF Register, Attach, Fits, Arg
  <2>2. BindingType'
    BY <1>0, <2>1 DEF Register, Attach, BindingType
  <2>3. AtType'
    BY <1>0, <1>14, AtStep DEF Register, Attach
  <2> QED BY <1>1, <1>3, <1>4, <1>5, <1>7, <1>14, <2>2, <2>3 DEF Register, Attach, wire, loopVars
<1>15. CASE Start(f)
  <2>1. AtType' /\ RestType'
    BY <1>0, <1>15, AtStep DEF Start, RestType
  <2> QED BY <1>1, <1>3, <1>4, <1>5, <1>6, <1>15, <2>1 DEF Start, wire, loopVars, binding
<1>16. CASE Connect(f)
  <2>1. Arg(f) \in Msgs /\ To[Arg(f)] \in Ends
    <3>1. Reached(f, "connect")
      BY <1>16 DEF Connect, Does
    <3>2. Fits(Code(f)[at[f]]) /\ Code(f)[at[f]].do = "connect"
      BY <3>1, Arguments
    <3> QED BY <1>0, <3>2 DEF Fits, Arg
  <2>2. WireType'
    BY <1>0, <1>16, <2>1, Delivery DEF Connect, WireType, wire
  <2>3. AtType' /\ RestType'
    BY <1>0, <1>16, AtStep DEF Connect, RestType
  <2> QED BY <1>1, <1>3, <1>5, <1>6, <1>16, <2>2, <2>3 DEF Connect, loopVars, binding
<1>17. CASE StopBegins(f)
  <2>1. CASE run[f] = "direct"
    BY <1>17, <2>1, Doing, RaiseType DEF StopBegins
  <2>2. CASE run[f] # "direct"
    <3>1. /\ Become(f, "blocked")
          /\ UNCHANGED <<session, inbox, sent, io, at, ready, late, attached, bound, asked, begun>>
          /\ up' = [up EXCEPT ![Arg(f)] = IF @ = "starting" THEN "hung" ELSE "stopping"]
      BY <1>17, <2>2 DEF StopBegins, wire, loopVars, binding
    <3>2. RunType' /\ AtType' /\ RestType'
      BY <1>0, <1>2, <3>1, RunStep, AtStep DEF RestType
    <3> QED BY <1>1, <1>4, <1>5, <1>6, <3>1, <3>2
  <2> QED BY <2>1, <2>2
<1>18. CASE StopEnds(f)
  <2>1. RunType' /\ AtType' /\ RestType' /\ WireType'
    BY <1>0, <1>2, <1>18, RunStep, AtStep DEF StopEnds, RestType, WireType
  <2> QED BY <1>1, <1>5, <1>6, <1>18, <2>1 DEF StopEnds, loopVars, binding
<1>19. CASE Resume(f) \/ Unblock(f) \/ WaitExpires(f)
  <2>1. run[f] \in {"awake", "awaiting", "blocked"}
    BY <1>19 DEF Resume, Unblock, WaitExpires
  <2>2. CASE Raise(f)
    BY <2>1, <2>2, Doing, RaiseType
  <2>3. CASE ~Raise(f)
    <3>1. /\ Become(f, "running") /\ (Next1(f) \/ UNCHANGED at)
          /\ UNCHANGED <<up, session, inbox, sent, io, attached, bound, asked, ready, late, begun>>
      BY <1>19, <2>3 DEF Resume, Unblock, WaitExpires, Enter, LoopFrame, wire, loopVars, binding
    <3>2. RunType' /\ AtType'
      BY <1>0, <1>2, <3>1, RunStep, AtStep
    <3> QED BY <1>1, <1>4, <1>5, <1>6, <1>7, <3>1, <3>2
  <2> QED BY <2>2, <2>3
<1> QED BY <1>8, <1>9, <1>10, <1>11, <1>12, <1>13, <1>14, <1>15, <1>16, <1>17, <1>18, <1>19

LEMMA TypeStep ==
  Assumptions /\ TypeOK /\ Positive /\ Safe /\ [Next]_vars => (TypeOK /\ Positive)'
<1> SUFFICES ASSUME Assumptions, TypeOK, Positive, Safe, [Next]_vars
             PROVE  (TypeOK /\ Positive)'
  OBVIOUS
<1>0. RunType /\ AtType /\ WireType /\ LoopType /\ BindingType /\ RestType
  BY TypeParts
<1>1. ASSUME RunType', AtType', WireType', LoopType', BindingType', RestType'
      PROVE  (TypeOK /\ Positive)'
  BY <1>1, PartsType
<1>2. UNCHANGED scene
  BY DEF Next, Goes, vars
<1>3. {"queued", "direct", "dropped", "lost", "running", "cancelled"} \subseteq Alive \cup Over
  BY DEF Alive, Over
<1>4. ASSUME NEW m \in Msgs, CancelTask(m) PROVE (TypeOK /\ Positive)'
  BY <1>2, <1>4, EndType, RaiseType, Doing DEF CancelTask, Frames
<1>5. ASSUME NEW e \in Ends, AcceptLoopRuns(e) PROVE (TypeOK /\ Positive)'
  <2>1. RestType'
    BY <1>0, <1>2, <1>5 DEF AcceptLoopRuns, RestType
  <2> QED BY <1>0, <1>1, <1>5, <2>1 DEF AcceptLoopRuns, RunType, AtType, Positive, WireType,
             LoopType, BindingType, wire, loopVars, binding
<1>6. ASSUME NEW e \in Ends, NEW w, Takes(e, w)
      PROVE  inbox' \in [Ends -> Seq({"call", "response"} \X Msgs)] /\ Taken(e) \in Msgs
             /\ Taken(e) \in Frames
  BY <1>6, Taking DEF Frames
<1>7. ASSUME NEW e \in Ends, TakeResponse(e) PROVE (TypeOK /\ Positive)'
  <2>1. RestType' /\ WireType'
    BY <1>0, <1>2, <1>6, <1>7 DEF TakeResponse, RestType, WireType
  <2> QED BY <1>0, <1>1, <1>7, <2>1 DEF TakeResponse, RunType, AtType, Positive,
             LoopType, BindingType, loopVars, binding
<1>8. ASSUME NEW e \in Ends, TakeInVain(e) PROVE (TypeOK /\ Positive)'
  <2>1. RunType' /\ WireType'
    BY <1>0, <1>3, <1>6, <1>8, RunStep DEF TakeInVain, WireType
  <2> QED BY <1>0, <1>1, <1>2, <1>8, <2>1 DEF TakeInVain, RestType, AtType, Positive,
             LoopType, BindingType, loopVars, binding
<1>9. ASSUME NEW e \in Ends, TakeCoroutine(e) PROVE (TypeOK /\ Positive)'
  <2>1. RunType' /\ Taken(e) \in Msgs
    BY <1>0, <1>3, <1>6, <1>9, RunStep DEF TakeCoroutine
  <2>2. WireType'
    BY <1>0, <1>6, <1>9 DEF TakeCoroutine, WireType
  <2>3. LoopType'
    BY <1>0, <1>9, <2>1 DEF TakeCoroutine, LoopType
  <2> QED BY <1>0, <1>1, <1>2, <1>9, <2>1, <2>2, <2>3 DEF TakeCoroutine, RestType, AtType,
             Positive, BindingType, binding
<1>10. ASSUME NEW e \in Ends, TakeSync(e) PROVE (TypeOK /\ Positive)'
  <2>1. RunType' /\ Taken(e) \in Msgs
    BY <1>0, <1>3, <1>6, <1>10, RunStep DEF TakeSync
  <2>2. WireType'
    BY <1>0, <1>6, <1>10 DEF TakeSync, WireType
  <2>3. RestType'
    BY <1>0, <1>2, <1>10, <2>1 DEF TakeSync, RestType
  <2> QED BY <1>0, <1>1, <1>10, <2>1, <2>2, <2>3 DEF TakeSync, AtType,
             Positive, LoopType, BindingType, loopVars, binding
<1>11. ASSUME NEW e \in Ends, ResultArrives(e) PROVE (TypeOK /\ Positive)'
  <2>1. /\ io[e] \in Msgs /\ run[io[e]] \in Over /\ UNCHANGED <<run, ready, late, asked>>
        /\ io' = [io EXCEPT ![e] = Nobody] /\ Conclude(io[e], run[io[e]])
    BY <1>11 DEF ResultArrives, TypeOK, loopVars
  <2>2. To[io[e]] = e
    BY <1>11 DEF ResultArrives, Safe, ThreadInv
  <2>3. run' = [run EXCEPT ![io[e]] = run[io[e]]]
    BY <2>1 DEF TypeOK
  <2>4. inbox' \in [Ends -> Seq({"call", "response"} \X Msgs)]
        /\ sent' \in [Ends -> Seq({"call", "response"} \X Msgs)]
        /\ session' \in {"none", "open", "closed"}
    BY <2>1, <2>2, <2>3, ConcludeSafe
  <2>5. WireType'
    BY <1>0, <2>1, <2>4 DEF WireType
  <2> QED BY <1>0, <1>1, <1>2, <1>11, <2>5 DEF ResultArrives, RunType, RestType, AtType,
             Positive, LoopType, BindingType, loopVars, binding
<1>12. CASE StartTask
  <2>1. ready' \in Seq(Msgs) /\ Head(ready) \in Msgs /\ Head(ready) \in Frames
    BY <1>12, StartSafe DEF Frames
  <2>2. RunType'
    BY <1>0, <1>3, <1>12, <2>1, RunStep DEF StartTask, Enter
  <2>3. LoopType'
    BY <1>0, <1>12, <2>1 DEF StartTask, LoopType
  <2>4. RestType'
    BY <1>0, <1>2, <1>12, <2>1 DEF StartTask, RestType, LoopFrame
  <2> QED BY <1>0, <1>1, <1>12, <2>2, <2>3, <2>4 DEF StartTask, LoopFrame, AtType, Positive,
             WireType, BindingType, wire, binding
<1>13. ASSUME NEW r \in Msgs, RequestExpires(r) PROVE (TypeOK /\ Positive)'
  <2>1. RestType'
    BY <1>0, <1>2, <1>13 DEF RequestExpires, RestType
  <2> QED BY <1>0, <1>1, <1>13, <2>1 DEF RequestExpires, RunType, AtType, Positive, WireType,
             LoopType, BindingType, wire, loopVars, binding
<1>14. ASSUME NEW e \in Ends, ResultExpires(e) PROVE (TypeOK /\ Positive)'
  <2>1. WireType' /\ LoopType'
    BY <1>0, <1>14, ExpireSafe DEF ResultExpires, WireType, LoopType, wire
  <2> QED BY <1>0, <1>1, <1>2, <1>14, <2>1 DEF ResultExpires, RunType, RestType, AtType,
             Positive, BindingType, binding
<1>15. CASE LoseSession
  <2>1. WireType'
    BY <1>0, <1>15 DEF LoseSession, WireType
  <2> QED BY <1>0, <1>1, <1>2, <1>15, <2>1 DEF LoseSession, RunType, RestType, AtType, Positive,
             LoopType, BindingType, loopVars, binding
<1>16. CASE UNCHANGED vars
  BY <1>0, <1>1, <1>16 DEF vars, RunType, RestType, AtType, Positive, WireType,
     LoopType, BindingType, wire, loopVars, binding
<1>17. CASE Step
  BY <1>2, <1>4, <1>5, <1>7, <1>8, <1>9, <1>10, <1>11, <1>12, <1>17, FrameType DEF Step
<1>18. CASE Expire
  BY <1>2, <1>13, <1>14, <1>18, FrameType DEF Expire
<1> QED BY <1>15, <1>16, <1>17, <1>18 DEF Next, Goes

-----------------------------------------------------------------------------
\* What a request and its answer have come to, for any programs.
THEOREM SafeInvariance == Spec => []SafeInv
<1>0. Assumptions
  BY ConstantsAssumption, ProgramsAssumption DEF Assumptions
<1>1. Init => SafeInv
  <2> SUFFICES ASSUME Init PROVE SafeInv
    OBVIOUS
  <2>1. TypeOK
    <3>1. <<>> \in Seq(Msgs) /\ <<>> \in Seq({"call", "response"} \X Msgs)
      OBVIOUS
    <3>2. {"new", "awake"} \subseteq {"new"} \cup Alive \cup Over
      BY DEF Alive
    <3> QED BY <3>1, <3>2 DEF Init, TypeOK
  <2>2. 1..Len(ready) = {} /\ \A e \in Ends : 1..Len(inbox[e]) = {}
    BY DEF Init
  <2>3. WireInv /\ QueueInv
    BY <2>2 DEF WireInv, QueueInv
  <2>4. RequestInv
    BY <1>0 DEF Init, RequestInv, Assumptions, ConstantsAssumption, Frames
  <2>5. ThreadInv
    BY DEF Init, ThreadInv
  <2>6. AnswerInv /\ \A f \in Frames : at[f] >= 1
    BY DEF Init, AnswerInv, Answered
  <2> QED BY <2>1, <2>3, <2>4, <2>5, <2>6 DEF SafeInv
<1>2. SafeInv /\ [Next]_vars => SafeInv'
  BY <1>0, SafeStep, TypeStep DEF SafeInv, Safe, Positive
<1> QED BY <1>1, <1>2, PTL DEF Spec

\* Type correctness of two endpoints, their loop and their programs.
THEOREM TypeCorrect == Spec => []TypeOK
<1>1. SafeInv => TypeOK
  BY DEF SafeInv
<1> QED BY <1>1, SafeInvariance, PTL

-----------------------------------------------------------------------------
(* What a program has come past. *)

\* An answer stays one.
LEMMA AnswersStay ==
  ASSUME TypeOK, [Next]_vars, NEW r \in Msgs, Answered(r)
  PROVE  Answered(r)'
<1>0. asked \in [Msgs -> {"none", "waiting", "answer", "error_payload", "timeout"}]
  BY DEF TypeOK
<1>1. UNCHANGED asked => Answered(r)'
  BY DEF Answered
<1>2. ASSUME NEW f \in Frames, Raise(f) \/ \E how : End(f, how) PROVE UNCHANGED asked
  BY <1>2 DEF Raise, End
<1>3. ASSUME NEW f \in Frames, NEW s, Ask(f, s) PROVE Answered(r)'
  BY <1>0, <1>3 DEF Ask, Answered
<1>4. ASSUME NEW f \in Frames,
             \/ Return(f) \/ Send(f) \/ Write(f) \/ SendFails(f) \/ AsyncRequest(f)
             \/ SyncRequest(f) \/ SetEvent(f) \/ Await(f) \/ Register(f) \/ Attach(f)
             \/ Start(f) \/ Connect(f) \/ StopBegins(f) \/ StopEnds(f)
             \/ Resume(f) \/ ResumeTimedOut(f) \/ Unblock(f) \/ WaitExpires(f)
      PROVE  Answered(r)'
  <2>1. CASE AsyncRequest(f) \/ SyncRequest(f)
    BY <1>1, <1>2, <1>3, <2>1 DEF AsyncRequest, SyncRequest
  <2>2. CASE Return(f) \/ SendFails(f) \/ ResumeTimedOut(f)
    BY <1>1, <1>2, <2>2 DEF Return, SendFails, ResumeTimedOut
  <2>3. CASE StopBegins(f) \/ StopEnds(f) \/ Unblock(f) \/ WaitExpires(f) \/ Resume(f)
    BY <1>1, <1>2, <2>3 DEF StopBegins, StopEnds, Unblock, WaitExpires, Resume, LoopFrame
  <2>4. CASE Send(f) \/ Write(f) \/ SetEvent(f) \/ Await(f) \/ Register(f) \/ Attach(f)
             \/ Start(f) \/ Connect(f)
    BY <1>1, <2>4 DEF Send, Write, SetEvent, Await, Register, Attach, Start, Connect
  <2> QED BY <1>4, <2>1, <2>2, <2>3, <2>4
<1>5. ASSUME NEW m \in Msgs, CancelTask(m) PROVE Answered(r)'
  BY <1>1, <1>2, <1>5 DEF CancelTask, Frames
<1>6. ASSUME NEW e \in Ends, TakeResponse(e) PROVE Answered(r)'
  BY <1>0, <1>6 DEF TakeResponse, Answered
<1>7. ASSUME NEW e \in Ends, AcceptLoopRuns(e) \/ TakeInVain(e) \/ TakeCoroutine(e) \/ TakeSync(e)
                             \/ ResultArrives(e) \/ ResultExpires(e)
      PROVE  Answered(r)'
  BY <1>1, <1>7 DEF AcceptLoopRuns, TakeInVain, TakeCoroutine, TakeSync, ResultArrives, ResultExpires
<1>8. ASSUME NEW q \in Msgs, RequestExpires(q) PROVE Answered(r)'
  BY <1>0, <1>8 DEF RequestExpires, Answered
<1>9. CASE StartTask \/ LoseSession \/ UNCHANGED vars
  BY <1>1, <1>9 DEF StartTask, LoopFrame, LoseSession, vars
<1>10. CASE Step
  BY <1>4, <1>5, <1>6, <1>7, <1>9, <1>10 DEF Step
<1>11. CASE Expire
  BY <1>4, <1>7, <1>8, <1>11 DEF Expire
<1> QED BY <1>9, <1>10, <1>11 DEF Next, Goes

\* A program stays where it is, goes past an instruction - a request, only with a
\* payload - or to what follows a "return".
Passes(f) ==
  \/ UNCHANGED at
  \/ Next1(f) /\ \A v \in Requests : Reached(f, v) => Answered(Arg(f))
  \/ \E j \in Cleanup(f) : at' = [at EXCEPT ![f] = 1 + j]

LEMMA PassesKeep ==
  ASSUME Assumptions, TypeOK, Positive, PassInv, NEW f \in Frames, Passes(f),
         \A r \in Msgs : Answered(r) => Answered(r)'
  PROVE  PassInv'
<1> SUFFICES ASSUME NEW g \in Frames, NEW i \in 1..Len(Code(g)),
                    i < at'[g], Verb(g, i) \in Requests
             PROVE  Answered(Code(g)[i].x)' \/ \E j \in i..(at'[g] - 1) : Verb(g, j) = "return"
  BY DEF PassInv, HadAnswers, Verb, Code
<1> DEFINE b == IF g \in Mains THEN g ELSE HandlerOf[g]
<1>0. /\ b \in DOMAIN Body /\ Code(g) = Body[b] /\ Len(Code(g)) \in Nat
      /\ at \in [Frames -> Nat] /\ at[g] \in Nat /\ at[g] >= 1
  BY DEF Assumptions, ConstantsAssumption, ProgramsAssumption, Frames, Code, TypeOK, Positive
<1>1. Code(g)[i].x \in Msgs
  BY <1>0 DEF Assumptions, ProgramsAssumption, Fits, Verb, Requests
<1>2. CASE i < at[g] /\ at[g] <= at'[g] /\ at'[g] \in Nat
  <2>1. Answered(Code(g)[i].x) \/ \E j \in i..(at[g] - 1) : Verb(g, j) = "return"
    BY <1>2 DEF PassInv, HadAnswers
  <2> QED BY <1>0, <1>1, <1>2, <2>1
<1>3. CASE UNCHANGED at \/ g # f
  <2>1. at'[g] = at[g]
    BY <1>0, <1>3 DEF Passes, Next1
  <2> QED BY <1>0, <1>2, <2>1
<1>4. CASE g = f /\ Next1(f) /\ \A v \in Requests : Reached(f, v) => Answered(Arg(f))
  <2>1. at'[g] = at[g] + 1
    BY <1>0, <1>4 DEF Next1
  <2>2. CASE i = at[g]
    <3>1. Reached(g, Verb(g, i)) /\ Arg(g) = Code(g)[i].x
      BY <1>0, <2>2 DEF Reached, Verb, Arg
    <3> QED BY <1>1, <1>4, <3>1
  <2> QED BY <1>0, <1>2, <2>1, <2>2
<1>5. CASE g = f /\ \E j \in Cleanup(f) : at' = [at EXCEPT ![f] = 1 + j]
  <2>1. PICK j \in Cleanup(f) : at' = [at EXCEPT ![f] = 1 + j]
    BY <1>5
  <2>2. at'[g] = 1 + j /\ j \in at[g]..Len(Code(g)) /\ Verb(g, j) = "return"
    BY <1>0, <1>5, <2>1 DEF Cleanup, Verb
  <2>3. j \in Nat /\ j >= at[g] /\ j \in i..(at'[g] - 1)
    BY <1>0, <2>2
  <2> QED BY <2>2, <2>3
<1> QED BY <1>3, <1>4, <1>5 DEF Passes

LEMMA RaisePasses ==
  ASSUME NEW f \in Frames, Raise(f) \/ \E how : End(f, how) PROVE Passes(f)
<1>1. CASE \E how : End(f, how)
  BY <1>1 DEF End, Passes
<1>2. CASE Raise(f) /\ Cleanup(f) # {}
  <2>1. (CHOOSE i \in Cleanup(f) : TRUE) \in Cleanup(f)
    BY <1>2
  <2> QED BY <1>2, <2>1 DEF Raise, Passes
<1> QED BY <1>1, <1>2 DEF Raise

LEMMA FramePasses ==
  ASSUME NEW f \in Frames,
         \/ Return(f) \/ Send(f) \/ Write(f) \/ SendFails(f) \/ AsyncRequest(f)
         \/ SyncRequest(f) \/ SetEvent(f) \/ Await(f) \/ Register(f) \/ Attach(f)
         \/ Start(f) \/ Connect(f) \/ StopBegins(f) \/ StopEnds(f)
         \/ Resume(f) \/ ResumeTimedOut(f) \/ Unblock(f) \/ WaitExpires(f)
  PROVE  Passes(f)
<1>1. UNCHANGED at => Passes(f)
  BY DEF Passes
<1>2. (Raise(f) \/ \E how : End(f, how)) => Passes(f)
  BY RaisePasses
<1>3. ASSUME NEW v, v \notin Requests, Does(f, v) \/ Reached(f, v), Next1(f) PROVE Passes(f)
  BY <1>3 DEF Does, Reached, Passes
<1>4. CASE Return(f) \/ SendFails(f) \/ ResumeTimedOut(f)
  BY <1>2, <1>4 DEF Return, SendFails, ResumeTimedOut
<1>5. CASE Send(f) \/ Write(f) \/ SetEvent(f) \/ Register(f) \/ Attach(f) \/ Start(f) \/ Connect(f)
  BY <1>3, <1>5 DEF Send, Write, SetEvent, Register, Attach, Start, Connect, Requests
<1>6. CASE AsyncRequest(f) \/ SyncRequest(f)
  BY <1>1, <1>2, <1>6 DEF AsyncRequest, SyncRequest, Ask
<1>7. CASE Await(f)
  BY <1>1, <1>3, <1>7 DEF Await, Requests
<1>8. CASE StopBegins(f) \/ StopEnds(f)
  BY <1>1, <1>2, <1>3, <1>8 DEF StopBegins, StopEnds, Requests
<1>9. CASE Resume(f)
  <2>1. CASE Next1(f) /\ Reached(f, "async_request") /\ asked[Arg(f)] \in {"answer", "error_payload"}
    BY <2>1 DEF Passes, Answered
  <2> QED BY <1>1, <1>3, <1>9, <2>1 DEF Resume, Requests
<1>10. CASE Unblock(f)
  BY <1>2, <1>10 DEF Unblock, Passes, Answered
<1>11. CASE WaitExpires(f)
  BY <1>2, <1>3, <1>11 DEF WaitExpires, Requests
<1> QED BY <1>4, <1>5, <1>6, <1>7, <1>8, <1>9, <1>10, <1>11

LEMMA PassStep ==
  ASSUME Assumptions, SafeInv, PassInv, [Next]_vars PROVE PassInv'
<1>0. TypeOK /\ Positive /\ \A r \in Msgs : Answered(r) => Answered(r)'
  BY AnswersStay DEF SafeInv, Positive
<1>1. ASSUME NEW f \in Frames, Passes(f) PROVE PassInv'
  BY <1>0, <1>1, PassesKeep
<1>2. ASSUME NEW m \in Msgs, CancelTask(m) PROVE PassInv'
  <2>1. m \in Frames
    BY DEF Frames
  <2> QED BY <1>1, <1>2, <2>1, RaisePasses DEF CancelTask
<1>3. ASSUME UNCHANGED at PROVE PassInv'
  <2>1. CASE Frames = {}
    BY <2>1 DEF PassInv
  <2> QED BY <1>1, <1>3, <2>1 DEF Passes
<1>4. ASSUME NEW e \in Ends, AcceptLoopRuns(e) \/ TakeResponse(e) \/ TakeInVain(e) \/ TakeCoroutine(e)
                             \/ TakeSync(e) \/ ResultArrives(e) \/ ResultExpires(e)
      PROVE  PassInv'
  BY <1>3, <1>4 DEF AcceptLoopRuns, TakeResponse, TakeInVain, TakeCoroutine, TakeSync,
     ResultArrives, ResultExpires
<1>5. ASSUME NEW r \in Msgs, RequestExpires(r) PROVE PassInv'
  BY <1>3, <1>5 DEF RequestExpires
<1>6. CASE StartTask \/ LoseSession \/ UNCHANGED vars
  BY <1>3, <1>6 DEF StartTask, LoseSession, vars
<1>7. CASE Step
  BY <1>1, <1>2, <1>4, <1>6, <1>7, FramePasses DEF Step
<1>8. CASE Expire
  BY <1>1, <1>4, <1>5, <1>8, FramePasses DEF Expire
<1> QED BY <1>6, <1>7, <1>8 DEF Next, Goes

\* Every program has had a payload for each request it has come past, unless it
\* has caught an exception since.
THEOREM PassInvariance == Spec => []PassInv
<1>0. Assumptions
  BY ConstantsAssumption, ProgramsAssumption DEF Assumptions
<1>1. Init => PassInv
  BY DEF Init, PassInv, HadAnswers
<1>2. SafeInv /\ PassInv /\ [Next]_vars => PassInv'
  BY <1>0, PassStep
<1> QED BY <1>1, <1>2, SafeInvariance, PTL DEF Spec

\* Whatever the programs are, and whichever limits run out: a program that goes
\* past a request without catching an exception has what the request's handler
\* ended with, in time.
THEOREM Earned == Spec => []AnswersAreEarned
<1>1. SafeInv /\ PassInv => AnswersAreEarned
  BY DEF SafeInv, AnswersAreEarned
<1> QED BY <1>1, SafeInvariance, PassInvariance, PTL
=============================================================================
