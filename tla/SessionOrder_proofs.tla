--------------------------- MODULE SessionOrder_proofs ---------------------------
(***************************************************************************)
(* Proofs about Session, on top of those of Session_proofs: in which order *)
(* handlers begin and whom the I/O threads wait for, for any programs and  *)
(* limits.                                                                 *)
(***************************************************************************)
EXTENDS Session_proofs

-----------------------------------------------------------------------------
(* Sequences as sets of elements that come before others. *)

\* t is s with y at its end; s is t with y at its front.
Longer(t, s, y) ==
  /\ \A x : In(t, x) <=> In(s, x) \/ x = y
  /\ \A x, z : Before(t, x, z) <=> Before(s, x, z) \/ (z = y /\ In(s, x))
Shorter(t, s, y) ==
  /\ \A x : In(s, x) <=> In(t, x) \/ x = y
  /\ \A x, z : Before(s, x, z) <=> Before(t, x, z) \/ (x = y /\ In(t, z))
  /\ \A x : Before(s, x, y) => Before(s, y, y)

LEMMA Appended ==
  ASSUME NEW S, NEW s \in Seq(S), NEW y \in S, NEW t, t = Append(s, y)
  PROVE  Longer(t, s, y)
<1>1. /\ Len(s) \in Nat /\ Len(t) = Len(s) + 1 /\ t[Len(s) + 1] = y
      /\ \A i \in 1..Len(s) : t[i] = s[i]
  OBVIOUS
<1>2. \A x : In(t, x) <=> In(s, x) \/ x = y
  BY <1>1 DEF In
<1>3. ASSUME NEW x, NEW z, Before(t, x, z) PROVE Before(s, x, z) \/ (z = y /\ In(s, x))
  <2>1. PICK j \in 1..Len(t) : t[j] = z /\ \E i \in 1..(j - 1) : t[i] = x
    BY <1>3 DEF Before
  <2>2. PICK i \in 1..(j - 1) : t[i] = x
    BY <2>1
  <2>3. i \in 1..Len(s) /\ s[i] = x
    BY <1>1, <2>2
  <2>4. CASE j = Len(s) + 1
    BY <1>1, <2>1, <2>3, <2>4 DEF In
  <2>5. CASE j \in 1..Len(s)
    BY <1>1, <2>1, <2>2, <2>3, <2>5 DEF Before
  <2> QED BY <1>1, <2>4, <2>5
<1>4. ASSUME NEW x, NEW z, Before(s, x, z) PROVE Before(t, x, z)
  <2>1. PICK j \in 1..Len(s) : s[j] = z /\ \E i \in 1..(j - 1) : s[i] = x
    BY <1>4 DEF Before
  <2>2. PICK i \in 1..(j - 1) : s[i] = x
    BY <2>1
  <2>3. j \in 1..Len(t) /\ t[j] = z /\ t[i] = x
    BY <1>1, <2>1, <2>2
  <2> QED BY <2>2, <2>3 DEF Before
<1>5. ASSUME NEW x, In(s, x) PROVE Before(t, x, y)
  <2>1. PICK i \in 1..Len(s) : s[i] = x
    BY <1>5 DEF In
  <2>2. i \in 1..((Len(s) + 1) - 1) /\ t[i] = x /\ Len(s) + 1 \in 1..Len(t)
    BY <1>1, <2>1
  <2> QED BY <1>1, <2>2 DEF Before
<1> QED BY <1>2, <1>3, <1>4, <1>5 DEF Longer

LEMMA Removed ==
  ASSUME NEW S, NEW s \in Seq(S), s # <<>>, NEW t, t = Tail(s)
  PROVE  Shorter(t, s, Head(s))
<1>1. /\ Len(s) \in Nat \ {0} /\ Len(t) = Len(s) - 1 /\ s[1] = Head(s)
      /\ \A i \in 1..Len(t) : t[i] = s[i + 1]
  OBVIOUS
<1>2. /\ \A i \in 1..Len(t) : i + 1 \in 1..Len(s)
      /\ \A i \in 1..Len(s) : i # 1 => i - 1 \in 1..Len(t) /\ s[i] = t[i - 1]
  <2>1. ASSUME NEW i \in 1..Len(s), i # 1 PROVE i - 1 \in 1..Len(t) /\ s[i] = t[i - 1]
    <3>1. i - 1 \in 1..Len(t) /\ (i - 1) + 1 = i
      BY <1>1, <2>1
    <3> QED BY <1>1, <3>1
  <2> QED BY <1>1, <2>1
<1>3. \A x : In(s, x) <=> In(t, x) \/ x = Head(s)
  <2>1. ASSUME NEW x, In(s, x) PROVE In(t, x) \/ x = Head(s)
    BY <1>1, <1>2, <2>1 DEF In
  <2>2. ASSUME NEW x, In(t, x) PROVE In(s, x)
    BY <1>1, <1>2, <2>2 DEF In
  <2>3. In(s, Head(s))
    BY <1>1 DEF In
  <2> QED BY <2>1, <2>2, <2>3
<1>4. ASSUME NEW x, NEW z, Before(s, x, z) PROVE Before(t, x, z) \/ (x = Head(s) /\ In(t, z))
  <2>1. PICK j \in 1..Len(s) : s[j] = z /\ \E i \in 1..(j - 1) : s[i] = x
    BY <1>4 DEF Before
  <2>2. PICK i \in 1..(j - 1) : s[i] = x
    BY <2>1
  <2>3. j # 1 /\ j - 1 \in 1..Len(t) /\ t[j - 1] = z
    BY <1>1, <1>2, <2>1, <2>2
  <2>4. CASE i = 1
    BY <1>1, <2>2, <2>3, <2>4 DEF In
  <2>5. CASE i # 1
    <3>1. i \in 1..Len(s)
      BY <1>1, <2>2
    <3>2. i - 1 \in 1..((j - 1) - 1) /\ t[i - 1] = x
      BY <1>1, <1>2, <2>2, <2>5, <3>1
    <3> QED BY <2>3, <3>2 DEF Before
  <2> QED BY <2>4, <2>5
<1>5. ASSUME NEW x, NEW z, Before(t, x, z) PROVE Before(s, x, z)
  <2>1. PICK j \in 1..Len(t) : t[j] = z /\ \E i \in 1..(j - 1) : t[i] = x
    BY <1>5 DEF Before
  <2>2. PICK i \in 1..(j - 1) : t[i] = x
    BY <2>1
  <2>3. j + 1 \in 1..Len(s) /\ s[j + 1] = z /\ i + 1 \in 1..((j + 1) - 1) /\ s[i + 1] = x
    BY <1>1, <1>2, <2>1, <2>2
  <2> QED BY <2>3 DEF Before
<1>6. ASSUME NEW z, In(t, z) PROVE Before(s, Head(s), z)
  <2>1. PICK j \in 1..Len(t) : t[j] = z
    BY <1>6 DEF In
  <2>2. j + 1 \in 1..Len(s) /\ s[j + 1] = z /\ 1 \in 1..((j + 1) - 1)
    BY <1>1, <1>2, <2>1
  <2> QED BY <1>1, <2>2 DEF Before
<1>7. ASSUME NEW x, Before(s, x, Head(s)) PROVE In(t, Head(s))
  <2>1. PICK j \in 1..Len(s) : s[j] = Head(s) /\ \E i \in 1..(j - 1) : s[i] = x
    BY <1>7 DEF Before
  <2>2. j # 1
    BY <2>1
  <2> QED BY <1>2, <2>1, <2>2 DEF In
<1> QED BY <1>3, <1>4, <1>5, <1>6, <1>7 DEF Shorter

LEMMA Preceding ==
  ASSUME NEW S, NEW s \in Seq(S), NEW x, NEW z, Before(s, x, z)
  PROVE  In(s, x) /\ In(s, z)
<1>1. PICK j \in 1..Len(s) : s[j] = z /\ \E i \in 1..(j - 1) : s[i] = x
  BY DEF Before
<1>2. PICK i \in 1..(j - 1) : s[i] = x
  BY <1>1
<1>3. i \in 1..Len(s)
  BY <1>1, <1>2
<1> QED BY <1>1, <1>2, <1>3 DEF In

-----------------------------------------------------------------------------
(* What a step does to the messages that were sent and to the inboxes. *)

Items == {"call", "response"} \X Msgs

\* Nothing is sent, and no call leaves an inbox.
WireKept ==
  \A m, n \in Msgs :
    /\ (Sent(m)' <=> Sent(m)) /\ (Once(m)' <=> Once(m)) /\ (Ahead(m, n)' <=> Ahead(m, n))
    /\ (OnWire(m)' <=> OnWire(m)) /\ (Behind(n, m)' <=> Behind(n, m))

\* The session is lost with what the inboxes hold.
WireLost ==
  /\ session' = "closed"
  /\ \A m, n \in Msgs :
       /\ (Sent(m)' <=> Sent(m)) /\ (Once(m)' <=> Once(m)) /\ (Ahead(m, n)' <=> Ahead(m, n))
       /\ ~OnWire(m)'

\* The call of x is sent.
WireCall(x) ==
  /\ session # "closed"
  /\ \A m, n \in Msgs :
       /\ Sent(m)' <=> Sent(m) \/ m = x
       /\ Once(m)' => Once(m) /\ (m = x => ~Sent(x))
       /\ Ahead(m, n)' => Ahead(m, n) \/ (n = x /\ Sent(m) /\ ~Sent(x) /\ To[m] = To[x])
       /\ OnWire(m)' <=> OnWire(m) \/ m = x
       /\ To[m] = To[n] => (Behind(n, m)' <=> Behind(n, m) \/ (n = x /\ OnWire(m)))

LEMMA Same ==
  ASSUME sent' = sent
  PROVE  \A m, n \in Msgs :
           (Sent(m)' <=> Sent(m)) /\ (Once(m)' <=> Once(m)) /\ (Ahead(m, n)' <=> Ahead(m, n))
BY DEF Sent, Once, Ahead

LEMMA KeptQuiet ==
  ASSUME sent' = sent, inbox' = inbox PROVE WireKept
BY Same DEF WireKept, OnWire, Behind

LEMMA NotAheadOfItself ==
  ASSUME TypeOK, NEW m \in Msgs, To[m] \in Ends PROVE ~Ahead(m, m)
BY DEF Ahead, Once

LEMMA AheadSent ==
  ASSUME TypeOK, NEW m \in Msgs, NEW n \in Msgs, To[n] \in Ends, Ahead(m, n)
  PROVE  Sent(m) /\ Sent(n)
<1>1. sent[To[n]] \in Seq({"call", "response"} \X Msgs)
  BY DEF TypeOK
<1> QED BY <1>1, Preceding DEF Ahead, Sent

LEMMA CallSent ==
  ASSUME Assumptions, TypeOK, session # "closed",
         NEW x \in Msgs, Deliver(To[x], "call", x)
  PROVE  WireCall(x)
<1>1. /\ To \in [Msgs -> Ends] /\ Call(x) \in {"call", "response"} \X Msgs
      /\ \A m \in Msgs : (Call(m) = Call(x)) <=> (m = x)
  BY DEF Assumptions, ConstantsAssumption, Call
<1>2. \A e \in Ends : /\ sent[e] \in Seq({"call", "response"} \X Msgs)
                      /\ inbox[e] \in Seq({"call", "response"} \X Msgs)
  BY DEF TypeOK
<1>3. \A e \in Ends : IF e = To[x] THEN /\ sent'[e] = Append(sent[e], Call(x))
                                        /\ inbox'[e] = Append(inbox[e], Call(x))
                      ELSE sent'[e] = sent[e] /\ inbox'[e] = inbox[e]
  BY <1>1 DEF Deliver, TypeOK, Call
<1>4. /\ Longer(sent'[To[x]], sent[To[x]], Call(x))
      /\ Longer(inbox'[To[x]], inbox[To[x]], Call(x))
  <2>1. /\ sent[To[x]] \in Seq(Items) /\ inbox[To[x]] \in Seq(Items) /\ Call(x) \in Items
        /\ sent'[To[x]] = Append(sent[To[x]], Call(x))
        /\ inbox'[To[x]] = Append(inbox[To[x]], Call(x))
    BY <1>1, <1>2, <1>3 DEF Items
  <2> QED BY <2>1, Appended
<1>5. ASSUME NEW m \in Msgs PROVE Sent(m)' <=> Sent(m) \/ m = x
  BY <1>1, <1>3, <1>4 DEF Sent, Longer
<1>6. ASSUME NEW m \in Msgs PROVE OnWire(m)' <=> OnWire(m) \/ m = x
  BY <1>1, <1>3, <1>4 DEF OnWire, Longer
<1>7. ASSUME NEW m \in Msgs, NEW n \in Msgs, To[m] = To[n]
      PROVE  Behind(n, m)' <=> Behind(n, m) \/ (n = x /\ OnWire(m))
  BY <1>1, <1>3, <1>4, <1>7 DEF Behind, OnWire, Longer
<1>8. ASSUME NEW m \in Msgs, Once(m)' PROVE Once(m) /\ (m = x => ~Sent(x))
  <2>1. ~Before(sent'[To[m]], Call(m), Call(m))
    BY <1>8 DEF Once
  <2>2. ~Before(sent[To[m]], Call(m), Call(m)) /\ (m = x => ~In(sent[To[x]], Call(x)))
    BY <1>1, <1>3, <1>4, <2>1 DEF Longer
  <2> QED BY <2>2 DEF Sent, Once
<1>9. ASSUME NEW m \in Msgs, NEW n \in Msgs, Ahead(m, n)'
      PROVE  Ahead(m, n) \/ (n = x /\ Sent(m) /\ ~Sent(x) /\ To[m] = To[x])
  BY <1>1, <1>3, <1>4, <1>8, <1>9 DEF Ahead, Sent, Longer
<1> QED BY <1>5, <1>6, <1>7, <1>8, <1>9 DEF WireCall

\* Responses neither add calls nor remove any.
LEMMA AnswerSent ==
  ASSUME Assumptions, TypeOK, NEW r \in Msgs, Deliver(Peer(To[r]), "response", r)
  PROVE  WireKept
<1> DEFINE y == <<"response", r>>
           d == Peer(To[r])
<1>1. /\ To \in [Msgs -> Ends] /\ d \in Ends /\ y \in Items /\ \A m \in Msgs : Call(m) # y
  BY DEF Assumptions, ConstantsAssumption, Call, Items, Peer, Ends
<1>2. \A e \in Ends : IF e = d THEN sent'[e] = Append(sent[e], y) /\ inbox'[e] = Append(inbox[e], y)
                      ELSE sent'[e] = sent[e] /\ inbox'[e] = inbox[e]
  BY <1>1 DEF Deliver, TypeOK
<1>3. Longer(sent'[d], sent[d], y) /\ Longer(inbox'[d], inbox[d], y)
  <2>1. /\ sent[d] \in Seq(Items) /\ inbox[d] \in Seq(Items)
        /\ sent'[d] = Append(sent[d], y) /\ inbox'[d] = Append(inbox[d], y)
    BY <1>1, <1>2 DEF Items, TypeOK
  <2> QED BY <1>1, <2>1, Appended
<1>4. ASSUME NEW e \in Ends, NEW m \in Msgs, NEW n \in Msgs
      PROVE  /\ In(sent'[e], Call(m)) <=> In(sent[e], Call(m))
             /\ In(inbox'[e], Call(m)) <=> In(inbox[e], Call(m))
             /\ Before(sent'[e], Call(m), Call(n)) <=> Before(sent[e], Call(m), Call(n))
             /\ Before(inbox'[e], Call(m), Call(n)) <=> Before(inbox[e], Call(m), Call(n))
  BY <1>1, <1>2, <1>3 DEF Longer
<1>5. ASSUME NEW m \in Msgs PROVE Once(m)' <=> Once(m)
  BY <1>1, <1>4 DEF Once
<1>6. ASSUME NEW m \in Msgs, NEW n \in Msgs
      PROVE  /\ (Sent(m)' <=> Sent(m)) /\ (Ahead(m, n)' <=> Ahead(m, n))
             /\ (OnWire(m)' <=> OnWire(m)) /\ (Behind(n, m)' <=> Behind(n, m))
  BY <1>1, <1>4, <1>5 DEF Sent, Ahead, OnWire, Behind
<1> QED BY <1>5, <1>6 DEF WireKept

LEMMA AnswerTaken ==
  ASSUME Assumptions, TypeOK, NEW e \in Ends, Takes(e, "response"), UNCHANGED sent
  PROVE  WireKept
<1>1. /\ To \in [Msgs -> Ends]
      /\ inbox[e] \in Seq(Items) /\ inbox[e] # <<>> /\ inbox'[e] = Tail(inbox[e])
      /\ \A d \in Ends : d # e => inbox'[d] = inbox[d]
      /\ \A m \in Msgs : Call(m) # Head(inbox[e])
  <2>1. To \in [Msgs -> Ends] /\ inbox \in [Ends -> Seq(Items)]
    BY DEF Assumptions, ConstantsAssumption, TypeOK, Items
  <2>2. /\ inbox[e] # <<>> /\ inbox' = [inbox EXCEPT ![e] = Tail(inbox[e])]
        /\ Head(inbox[e])[1] = "response"
    BY DEF Takes
  <2>3. \A m \in Msgs : Call(m)[1] = "call"
    BY DEF Call
  <2> QED BY <2>1, <2>2, <2>3
<1>2. Shorter(inbox'[e], inbox[e], Head(inbox[e]))
  BY <1>1, Removed
<1>3. ASSUME NEW m \in Msgs, NEW n \in Msgs
      PROVE  (OnWire(m)' <=> OnWire(m)) /\ (Behind(n, m)' <=> Behind(n, m))
  BY <1>1, <1>2 DEF OnWire, Behind, Shorter
<1> QED BY <1>3, Same DEF WireKept

LEMMA SessionLost ==
  ASSUME Assumptions, LoseSession PROVE WireLost
<1>1. /\ To \in [Msgs -> Ends] /\ session' = "closed" /\ sent' = sent
      /\ \A e \in Ends : inbox'[e] = <<>>
  BY DEF LoseSession, Assumptions, ConstantsAssumption
<1>2. \A x : ~In(<<>>, x)
  BY DEF In
<1>3. ASSUME NEW m \in Msgs PROVE ~OnWire(m)'
  BY <1>1, <1>2 DEF OnWire
<1> QED BY <1>1, <1>3, Same DEF WireLost

\* An I/O thread takes a call: the first that its inbox holds.
LEMMA CallTaken ==
  ASSUME Assumptions, TypeOK, WireInv, NEW e \in Ends, Takes(e, "call"), UNCHANGED sent
  PROVE  /\ Taken(e) \in Msgs /\ To[Taken(e)] = e /\ OnWire(Taken(e))
         /\ \A m, n \in Msgs :
              /\ (Sent(m)' <=> Sent(m)) /\ (Once(m)' <=> Once(m)) /\ (Ahead(m, n)' <=> Ahead(m, n))
              /\ OnWire(m)' => OnWire(m)
              /\ OnWire(m) => OnWire(m)' \/ m = Taken(e)
              /\ OnWire(m)' /\ m = Taken(e) => Behind(m, m)
              /\ Behind(n, m)' => Behind(n, m)
              /\ Behind(n, m) => Behind(n, m)' \/ m = Taken(e)
              /\ n = Taken(e) /\ Behind(n, m) => Behind(n, n)
<1> DEFINE x == Taken(e)
<1>1. /\ To \in [Msgs -> Ends]
      /\ inbox[e] \in Seq(Items) /\ inbox[e] # <<>> /\ inbox'[e] = Tail(inbox[e])
      /\ \A d \in Ends : d # e => inbox'[d] = inbox[d]
      /\ \A m \in Msgs : (Call(m) = Call(x)) <=> (m = x)
  BY DEF Assumptions, ConstantsAssumption, TypeOK, Takes, Items, Call
<1>2. x \in Msgs /\ inbox[e][1] = Call(x) /\ 1 \in 1..Len(inbox[e])
  <2>1. Taken(e) \in Msgs /\ inbox[e][1] = <<"call", Taken(e)>> /\ 1 \in 1..Len(inbox[e])
    BY Taking
  <2> QED BY <2>1 DEF Call
<1>3. Head(inbox[e]) = Call(x) /\ To[x] = e
  BY <1>1, <1>2 DEF WireInv, Call
<1>4. Shorter(inbox'[e], inbox[e], Call(x))
  BY <1>1, <1>3, Removed
<1>5. OnWire(x)
  BY <1>2, <1>3 DEF OnWire, In
<1>6. ASSUME NEW m \in Msgs, NEW n \in Msgs
      PROVE  /\ OnWire(m)' => OnWire(m)
             /\ OnWire(m) => OnWire(m)' \/ m = x
             /\ OnWire(m)' /\ m = x => Behind(m, m)
             /\ Behind(n, m)' => Behind(n, m)
             /\ Behind(n, m) => Behind(n, m)' \/ m = x
             /\ n = x /\ Behind(n, m) => Behind(n, n)
  BY <1>1, <1>2, <1>3, <1>4 DEF OnWire, Behind, Shorter
<1> QED BY <1>2, <1>3, <1>5, <1>6, Same

-----------------------------------------------------------------------------
(* Steps that start nothing. *)

\* Handlers go on or end, and an I/O thread lets go of what has ended, or of
\* what it has given up.
Moves ==
  /\ UNCHANGED <<ready, begun>> /\ late \subseteq late'
  /\ \A m \in Msgs :
       /\ \/ run'[m] = run[m]
          \/ run[m] \notin {"new", "queued"} \cup Over /\ run'[m] \notin Unstarted
       /\ io[To[m]] = m => io'[To[m]] = m \/ run'[m] \in Over \/ m \in late'

WireMoves ==
  \/ WireKept /\ (session = "closed" => session' = "closed")
  \/ WireLost
  \/ \E x \in Msgs : WireCall(x)

SentFirst == \A m \in Msgs : OnWire(m) \/ run[m] # "new" => Sent(m)
Order == SentFirst /\ PlaceInv /\ LineInv /\ WaitInv /\ SessionInOrder

LEMMA MoveOrder ==
  ASSUME Assumptions, TypeOK, Order, Moves, WireMoves
  PROVE  Order'
<1>0. /\ To \in [Msgs -> Ends] /\ {"dropped", "lost"} \subseteq Over /\ "queued" \notin Over
      /\ "new" \notin Over /\ {"new", "queued", "dropped", "lost"} = Unstarted
  BY DEF Assumptions, ConstantsAssumption, Over, Unstarted
<1>1. /\ ready' = ready /\ begun' = begun /\ late \subseteq late'
      /\ \A m \in Msgs : /\ run'[m] = "new" <=> run[m] = "new"
                         /\ run'[m] = "queued" <=> run[m] = "queued"
                         /\ run'[m] \in {"dropped", "lost"} <=> run[m] \in {"dropped", "lost"}
                         /\ run'[m] \in Unstarted <=> run[m] \in Unstarted
                         /\ run[m] \in Over => run'[m] \in Over
  BY <1>0 DEF Moves
<1>2. \A m \in Msgs : Begun(m)' <=> Begun(m)
  BY <1>1 DEF Begun
<1>3. CASE WireKept /\ (session = "closed" => session' = "closed")
  <2>1. SentFirst'
    BY <1>1, <1>3 DEF Order, SentFirst, WireKept
  <2>2. PlaceInv'
    BY <1>1, <1>2, <1>3 DEF Order, PlaceInv, WireKept
  <2>3. LineInv'
    BY <1>1, <1>3 DEF Order, LineInv, WireKept
  <2>4. WaitInv'
    BY <1>1, <1>3 DEF Order, WaitInv, WaitedFor, Decorator, Moves, WireKept
  <2>5. SessionInOrder'
    BY <1>1, <1>2, <1>3 DEF Order, SessionInOrder, WireKept
  <2> QED BY <2>1, <2>2, <2>3, <2>4, <2>5 DEF Order
<1>4. CASE WireLost
  <2>1. SentFirst'
    BY <1>1, <1>4 DEF Order, SentFirst, WireLost
  <2>2. PlaceInv'
    BY <1>1, <1>2, <1>4 DEF Order, PlaceInv, WireLost
  <2>3. LineInv'
    BY <1>1, <1>4 DEF Order, LineInv, WireLost
  <2>4. WaitInv'
    BY <1>1, <1>4 DEF Order, WaitInv, WaitedFor, Decorator, Moves, WireLost
  <2>5. SessionInOrder'
    BY <1>1, <1>2, <1>4 DEF Order, SessionInOrder, WireLost
  <2> QED BY <2>1, <2>2, <2>3, <2>4, <2>5 DEF Order
<1>5. ASSUME NEW x \in Msgs, WireCall(x) PROVE Order'
  <2>0. ~Sent(x) => run[x] = "new" /\ ~OnWire(x)
    BY DEF Order, SentFirst
  <2>1. SentFirst'
    BY <1>1, <1>5 DEF Order, SentFirst, WireCall
  <2>2. ASSUME NEW m \in Msgs
        PROVE  /\ (run'[m] = "queued" => In(ready, m)) /\ (In(ready, m) => run'[m] # "new")
               /\ run'[m] = "new" /\ Sent(m)' => OnWire(m)'
               /\ Once(m)' =>
                    /\ OnWire(m)' => run'[m] = "new" /\ ~Behind(m, m)'
                    /\ In(ready, m) => run'[m] = "queued" /\ ~Before(ready, m, m)
                    /\ Begun(m)' <=> run'[m] \notin Unstarted
    <3>1. /\ (run[m] = "queued" => In(ready, m)) /\ (In(ready, m) => run[m] # "new")
          /\ session # "closed" /\ run[m] = "new" /\ Sent(m) => OnWire(m)
          /\ Once(m) =>
               /\ OnWire(m) => run[m] = "new" /\ ~Behind(m, m)
               /\ In(ready, m) => run[m] = "queued" /\ ~Before(ready, m, m)
               /\ Begun(m) <=> run[m] \notin Unstarted
      BY DEF Order, PlaceInv
    <3>2. Behind(m, m) => OnWire(m)
      <4>1. inbox[To[m]] \in Seq(Items)
        BY <1>0 DEF TypeOK, Items
      <4> QED BY <4>1, Preceding DEF Behind, OnWire
    <3> QED BY <1>0, <1>1, <1>2, <1>5, <2>0, <3>1, <3>2 DEF WireCall
  <2>3. PlaceInv'
    BY <1>1, <2>2 DEF PlaceInv
  <2>4. ASSUME NEW m \in Msgs, NEW n \in Msgs, Ahead(m, n)'
        PROVE  /\ OnWire(n)' => run'[m] # "new" \/ Behind(n, m)'
               /\ run'[n] # "new" => run'[m] # "new"
               /\ run'[m] = "queued" /\ run'[n] = "queued" => Before(ready, m, n)
    <3>1. CASE Ahead(m, n)
      <4>1. Sent(n) /\ To[m] = To[n] /\ Once(n)' /\ Once(m)'
        BY <1>0, <2>4, <3>1, AheadSent DEF Ahead
      <4>2. n # x
        BY <1>5, <4>1 DEF WireCall
      <4> QED BY <1>1, <1>5, <3>1, <4>1, <4>2 DEF Order, LineInv, WireCall
    <3>2. CASE n = x /\ Sent(m) /\ ~Sent(x) /\ To[m] = To[x]
      <4>1. run'[n] = "new" /\ (run[m] = "new" => OnWire(m))
        BY <1>1, <1>5, <2>0, <3>2 DEF Order, PlaceInv, WireCall
      <4>2. OnWire(m) => Behind(n, m)'
        BY <1>5, <3>2 DEF WireCall
      <4> QED BY <1>1, <4>1, <4>2
    <3> QED BY <1>5, <2>4, <3>1, <3>2 DEF WireCall
  <2>5. LineInv'
    BY <1>1, <2>4 DEF LineInv
  <2>6. ASSUME NEW m \in Msgs, NEW n \in Msgs, Ahead(m, n)', run[n] # "new" \/ Begun(n)
        PROVE  Ahead(m, n)
    <3>1. Once(n)'
      BY <2>6 DEF Ahead
    <3>2. Once(n) /\ (n = x => ~Sent(x))
      BY <1>5, <3>1 DEF WireCall
    <3>3. run[n] # "new"
      BY <1>0, <2>6, <3>2 DEF Order, PlaceInv
    <3> QED BY <1>5, <2>0, <2>6, <3>2, <3>3 DEF WireCall
  <2>7. WaitInv'
    BY <1>1, <1>5, <2>6 DEF Order, WaitInv, WaitedFor, Decorator, Moves, WireCall
  <2>8. SessionInOrder'
    BY <1>1, <1>2, <2>6 DEF Order, SessionInOrder
  <2> QED BY <2>1, <2>3, <2>5, <2>7, <2>8 DEF Order
<1> QED BY <1>3, <1>4, <1>5 DEF WireMoves

-----------------------------------------------------------------------------
(* Steps that start a handler, or put it on the loop's queue. *)

\* A message that an I/O thread takes goes to its handler, to the loop, or is
\* dropped.
LEMMA TakeOrder ==
  ASSUME Assumptions, TypeOK, WireInv, QueueInv, Order,
         NEW e \in Ends, NEW x, x = Taken(e), Takes(e, "call"), UNCHANGED <<sent, session, late>>,
         NEW s, run' = [run EXCEPT ![x] = s],
         \/ /\ s = "queued" /\ HandlerOf[x] \in Coroutines /\ ready' = Append(ready, x)
            /\ io' = IF Decorator(x) \in Waits THEN [io EXCEPT ![e] = x] ELSE io
            /\ begun' = begun
         \/ /\ s = "direct" /\ HandlerOf[x] \notin Coroutines /\ ready' = ready
            /\ io' = [io EXCEPT ![e] = x] /\ begun' = Append(begun, x)
         \/ s \in {"dropped", "lost"} /\ UNCHANGED <<ready, io, begun>>
  PROVE  Order'
<1>0. /\ To \in [Msgs -> Ends] /\ {"dropped", "lost"} \subseteq Over /\ "queued" \notin Over
      /\ "new" \notin Over /\ "direct" \notin Over /\ Msgs \subseteq Frames /\ Nobody \notin Msgs
      /\ \A y : y \in Unstarted <=> y \in {"new", "queued", "dropped", "lost"}
      /\ run \in [Frames -> {"new"} \cup Alive \cup Over] /\ io \in [Ends -> Msgs \cup {Nobody}]
      /\ io[e] = Nobody
  BY DEF Assumptions, ConstantsAssumption, Over, Unstarted, TypeOK, Frames, Takes
<1>1. /\ x \in Msgs /\ To[x] = e /\ OnWire(x)
      /\ \A m, n \in Msgs :
           /\ (Sent(m)' <=> Sent(m)) /\ (Once(m)' <=> Once(m)) /\ (Ahead(m, n)' <=> Ahead(m, n))
           /\ OnWire(m)' => OnWire(m)
           /\ OnWire(m) => OnWire(m)' \/ m = x
           /\ OnWire(m)' /\ m = x => Behind(m, m)
           /\ Behind(n, m)' => Behind(n, m)
           /\ Behind(n, m) => Behind(n, m)' \/ m = x
           /\ n = x /\ Behind(n, m) => Behind(n, n)
  BY CallTaken
<1>2. /\ run'[x] = s /\ s # "new" /\ s \in {"queued", "direct", "dropped", "lost"}
      /\ \A m \in Msgs : m # x => run'[m] = run[m]
  BY <1>0, <1>1
<1>3. /\ \A y : In(ready', y) <=> In(ready, y) \/ (y = x /\ s = "queued")
      /\ \A y, z : Before(ready', y, z) <=>
                     Before(ready, y, z) \/ (z = x /\ In(ready, y) /\ s = "queued")
  <2>1. ready \in Seq(Msgs)
    BY DEF TypeOK
  <2>2. CASE s = "queued"
    <3>1. Longer(ready', ready, x)
      BY <1>1, <2>1, <2>2, Appended
    <3> QED BY <2>2, <3>1 DEF Longer
  <2>3. CASE s # "queued"
    <3>1. ready' = ready
      BY <2>3
    <3> QED BY <2>3, <3>1
  <2> QED BY <2>2, <2>3
<1>4. /\ \A y : In(begun', y) <=> In(begun, y) \/ (y = x /\ s = "direct")
      /\ \A y, z : Before(begun', y, z) <=>
                     Before(begun, y, z) \/ (z = x /\ In(begun, y) /\ s = "direct")
  <2>1. begun \in Seq(Msgs)
    BY DEF TypeOK
  <2>2. CASE s = "direct"
    <3>1. Longer(begun', begun, x)
      BY <1>1, <2>1, <2>2, Appended
    <3> QED BY <2>2, <3>1 DEF Longer
  <2>3. CASE s # "direct"
    <3>1. begun' = begun
      BY <2>3
    <3> QED BY <2>3, <3>1
  <2> QED BY <2>2, <2>3
<1>5. \A m \in Msgs : (Begun(m) <=> In(begun, m)) /\ (Begun(m)' <=> In(begun', m))
  BY DEF Begun, In
<1>6. Once(x) => run[x] = "new" /\ ~Behind(x, x) /\ ~In(ready, x) /\ ~Begun(x)
  BY <1>0, <1>1 DEF Order, PlaceInv
\* Messages sent before x have been taken before it.
<1>7. \A m \in Msgs : Ahead(m, x) => Once(x) /\ m # x /\ run[m] # "new"
  <2>1. \A m \in Msgs : Ahead(m, x) => Once(x) /\ m # x
    BY <1>0, <1>1, NotAheadOfItself DEF Ahead
  <2> QED BY <1>1, <1>6, <2>1 DEF Order, LineInv
<1>8. \A n \in Msgs : Ahead(x, n) => Once(x) /\ n # x /\ run[n] = "new"
  <2>1. \A n \in Msgs : Ahead(x, n) => Once(x) /\ n # x
    BY <1>0, <1>1, NotAheadOfItself DEF Ahead
  <2> QED BY <1>1, <1>6, <2>1 DEF Order, LineInv
<1>9. SentFirst'
  BY <1>1, <1>2 DEF Order, SentFirst
<1>10. PlaceInv'
  <2> SUFFICES ASSUME NEW m \in Msgs
               PROVE  /\ (run'[m] = "queued" => In(ready', m)) /\ (In(ready', m) => run'[m] # "new")
                      /\ session # "closed" /\ run'[m] = "new" /\ Sent(m) => OnWire(m)'
                      /\ Once(m) =>
                           /\ OnWire(m)' => run'[m] = "new" /\ ~Behind(m, m)'
                           /\ In(ready', m) => run'[m] = "queued" /\ ~Before(ready', m, m)
                           /\ In(begun', m) <=> run'[m] \notin Unstarted
    BY <1>1, <1>5 DEF PlaceInv
  <2>1. /\ (run[m] = "queued" => In(ready, m)) /\ (In(ready, m) => run[m] # "new")
        /\ session # "closed" /\ run[m] = "new" /\ Sent(m) => OnWire(m)
        /\ Once(m) =>
             /\ OnWire(m) => run[m] = "new" /\ ~Behind(m, m)
             /\ In(ready, m) => run[m] = "queued" /\ ~Before(ready, m, m)
             /\ In(begun, m) <=> run[m] \notin Unstarted
    BY <1>5 DEF Order, PlaceInv
  <2>2. Before(ready, m, m) => In(ready, m)
    <3>1. ready \in Seq(Msgs)
      BY DEF TypeOK
    <3> QED BY <3>1, Preceding
  <2>3. CASE m = x
    BY <1>0, <1>1, <1>2, <1>3, <1>4, <1>5, <1>6, <2>1, <2>2, <2>3
  <2>4. CASE m # x
    BY <1>1, <1>2, <1>3, <1>4, <2>1, <2>4
  <2> QED BY <2>3, <2>4
<1>11. LineInv'
  <2> SUFFICES ASSUME NEW m \in Msgs, NEW n \in Msgs, Ahead(m, n)
               PROVE  /\ OnWire(n)' => run'[m] # "new" \/ Behind(n, m)'
                      /\ run'[n] # "new" => run'[m] # "new"
                      /\ run'[m] = "queued" /\ run'[n] = "queued" => Before(ready', m, n)
    BY <1>1 DEF LineInv
  <2>1. /\ OnWire(n) => run[m] # "new" \/ Behind(n, m)
        /\ run[n] # "new" => run[m] # "new"
        /\ run[m] = "queued" /\ run[n] = "queued" => Before(ready, m, n)
    BY DEF Order, LineInv
  <2>2. run[m] = "queued" => In(ready, m)
    BY DEF Order, PlaceInv
  <2>3. CASE n = x
    BY <1>1, <1>2, <1>3, <1>7, <2>1, <2>2, <2>3
  <2>4. CASE n # x /\ m = x
    BY <1>1, <1>2, <1>8, <2>4
  <2>5. CASE n # x /\ m # x
    BY <1>1, <1>2, <1>3, <2>1, <2>5
  <2> QED BY <2>3, <2>4, <2>5
<1>12. WaitInv'
  <2> SUFFICES ASSUME NEW m \in Msgs, Once(m), WaitedFor(m)
               PROVE  /\ run'[m] # "new" => io'[To[m]] = m \/ run'[m] \in Over \/ m \in late
                      /\ \A n \in Msgs : run'[n] # "new" /\ Ahead(m, n)
                                           => run'[m] \in Over \/ m \in late
    BY <1>1 DEF WaitInv, WaitedFor, Decorator
  <2>1. /\ run[m] # "new" => io[To[m]] = m \/ run[m] \in Over \/ m \in late
        /\ \A n \in Msgs : run[n] # "new" /\ Ahead(m, n) => run[m] \in Over \/ m \in late
    BY DEF Order, WaitInv
  <2>2. CASE m = x
    <3>1. s \notin {"dropped", "lost"} => io'[e] = x
      BY <1>0, <1>2, <2>2 DEF WaitedFor
    <3> QED BY <1>0, <1>1, <1>2, <1>8, <2>2, <3>1
  <2>3. CASE m # x
    <3>1. To[m] \in Ends /\ (To[m] # e => io'[To[m]] = io[To[m]])
      BY <1>0
    <3>2. To[m] = e => io[To[m]] # m
      BY <1>0
    <3>3. run'[m] # "new" => io'[To[m]] = m \/ run'[m] \in Over \/ m \in late
      BY <1>2, <2>1, <2>3, <3>1, <3>2
    <3>4. ASSUME NEW n \in Msgs, run'[n] # "new", Ahead(m, n)
          PROVE  run'[m] \in Over \/ m \in late
      <4>1. CASE n # x
        BY <1>2, <2>1, <2>3, <3>4, <4>1
      <4>2. CASE n = x
        <5>1. To[m] = e
          BY <1>1, <3>4, <4>2 DEF Ahead
        <5>2. io[To[m]] # m /\ run[m] # "new" /\ run'[m] = run[m]
          BY <1>2, <1>7, <2>3, <3>2, <3>4, <4>2, <5>1
        <5> QED BY <2>1, <5>2
      <4> QED BY <4>1, <4>2
    <3> QED BY <3>3, <3>4
  <2> QED BY <2>2, <2>3
<1>13. SessionInOrder'
  <2> SUFFICES ASSUME NEW m \in Msgs, NEW n \in Msgs, Begun(n)',
                      run'[m] \notin {"dropped", "lost"}, Ahead(m, n)
               PROVE  Before(begun', m, n) \/ (HandlerOf[m] \in Coroutines /\ HandlerOf[n] \notin Coroutines)
    BY <1>1 DEF SessionInOrder
  <2>1. run[m] \notin {"dropped", "lost"}
    BY <1>2, <1>6, <1>8
  <2>2. CASE Begun(n)
    BY <1>4, <2>1, <2>2 DEF Order, SessionInOrder
  <2>3. CASE ~Begun(n)
    <3>1. n = x /\ s = "direct" /\ HandlerOf[n] \notin Coroutines
      BY <1>4, <1>5, <2>3
    <3>2. CASE run[m] = "queued"
      <4>1. In(ready, m)
        BY <3>2 DEF Order, PlaceInv
      <4>2. HandlerOf[m] \in Coroutines
        BY <4>1 DEF QueueInv, In
      <4> QED BY <3>1, <4>2
    <3>3. CASE run[m] # "queued"
      <4>1. run[m] \notin Unstarted /\ Once(m)
        BY <1>0, <1>7, <2>1, <3>1, <3>3 DEF Ahead
      <4>2. In(begun, m)
        BY <1>5, <4>1 DEF Order, PlaceInv
      <4> QED BY <1>4, <3>1, <4>2
    <3> QED BY <3>2, <3>3
  <2> QED BY <2>2, <2>3
<1> QED BY <1>9, <1>10, <1>11, <1>12, <1>13 DEF Order

\* The loop starts the coroutine that has been queued for the longest time.
LEMMA StartOrder ==
  ASSUME Assumptions, TypeOK, Order, StartTask
  PROVE  Order'
<1> DEFINE x == Head(ready)
<1>0. /\ To \in [Msgs -> Ends] /\ "queued" \notin Over /\ "running" \notin Over
      /\ Msgs \subseteq Frames
      /\ \A y : y \in Unstarted <=> y \in {"new", "queued", "dropped", "lost"}
      /\ run \in [Frames -> {"new"} \cup Alive \cup Over]
      /\ ready \in Seq(Msgs) /\ begun \in Seq(Msgs)
  BY DEF Assumptions, ConstantsAssumption, Over, Unstarted, TypeOK, Frames
<1>1. /\ ready # <<>> /\ ready' = Tail(ready) /\ begun' = Append(begun, x)
      /\ run' = [run EXCEPT ![x] = "running"] /\ UNCHANGED <<inbox, sent, session, io, late>>
      /\ x \in Msgs
  <2>1. x \in Msgs
    BY <1>0 DEF StartTask
  <2> QED BY <2>1 DEF StartTask, Enter, Become, LoopFrame, wire
<1>2. Shorter(ready', ready, x) /\ Longer(begun', begun, x)
  BY <1>0, <1>1, Removed, Appended
<1>3. run'[x] = "running" /\ \A m \in Msgs : m # x => run'[m] = run[m]
  BY <1>0, <1>1
<1>4. \A m, n \in Msgs :
        /\ (Sent(m)' <=> Sent(m)) /\ (Once(m)' <=> Once(m)) /\ (Ahead(m, n)' <=> Ahead(m, n))
        /\ (OnWire(m)' <=> OnWire(m)) /\ (Behind(n, m)' <=> Behind(n, m))
  BY <1>1, KeptQuiet DEF WireKept
<1>5. \A m \in Msgs : (Begun(m) <=> In(begun, m)) /\ (Begun(m)' <=> In(begun', m))
  BY DEF Begun, In
<1>6. In(ready, x)
  BY <1>2 DEF Shorter
<1>7. Once(x) => /\ run[x] = "queued" /\ ~Before(ready, x, x) /\ ~In(ready', x) /\ ~Begun(x)
  <2>1. Once(x) => run[x] = "queued" /\ ~Before(ready, x, x) /\ ~Begun(x)
    BY <1>0, <1>1, <1>6 DEF Order, PlaceInv
  <2> QED BY <1>2, <2>1 DEF Shorter
<1>8. SentFirst'
  <2>1. Sent(x)
    BY <1>1, <1>6 DEF Order, SentFirst, PlaceInv
  <2> QED BY <1>3, <1>4, <2>1 DEF Order, SentFirst
<1>9. PlaceInv'
  <2> SUFFICES ASSUME NEW m \in Msgs
               PROVE  /\ (run'[m] = "queued" => In(ready', m)) /\ (In(ready', m) => run'[m] # "new")
                      /\ session # "closed" /\ run'[m] = "new" /\ Sent(m) => OnWire(m)
                      /\ Once(m) =>
                           /\ OnWire(m) => run'[m] = "new" /\ ~Behind(m, m)
                           /\ In(ready', m) => run'[m] = "queued" /\ ~Before(ready', m, m)
                           /\ In(begun', m) <=> run'[m] \notin Unstarted
    BY <1>1, <1>4, <1>5 DEF PlaceInv
  <2>1. /\ (run[m] = "queued" => In(ready, m)) /\ (In(ready, m) => run[m] # "new")
        /\ session # "closed" /\ run[m] = "new" /\ Sent(m) => OnWire(m)
        /\ Once(m) =>
             /\ OnWire(m) => run[m] = "new" /\ ~Behind(m, m)
             /\ In(ready, m) => run[m] = "queued" /\ ~Before(ready, m, m)
             /\ In(begun, m) <=> run[m] \notin Unstarted
    BY <1>5 DEF Order, PlaceInv
  <2>2. CASE m = x
    BY <1>0, <1>2, <1>3, <1>6, <1>7, <2>1, <2>2 DEF Longer
  <2>3. CASE m # x
    BY <1>2, <1>3, <2>1, <2>3 DEF Longer, Shorter
  <2> QED BY <2>2, <2>3
<1>10. LineInv'
  <2> SUFFICES ASSUME NEW m \in Msgs, NEW n \in Msgs, Ahead(m, n)
               PROVE  /\ OnWire(n) => run'[m] # "new" \/ Behind(n, m)
                      /\ run'[n] # "new" => run'[m] # "new"
                      /\ run'[m] = "queued" /\ run'[n] = "queued" => Before(ready', m, n)
    BY <1>4 DEF LineInv
  <2>1. /\ OnWire(n) => run[m] # "new" \/ Behind(n, m)
        /\ run[n] # "new" => run[m] # "new"
        /\ run[m] = "queued" /\ run[n] = "queued" => Before(ready, m, n)
    BY DEF Order, LineInv
  <2>2. run[x] # "new"
    BY <1>1, <1>6 DEF Order, PlaceInv
  <2> QED BY <1>2, <1>3, <2>1, <2>2 DEF Shorter
<1>11. WaitInv'
  <2> SUFFICES ASSUME NEW m \in Msgs, Once(m), WaitedFor(m)
               PROVE  /\ run'[m] # "new" => io[To[m]] = m \/ run'[m] \in Over \/ m \in late
                      /\ \A n \in Msgs : run'[n] # "new" /\ Ahead(m, n)
                                           => run'[m] \in Over \/ m \in late
    BY <1>1, <1>4 DEF WaitInv, WaitedFor, Decorator
  <2>1. /\ run[m] # "new" => io[To[m]] = m \/ run[m] \in Over \/ m \in late
        /\ \A n \in Msgs : run[n] # "new" /\ Ahead(m, n) => run[m] \in Over \/ m \in late
    BY DEF Order, WaitInv
  <2>2. run[x] # "new" /\ (m = x => run[m] = "queued")
    BY <1>1, <1>6, <1>7 DEF Order, PlaceInv
  <2> QED BY <1>0, <1>3, <2>1, <2>2
<1>12. SessionInOrder'
  <2> SUFFICES ASSUME NEW m \in Msgs, NEW n \in Msgs, Begun(n)',
                      run'[m] \notin {"dropped", "lost"}, Ahead(m, n)
               PROVE  Before(begun', m, n) \/ (HandlerOf[m] \in Coroutines /\ HandlerOf[n] \notin Coroutines)
    BY <1>4 DEF SessionInOrder
  <2>1. Once(m) /\ Once(n) /\ run[m] \notin {"dropped", "lost"}
    <3>1. Once(m) /\ Once(n)
      BY DEF Ahead
    <3> QED BY <1>3, <1>7, <3>1
  <2>2. CASE Begun(n)
    BY <1>2, <2>1, <2>2 DEF Order, SessionInOrder, Longer
  <2>3. CASE ~Begun(n)
    <3>1. n = x
      BY <1>2, <1>5, <2>3 DEF Longer
    <3>2. run[m] # "new" /\ run[n] = "queued"
      BY <1>7, <2>1, <3>1 DEF Order, LineInv
    <3>3. run[m] # "queued"
      <4>1. ~Before(ready, m, x)
        BY <1>2, <1>7, <2>1, <3>1 DEF Shorter
      <4> QED BY <3>1, <3>2, <4>1 DEF Order, LineInv
    <3>4. In(begun, m)
      BY <1>0, <1>5, <2>1, <3>2, <3>3 DEF Order, PlaceInv
    <3> QED BY <1>2, <3>1, <3>4 DEF Longer
  <2> QED BY <2>2, <2>3
<1> QED BY <1>8, <1>9, <1>10, <1>11, <1>12 DEF Order

-----------------------------------------------------------------------------
(* Every other step is one of those that start nothing. *)

\* Nothing is sent before the client connects.
Quiet == up[Client] = "new" => session = "none" /\ \A e \in Ends : sent[e] = <<>>

\* I/O threads do not begin to wait, and responses go where they should.
Holds ==
  \A e \in Ends : io'[e] # Nobody =>
    io'[e] = io[e] /\ (run'[io[e]] # "direct" => run[io[e]] # "direct")
Answers ==
  \A e \in Ends : \A i \in 1..Len(inbox'[e]) : inbox'[e][i][1] = "response" =>
    \/ \E k \in 1..Len(inbox[e]) : inbox'[e][i] = inbox[e][k]
    \/ e = Peer(To[inbox'[e][i][2]])
Plain == Moves /\ Holds /\ WireMoves /\ Answers /\ Quiet'

LEMMA RunMoves ==
  ASSUME TypeOK, UNCHANGED <<ready, begun, late, io>>,
         \/ UNCHANGED run
         \/ \E f \in Frames, s \in (Alive \cup Over) \ Unstarted :
              /\ run[f] \in Alive \ {"queued"} /\ run' = [run EXCEPT ![f] = s]
              /\ run[f] = "direct" => s = "direct"
  PROVE  Moves /\ Holds
<1>0. run \in [Frames -> {"new"} \cup Alive \cup Over] /\ Msgs \subseteq Frames
      /\ \A e \in Ends : io[e] # Nobody => io[e] \in Frames
  BY DEF TypeOK, Frames
<1>1. \A f \in Frames : /\ \/ run'[f] = run[f]
                           \/ run[f] \notin {"new", "queued"} \cup Over /\ run'[f] \notin Unstarted
                        /\ run[f] = "direct" => run'[f] = "direct"
  BY <1>0 DEF Alive, Over
<1> QED BY <1>0, <1>1 DEF Moves, Holds

LEMMA QuietWire ==
  ASSUME Assumptions, TypeOK, Quiet, UNCHANGED <<inbox, sent>>,
         up'[Client] = "new" => up[Client] = "new" /\ session' = session,
         session = "closed" => session' = "closed"
  PROVE  WireMoves /\ Answers /\ Quiet'
<1>1. WireMoves
  BY KeptQuiet DEF WireMoves
<1>2. Answers
  BY DEF Answers
<1> QED BY <1>1, <1>2 DEF Quiet

LEMMA CallWire ==
  ASSUME Assumptions, TypeOK, Quiet, NEW x \in Msgs, Deliver(To[x], "call", x),
         session # "closed", up'[Client] # "new"
  PROVE  WireMoves /\ Answers /\ Quiet'
<1>1. WireMoves
  BY CallSent DEF WireMoves
<1>2. To[x] \in Ends
  BY DEF Assumptions, ConstantsAssumption
<1>3. Answers
  <2> SUFFICES ASSUME NEW e \in Ends, NEW i \in 1..Len(inbox'[e]), inbox'[e][i][1] = "response"
               PROVE  \E k \in 1..Len(inbox[e]) : inbox'[e][i] = inbox[e][k]
    BY DEF Answers
  <2> QED BY <1>2, DeliveredElements
<1> QED BY <1>1, <1>3 DEF Quiet

\* The I/O thread of f's endpoint passes a result on.
LEMMA ConcludeMoves ==
  ASSUME Assumptions, SafeInv, Quiet, SentFirst, NEW f \in Msgs, run[f] # "new",
         NEW how, Conclude(f, how), UNCHANGED up
  PROVE  WireMoves /\ Answers /\ Quiet'
<1>0. TypeOK /\ Ready \in Msgs /\ To[Ready] = Client
  BY DEF SafeInv, Assumptions, ConstantsAssumption
<1>1. up[Client] # "new"
  <2>1. Sent(f) /\ To[f] \in Ends
    BY DEF SentFirst, Assumptions, ConstantsAssumption
  <2>2. sent[To[f]] # <<>>
    BY <2>1 DEF Sent, In
  <2> QED BY <2>1, <2>2 DEF Quiet
<1>2. CASE UNCHANGED wire
  BY <1>0, <1>2, QuietWire DEF wire
<1>3. CASE Deliver(Client, "call", Ready) /\ session = "none"
  BY <1>0, <1>1, <1>3, CallWire
<1>4. CASE Deliver(Peer(To[f]), "response", f) /\ UNCHANGED session
  <2>1. WireMoves
    BY <1>0, <1>4, AnswerSent DEF WireMoves
  <2>2. Peer(To[f]) \in Ends
    BY DEF Peer, Ends
  <2>3. Answers
    <3> SUFFICES ASSUME NEW e \in Ends, NEW i \in 1..Len(inbox'[e]),
                        ~\E k \in 1..Len(inbox[e]) : inbox'[e][i] = inbox[e][k]
                 PROVE  e = Peer(To[inbox'[e][i][2]])
      BY DEF Answers
    <3>1. e = Peer(To[f]) /\ inbox'[e][i] = <<"response", f>>
      BY <1>0, <1>4, <2>2, DeliveredElements
    <3> QED BY <3>1
  <2> QED BY <1>1, <2>1, <2>3 DEF Quiet
<1> QED BY <1>2, <1>3, <1>4 DEF Conclude

LEMMA EndMoves ==
  ASSUME Assumptions, SafeInv, Quiet, SentFirst, NEW f \in Frames, NEW how \in Over \ {"dropped", "lost"},
         run[f] \in Alive \ {"queued"}, End(f, how)
  PROVE  Plain
<1>0. /\ TypeOK /\ To \in [Msgs -> Ends] /\ how \in (Alive \cup Over) \ Unstarted
      /\ UNCHANGED <<up, ready, late, begun>> /\ run' = [run EXCEPT ![f] = how]
  BY DEF SafeInv, Assumptions, ConstantsAssumption, Over, Unstarted, End, Become, loopVars
<1>1. CASE run[f] = "direct"
  <2>1. /\ f \in Msgs /\ io[To[f]] = f /\ io' = [io EXCEPT ![To[f]] = Nobody] /\ Conclude(f, how)
    BY <1>1 DEF SafeInv, ThreadInv, End
  <2>2. WireMoves /\ Answers /\ Quiet'
    BY <1>0, <1>1, <2>1, ConcludeMoves
  <2>3. /\ run'[f] = how /\ \A g \in Frames : g # f => run'[g] = run[g]
        /\ io \in [Ends -> Msgs \cup {Nobody}] /\ Msgs \subseteq Frames
        /\ \A e \in Ends : e # To[f] => io'[e] = io[e]
    BY <1>0, <2>1 DEF TypeOK, Frames
  <2>4. Moves
    <3>1. how \in Over /\ how \notin Unstarted /\ run[f] \notin {"new", "queued"} \cup Over
      BY <1>0, <1>1 DEF Over
    <3> QED BY <1>0, <2>1, <2>3, <3>1 DEF Moves
  <2>5. Holds
    <3> SUFFICES ASSUME NEW e \in Ends, io'[e] # Nobody
                 PROVE  io'[e] = io[e] /\ run'[io[e]] = run[io[e]]
      BY DEF Holds
    <3>1. e # To[f] /\ io'[e] = io[e] /\ io[e] \in Msgs
      BY <1>0, <2>1, <2>3
    <3>2. io[e] # f
      BY <3>1 DEF SafeInv, ThreadInv
    <3> QED BY <2>3, <3>1, <3>2
  <2> QED BY <2>2, <2>4, <2>5 DEF Plain
<1>2. CASE run[f] # "direct"
  <2>1. UNCHANGED <<io, inbox, sent, session>>
    BY <1>2 DEF End, wire
  <2> QED BY <1>0, <1>2, <2>1, RunMoves, QuietWire DEF Plain
<1> QED BY <1>1, <1>2

LEMMA RaiseMoves ==
  ASSUME Assumptions, SafeInv, Quiet, SentFirst, NEW f \in Frames,
         run[f] \in Alive \ {"queued"}, Raise(f)
  PROVE  Plain
<1>1. CASE Cleanup(f) = {}
  BY <1>1, EndMoves DEF Raise, Over
<1>2. CASE Cleanup(f) # {}
  <2>1. /\ run' = [run EXCEPT ![f] = IF run[f] = "direct" THEN "direct" ELSE "running"]
        /\ UNCHANGED <<up, inbox, sent, session, io, ready, late, begun>>
    BY <1>2 DEF Raise, Become, wire, loopVars
  <2>2. {"direct", "running"} \subseteq (Alive \cup Over) \ Unstarted
    BY DEF Alive, Unstarted
  <2>3. PICK s \in (Alive \cup Over) \ Unstarted :
          run' = [run EXCEPT ![f] = s] /\ (run[f] = "direct" => s = "direct")
    BY <2>1, <2>2
  <2> QED BY <2>1, <2>3, RunMoves, QuietWire DEF Plain, SafeInv
<1> QED BY <1>1, <1>2

LEMMA FrameMoves ==
  ASSUME Assumptions, SafeInv, Quiet, SentFirst, NEW f \in Frames,
         \/ Return(f) \/ Send(f) \/ Write(f) \/ SendFails(f) \/ AsyncRequest(f)
         \/ SyncRequest(f) \/ SetEvent(f) \/ Await(f) \/ Register(f) \/ Attach(f)
         \/ Start(f) \/ Connect(f) \/ StopBegins(f) \/ StopEnds(f)
         \/ Resume(f) \/ ResumeTimedOut(f) \/ Unblock(f) \/ WaitExpires(f)
  PROVE  Plain
<1>0. /\ To \in [Msgs -> Ends] /\ TypeOK /\ Positive /\ Client \in Ends
      /\ up \in [Ends -> {"new", "starting", "up", "stopping", "hung", "down"}]
  BY DEF Assumptions, ConstantsAssumption, SafeInv, Positive, TypeOK, Ends
<1>1. ASSUME NEW s \in {"running", "awake", "awaiting", "blocked"},
             run[f] \in {"running", "awake", "awaiting", "blocked"},
             Become(f, s), UNCHANGED <<ready, begun, late, io>>
      PROVE  Moves /\ Holds
  <2>1. s \in (Alive \cup Over) \ Unstarted /\ run[f] \in Alive \ {"queued"} /\ run[f] # "direct"
    BY <1>1 DEF Alive, Unstarted
  <2> QED BY <1>0, <1>1, <2>1, RunMoves DEF Become
<1>2. ASSUME UNCHANGED <<run, ready, begun, late, io>> PROVE Moves /\ Holds
  BY <1>0, <1>2, RunMoves
<1>3. ASSUME UNCHANGED <<up, session, inbox, sent>> PROVE WireMoves /\ Answers /\ Quiet'
  BY <1>0, <1>3, QuietWire
<1>4. CASE Return(f)
  <2>1. run[f] \in Alive \ {"queued"}
    BY <1>4, Doing DEF Return
  <2>2. (\E how \in Over \ {"dropped", "lost"} : End(f, how)) \/ Raise(f)
    BY <1>4 DEF Return, Over
  <2> QED BY <2>1, <2>2, EndMoves, RaiseMoves
<1>5. CASE Send(f) \/ Write(f)
  <2>1. \E v \in {"send", "write"} : Does(f, v) /\ Reached(f, v)
    BY <1>5, Doing DEF Send, Write
  <2>2. Arg(f) \in Msgs
    BY <1>0, <2>1, Arguments DEF Fits, Arg
  <2>3. Deliver(To[Arg(f)], "call", Arg(f)) /\ session = "open" /\ UNCHANGED <<up, ready, late, begun, io>>
    BY <1>5 DEF Send, Write, CanSend, loopVars
  <2>4. up[Client] # "new"
    BY <2>3 DEF Quiet
  <2>5. WireMoves /\ Answers /\ Quiet'
    BY <1>0, <2>2, <2>3, <2>4, CallWire
  <2>6. Moves /\ Holds
    BY <1>1, <1>2, <1>5, <2>3 DEF Send, Write
  <2> QED BY <2>5, <2>6 DEF Plain
<1>6. CASE SendFails(f) \/ ResumeTimedOut(f)
  <2>1. Raise(f) /\ run[f] \in Alive \ {"queued"}
    BY <1>6, Doing DEF SendFails, ResumeTimedOut
  <2> QED BY <2>1, RaiseMoves
<1>7. CASE AsyncRequest(f) \/ SyncRequest(f)
  <2>1. \E v \in {"async_request", "sync_request"} : Does(f, v) /\ Reached(f, v)
    BY <1>7, Doing DEF AsyncRequest, SyncRequest
  <2>2. Arg(f) \in Msgs
    BY <1>0, <2>1, Arguments DEF Fits, Arg
  <2>3. CASE Raise(f)
    BY <2>1, <2>3, Doing, RaiseMoves
  <2>4. ASSUME NEW s \in {"awaiting", "blocked"}, run[f] = "running", Ask(f, s) PROVE Plain
    <3>1. Deliver(To[Arg(f)], "call", Arg(f)) /\ session = "open" /\ UNCHANGED <<up, ready, late, begun, io>>
          /\ Become(f, s)
      BY <2>4 DEF Ask, CanSend, loopVars
    <3>2. up[Client] # "new"
      BY <3>1 DEF Quiet
    <3>3. WireMoves /\ Answers /\ Quiet'
      BY <1>0, <2>2, <3>1, <3>2, CallWire
    <3>4. Moves /\ Holds
      BY <1>1, <2>4, <3>1
    <3> QED BY <3>3, <3>4 DEF Plain
  <2>5. Raise(f) \/ (run[f] = "running" /\ \E s \in {"awaiting", "blocked"} : Ask(f, s))
    BY <1>7 DEF AsyncRequest, SyncRequest, Does
  <2> QED BY <2>3, <2>4, <2>5
<1>8. CASE SetEvent(f) \/ Register(f) \/ Attach(f)
  BY <1>2, <1>3, <1>8 DEF Plain, SetEvent, Register, Attach, wire, loopVars
<1>9. CASE Start(f)
  <2>1. UNCHANGED <<session, inbox, sent, run, ready, late, begun, io>>
        /\ up' = [up EXCEPT ![Arg(f)] = "starting"]
    BY <1>9 DEF Start, wire, loopVars
  <2>2. up'[Client] = "new" => up[Client] = "new"
    BY <1>0, <2>1
  <2> QED BY <1>0, <1>2, <2>1, <2>2, QuietWire DEF Plain
<1>10. CASE Await(f)
  <2>1. UNCHANGED <<up, session, inbox, sent, io, ready, late, begun>> /\ run[f] = "running"
        /\ (UNCHANGED run \/ Become(f, "awaiting"))
    BY <1>10 DEF Await, wire, loopVars
  <2> QED BY <1>1, <1>2, <1>3, <2>1 DEF Plain
<1>11. CASE Connect(f)
  <2>1. Arg(f) \in Msgs
    BY <1>0, <1>11, Doing, Arguments DEF Connect, Fits, Arg
  <2>2. /\ UNCHANGED <<run, io, ready, late, begun>> /\ up'[Client] = "up"
        /\ session # "closed"
    BY <1>0, <1>11 DEF Connect, loopVars, Quiet
  <2>3. CASE UNCHANGED wire
    BY <1>0, <1>2, <2>2, <2>3, QuietWire DEF Plain, wire
  <2>4. CASE Deliver(To[Arg(f)], "call", Arg(f))
    BY <1>0, <1>2, <2>1, <2>2, <2>4, CallWire DEF Plain
  <2> QED BY <1>11, <2>3, <2>4 DEF Connect
<1>12. CASE StopBegins(f)
  <2>1. CASE run[f] = "direct"
    BY <1>12, <2>1, Doing, RaiseMoves DEF StopBegins
  <2>2. CASE run[f] # "direct"
    <3>1. /\ Become(f, "blocked") /\ UNCHANGED <<session, inbox, sent, io, ready, late, begun>>
          /\ run[f] = "running"
          /\ up' = [up EXCEPT ![Arg(f)] = IF @ = "starting" THEN "hung" ELSE "stopping"]
      BY <1>12, <2>2 DEF StopBegins, Does, wire, loopVars
    <3>2. up'[Client] = "new" => up[Client] = "new"
      BY <1>0, <3>1
    <3> QED BY <1>0, <1>1, <3>1, <3>2, QuietWire DEF Plain
  <2> QED BY <2>1, <2>2
<1>13. CASE StopEnds(f)
  <2>1. /\ Become(f, "running") /\ UNCHANGED <<inbox, sent, io, ready, late, begun>> /\ run[f] = "blocked"
        /\ up' = [up EXCEPT ![Arg(f)] = "down"]
        /\ session' = IF session = "open" THEN "closed" ELSE session
    BY <1>13 DEF StopEnds, loopVars
  <2>2. /\ up'[Client] = "new" => up[Client] = "new" /\ session' = session
        /\ session = "closed" => session' = "closed"
    BY <1>0, <2>1 DEF Quiet
  <2> QED BY <1>0, <1>1, <2>1, <2>2, QuietWire DEF Plain
<1>14. CASE Resume(f)
  <2>1. Become(f, "running") /\ UNCHANGED <<up, session, inbox, sent, io, ready, late, begun>>
        /\ run[f] \in {"awake", "awaiting"}
    BY <1>14 DEF Resume, Enter, LoopFrame, wire, loopVars
  <2> QED BY <1>1, <1>3, <2>1 DEF Plain
<1>15. CASE Unblock(f) \/ WaitExpires(f)
  <2>1. run[f] \in {"blocked", "awaiting"}
    BY <1>15 DEF Unblock, WaitExpires
  <2>2. CASE Raise(f)
    BY <2>1, <2>2, Doing, RaiseMoves
  <2>3. CASE ~Raise(f)
    <3>1. Become(f, "running") /\ UNCHANGED <<up, session, inbox, sent, io, ready, late, begun>>
      BY <1>15, <2>3 DEF Unblock, WaitExpires, Enter, LoopFrame, wire, loopVars
    <3> QED BY <1>1, <1>3, <2>1, <3>1 DEF Plain
  <2> QED BY <2>2, <2>3
<1> QED BY <1>4, <1>5, <1>6, <1>7, <1>8, <1>9, <1>10, <1>11, <1>12, <1>13, <1>14, <1>15

Started == \/ \E e \in Ends : TakeInVain(e) \/ TakeCoroutine(e) \/ TakeSync(e)
           \/ StartTask

LEMMA PlainStep ==
  ASSUME Assumptions, SafeInv, Quiet, SentFirst, [Next]_vars
  PROVE  Started \/ Plain
<1>0. TypeOK /\ Positive /\ Msgs \subseteq Frames /\ "new" \notin Over
  BY DEF SafeInv, Positive, Frames, Over
<1>1. ASSUME UNCHANGED <<run, ready, begun, late, io>> PROVE Moves /\ Holds
  BY <1>0, <1>1, RunMoves
<1>2. ASSUME UNCHANGED <<up, session, inbox, sent>> PROVE WireMoves /\ Answers /\ Quiet'
  BY <1>0, <1>2, QuietWire
<1>3. ASSUME NEW m \in Msgs, CancelTask(m) PROVE Plain
  <2>1. /\ m \in Frames /\ "cancelled" \in Over \ {"dropped", "lost"}
        /\ run[m] \in Alive \ {"queued"} /\ (End(m, "cancelled") \/ Raise(m))
    BY <1>0, <1>3 DEF CancelTask, Alive, Over
  <2> QED BY <2>1, EndMoves, RaiseMoves
<1>4. ASSUME NEW e \in Ends, AcceptLoopRuns(e) PROVE Plain
  <2>1. /\ UNCHANGED <<session, inbox, sent, run, ready, begun, late, io>>
        /\ up[e] = "starting" /\ up' = [up EXCEPT ![e] = "up"]
    BY <1>4 DEF AcceptLoopRuns, wire, loopVars
  <2>2. up'[Client] = "new" => up[Client] = "new"
    BY <1>0, <2>1 DEF TypeOK, Ends
  <2> QED BY <1>0, <1>1, <2>1, <2>2, QuietWire DEF Plain
<1>5. ASSUME NEW e \in Ends, TakeResponse(e) PROVE Plain
  <2>1. Takes(e, "response") /\ UNCHANGED <<up, session, sent, run, ready, begun, late, io>>
    BY <1>5 DEF TakeResponse, loopVars
  <2>2. WireMoves /\ Quiet'
    BY <1>0, <2>1, AnswerTaken DEF WireMoves, Quiet
  <2>3. Answers
    <3>1. \A d \in Ends : \A i \in 1..Len(inbox'[d]) :
              \E k \in 1..Len(inbox[d]) : inbox'[d][i] = inbox[d][k]
      BY <1>0, <2>1, TakenElements DEF SafeInv, Safe
    <3> QED BY <3>1 DEF Answers
  <2> QED BY <1>1, <2>1, <2>2, <2>3 DEF Plain
<1>6. ASSUME NEW e \in Ends, ResultArrives(e) PROVE Plain
  <2>1. /\ io[e] \in Msgs /\ run[io[e]] \in Over /\ UNCHANGED <<up, run, ready, late, begun>>
        /\ io' = [io EXCEPT ![e] = Nobody] /\ Conclude(io[e], run[io[e]])
    BY <1>0, <1>6 DEF ResultArrives, TypeOK, loopVars
  <2>2. WireMoves /\ Answers /\ Quiet'
    BY <1>0, <2>1, ConcludeMoves
  <2>3. /\ io \in [Ends -> Msgs \cup {Nobody}] /\ To \in [Msgs -> Ends]
        /\ \A d \in Ends : io'[d] = IF d = e THEN Nobody ELSE io[d]
    BY <1>0, <2>1 DEF TypeOK, Assumptions, ConstantsAssumption
  <2>4. Moves
    BY <2>1, <2>3 DEF Moves
  <2>5. Holds
    BY <2>1, <2>3 DEF Holds
  <2> QED BY <2>2, <2>4, <2>5 DEF Plain
<1>7. ASSUME NEW r \in Msgs, RequestExpires(r) PROVE Plain
  BY <1>1, <1>2, <1>7 DEF RequestExpires, Plain, wire, loopVars
<1>8. ASSUME NEW e \in Ends, ResultExpires(e) PROVE Plain
  <2>1. /\ io[e] # Nobody /\ late' = late \cup {io[e]} /\ io' = [io EXCEPT ![e] = Nobody]
        /\ UNCHANGED <<up, session, inbox, sent, run, ready, begun>>
    BY <1>8 DEF ResultExpires, wire
  <2>2. /\ io \in [Ends -> Msgs \cup {Nobody}] /\ To \in [Msgs -> Ends]
        /\ \A d \in Ends : io'[d] = IF d = e THEN Nobody ELSE io[d]
    BY <1>0, <2>1 DEF TypeOK, Assumptions, ConstantsAssumption
  <2>3. Moves
    BY <2>1, <2>2 DEF Moves
  <2>4. Holds
    BY <2>1, <2>2 DEF Holds
  <2> QED BY <1>2, <2>1, <2>3, <2>4 DEF Plain
<1>9. CASE LoseSession
  <2>1. Moves /\ Holds
    BY <1>1, <1>9 DEF LoseSession, loopVars
  <2>2. WireMoves /\ Answers
    <3>1. \A e \in Ends : 1..Len(inbox'[e]) = {}
      BY <1>9 DEF LoseSession
    <3> QED BY <1>9, <3>1, SessionLost DEF WireMoves, Answers
  <2>3. Quiet'
    BY <1>9 DEF LoseSession, Quiet
  <2> QED BY <2>1, <2>2, <2>3 DEF Plain
<1>10. CASE UNCHANGED vars
  BY <1>1, <1>2, <1>10 DEF vars, Plain, wire, loopVars
<1>11. CASE Step
  BY <1>3, <1>4, <1>5, <1>6, <1>11, FrameMoves DEF Step, Started
<1>12. CASE Expire
  BY <1>7, <1>8, <1>12, FrameMoves DEF Expire
<1> QED BY <1>9, <1>10, <1>11, <1>12 DEF Next, Goes

-----------------------------------------------------------------------------
(* The invariants. *)

LEMMA OrderStep ==
  ASSUME Assumptions, SafeInv, OrderInv, [Next]_vars
  PROVE  OrderInv'
<1>0. TypeOK /\ WireInv /\ QueueInv /\ Quiet /\ Order /\ SentFirst
  BY DEF SafeInv, OrderInv, SentInv, Quiet, SentFirst, Order
<1>1. CASE Plain
  <2>1. Quiet' /\ Order'
    BY <1>0, <1>1, MoveOrder DEF Plain
  <2> QED BY <2>1 DEF OrderInv, SentInv, Quiet, SentFirst, Order
<1>2. ASSUME NEW e \in Ends, TakeInVain(e) \/ TakeCoroutine(e) \/ TakeSync(e)
      PROVE  Quiet' /\ Order'
  <2>1. Takes(e, "call") /\ UNCHANGED <<up, sent, session, late>>
    BY <1>2 DEF TakeInVain, TakeCoroutine, TakeSync, loopVars
  <2>2. PICK x : x = Taken(e)
    OBVIOUS
  <2>3. CASE TakeInVain(e)
    <3>1. PICK s \in {"dropped", "lost"} : run' = [run EXCEPT ![x] = s]
      BY <2>2, <2>3 DEF TakeInVain, Become
    <3>2. UNCHANGED <<ready, io, begun>>
      BY <2>3 DEF TakeInVain, loopVars
    <3> QED BY <1>0, <2>1, <2>2, <3>1, <3>2, TakeOrder DEF Quiet
  <2>4. CASE TakeCoroutine(e)
    <3>1. /\ run' = [run EXCEPT ![x] = "queued"] /\ HandlerOf[x] \in Coroutines
          /\ ready' = Append(ready, x) /\ begun' = begun
          /\ io' = IF Decorator(x) \in Waits THEN [io EXCEPT ![e] = x] ELSE io
      BY <2>2, <2>4 DEF TakeCoroutine, Become
    <3> QED BY <1>0, <2>1, <2>2, <3>1, TakeOrder DEF Quiet
  <2>5. CASE TakeSync(e)
    <3>1. /\ run' = [run EXCEPT ![x] = "direct"] /\ HandlerOf[x] \notin Coroutines
          /\ ready' = ready /\ begun' = Append(begun, x) /\ io' = [io EXCEPT ![e] = x]
      BY <2>2, <2>5 DEF TakeSync, Become, loopVars
    <3> QED BY <1>0, <2>1, <2>2, <3>1, TakeOrder DEF Quiet
  <2> QED BY <1>2, <2>3, <2>4, <2>5
<1>3. CASE StartTask
  <2>1. Quiet'
    BY <1>0, <1>3 DEF StartTask, LoopFrame, wire, Quiet
  <2> QED BY <1>0, <1>3, <2>1, StartOrder DEF OrderInv, SentInv, Quiet, SentFirst, Order
<1>4. Quiet' /\ Order' => OrderInv'
  BY DEF OrderInv, SentInv, Quiet, SentFirst, Order
<1> QED BY <1>0, <1>1, <1>2, <1>3, <1>4, PlainStep DEF Started

LEMMA RouteStep ==
  ASSUME Assumptions, SafeInv, RouteInv, OrderInv, [Next]_vars
  PROVE  RouteInv'
<1>0. /\ TypeOK /\ Safe /\ Quiet /\ SentFirst /\ Msgs \subseteq Frames
      /\ io \in [Ends -> Msgs \cup {Nobody}] /\ run \in [Frames -> {"new"} \cup Alive \cup Over]
  BY DEF SafeInv, Safe, OrderInv, SentInv, Quiet, SentFirst, TypeOK, Frames
<1>1. ASSUME Answers, NEW e \in Ends, NEW i \in 1..Len(inbox'[e]), inbox'[e][i][1] = "response"
      PROVE  e = Peer(To[inbox'[e][i][2]])
  <2>1. CASE e = Peer(To[inbox'[e][i][2]])
    BY <2>1
  <2>2. CASE \E k \in 1..Len(inbox[e]) : inbox'[e][i] = inbox[e][k]
    <3>1. PICK k \in 1..Len(inbox[e]) : inbox'[e][i] = inbox[e][k]
      BY <2>2
    <3> QED BY <1>1, <3>1 DEF RouteInv
  <2> QED BY <1>1, <2>1, <2>2 DEF Answers
<1>2. ASSUME Answers,
             \A e \in Ends : io'[e] # Nobody /\ run'[io'[e]] # "direct" =>
               \/ io'[e] = io[e] /\ run[io[e]] # "direct"
               \/ HandlerOf[io'[e]] \in Coroutines /\ Decorator(io'[e]) \in Waits
      PROVE  RouteInv'
  <2>1. ASSUME NEW e \in Ends, io'[e] # Nobody, run'[io'[e]] # "direct"
        PROVE  HandlerOf[io'[e]] \in Coroutines /\ Decorator(io'[e]) \in Waits
    BY <1>2, <2>1 DEF RouteInv
  <2> QED BY <1>1, <1>2, <2>1 DEF RouteInv, Decorator
<1>3. CASE Plain
  BY <1>2, <1>3 DEF Plain, Holds
<1>4. ASSUME NEW e \in Ends, TakeInVain(e) \/ TakeCoroutine(e) \/ TakeSync(e)
      PROVE  RouteInv'
  <2> DEFINE x == Taken(e)
  <2>1. Takes(e, "call") /\ x \in Msgs /\ To[x] = e /\ io[e] = Nobody
    <3>1. Takes(e, "call")
      BY <1>4 DEF TakeInVain, TakeCoroutine, TakeSync
    <3> QED BY <1>0, <3>1, TakenElements DEF Takes
  <2>2. Answers
    <3>1. \A d \in Ends : \A i \in 1..Len(inbox'[d]) :
              \E k \in 1..Len(inbox[d]) : inbox'[d][i] = inbox[d][k]
      BY <1>0, <2>1, TakenElements
    <3> QED BY <3>1 DEF Answers
  <2>3. \A d \in Ends : io[d] # Nobody => io[d] # x /\ io[d] \in Frames
    BY <1>0, <2>1 DEF Safe, ThreadInv
  <2>4. \A g \in Frames : g # x => run'[g] = run[g]
    BY <1>0, <1>4, <2>1 DEF TakeInVain, TakeCoroutine, TakeSync, Become
  <2>5. \/ UNCHANGED io
        \/ /\ io' = [io EXCEPT ![e] = x]
           /\ (HandlerOf[x] \in Coroutines /\ Decorator(x) \in Waits) \/ run'[x] = "direct"
    <3>1. TakeSync(e) => run'[x] = "direct"
      BY <1>0, <2>1 DEF TakeSync, Become
    <3> QED BY <1>4, <3>1 DEF TakeInVain, TakeCoroutine, TakeSync
  <2>6. \A d \in Ends : io'[d] = io[d] /\ io[d] # Nobody => run'[io[d]] = run[io[d]]
    BY <2>3, <2>4
  <2>7. \A d \in Ends : io'[d] # io[d] => io'[d] = x
    BY <1>0, <2>5
  <2> QED BY <1>2, <2>2, <2>5, <2>6, <2>7
<1>5. CASE StartTask
  <2>1. /\ UNCHANGED <<inbox, io>> /\ Head(ready) \in Msgs /\ HandlerOf[Head(ready)] \in Coroutines
        /\ run' = [run EXCEPT ![Head(ready)] = "running"]
    <3>1. ready \in Seq(Msgs) /\ ready # <<>>
      BY <1>0, <1>5 DEF TypeOK, StartTask
    <3>2. 1 \in 1..Len(ready) /\ Head(ready) = ready[1] /\ ready[1] \in Msgs
      BY <3>1
    <3> QED BY <1>0, <1>5, <3>2 DEF StartTask, Enter, Become, LoopFrame, wire, Safe, QueueInv
  <2>2. run[Head(ready)] # "direct"
    BY <1>0, <2>1 DEF Safe, ThreadInv
  <2>3. \A d \in Ends : io[d] # Nobody /\ run'[io[d]] # "direct" => run[io[d]] # "direct"
    BY <1>0, <2>1, <2>2
  <2>4. Answers
    BY <2>1 DEF Answers
  <2> QED BY <1>2, <2>1, <2>3, <2>4
<1> QED BY <1>0, <1>3, <1>4, <1>5, PlainStep DEF Started

\* The inductive invariant, for any programs.
THEOREM Invariance == Spec => []IInv
<1>0. Assumptions
  BY ConstantsAssumption, ProgramsAssumption DEF Assumptions
<1>1. Init => RouteInv /\ OrderInv
  <2> SUFFICES ASSUME Init PROVE RouteInv /\ OrderInv
    OBVIOUS
  <2>1. /\ To \in [Msgs -> Ends] /\ \A e \in Ends : inbox[e] = <<>> /\ sent[e] = <<>> /\ io[e] = Nobody
        /\ \A m \in Msgs : run[m] = "new"
        /\ begun = <<>> /\ ready = <<>> /\ session = "none"
    BY <1>0 DEF Init, Assumptions, ConstantsAssumption, Frames
  <2>2. \A x : ~In(<<>>, x)
    BY DEF In
  <2>3. \A m \in Msgs : ~OnWire(m) /\ ~Sent(m) /\ ~Begun(m)
    BY <2>1, <2>2 DEF OnWire, Sent, Begun, In
  <2>4. \A m, n \in Msgs : ~Ahead(m, n)
    BY <2>1 DEF Ahead, Before
  <2>5. RouteInv
    BY <2>1 DEF RouteInv
  <2>6. SentInv
    BY <2>1, <2>3 DEF SentInv
  <2>7. PlaceInv
    BY <2>1, <2>2, <2>3 DEF PlaceInv, Unstarted
  <2>8. LineInv /\ WaitInv /\ SessionInOrder
    BY <2>1, <2>4 DEF LineInv, WaitInv, SessionInOrder
  <2> QED BY <2>5, <2>6, <2>7, <2>8 DEF OrderInv
<1>2. SafeInv /\ (RouteInv /\ OrderInv) /\ [Next]_vars => (RouteInv /\ OrderInv)'
  BY <1>0, OrderStep, RouteStep
<1>3. IInv <=> SafeInv /\ PassInv /\ (RouteInv /\ OrderInv)
  BY DEF IInv
<1> QED BY <1>1, <1>2, <1>3, SafeInvariance, PassInvariance, PTL DEF Spec

\* Handlers begin in the order their messages were sent, whatever is lost,
\* refused, given up or raised on the way: only the loop's queue lets a
\* synchronous handler go first.
THEOREM InOrder == Spec => []SessionInOrder
<1>1. IInv => SessionInOrder
  BY DEF IInv, OrderInv
<1> QED BY <1>1, Invariance, PTL

\* The deadlock of an I/O thread with its own inbox needs a coroutine that the
\* thread waits for, and that makes a request through the thread's endpoint.
THEOREM NeverForItself == ASSUME AsksElsewhere PROVE Spec => []NoSelfWait
<1>0. Assumptions
  BY ConstantsAssumption, ProgramsAssumption DEF Assumptions
<1>1. IInv => NoSelfWait
  <2> SUFFICES ASSUME IInv, NEW e \in Ends, NEW r \in Msgs, NEW i \in 1..Len(inbox[e]),
                      inbox[e][i] = <<"response", r>>, io[e] # Nobody,
                      run[io[e]] \in {"awaiting", "blocked"},
                      NEW v \in Requests, Reached(io[e], v), Arg(io[e]) = r
               PROVE  FALSE
    BY DEF NoSelfWait
  <2> DEFINE m == io[e]
  <2>1. /\ m \in Msgs /\ m \in Frames /\ To[m] = e /\ TypeOK /\ Positive /\ Server # Client
        /\ To[r] \in Ends
    <3>1. TypeOK /\ Positive /\ ThreadInv
      BY DEF IInv, SafeInv, Positive
    <3>2. m \in Msgs /\ To[m] = e
      BY <3>1 DEF TypeOK, ThreadInv
    <3> QED BY <1>0, <3>1, <3>2 DEF Frames, Assumptions, ConstantsAssumption
  <2>2. e = Peer(To[r]) /\ HandlerOf[m] \in Coroutines /\ Decorator(m) \in Waits
    BY DEF IInv, RouteInv
  <2>3. at[m] \in 1..Len(Code(m)) /\ Verb(m, at[m]) \in Requests /\ Code(m)[at[m]].x = r
    <3>1. at[m] \in Nat /\ at[m] >= 1 /\ at[m] <= Len(Code(m))
      BY <2>1 DEF TypeOK, Positive, Reached
    <3>2. Len(Code(m)) \in Nat
      BY <1>0, <2>1 DEF Code, Assumptions, ConstantsAssumption, ProgramsAssumption
    <3> QED BY <3>1, <3>2 DEF Reached, Arg, Verb
  <2>4. To[r] = To[m]
    BY <2>1, <2>2, <2>3 DEF AsksElsewhere
  <2>5. \A d \in Ends : Peer(d) # d
    BY <2>1 DEF Peer, Ends
  <2> QED BY <2>1, <2>2, <2>4, <2>5
<1> QED BY <1>1, Invariance, PTL
====
