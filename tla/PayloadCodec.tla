---------------------------- MODULE PayloadCodec ----------------------------
(***************************************************************************)
(* A message from PayloadBuilder.add_param to the arguments of a handler.  *)
(* The bindings try the overloads of add_param in the order they are       *)
(* declared; the readers tell a parameter's type by its size alone; the    *)
(* unpacking wrappers of ObscuraProto/__init__.py read one parameter for   *)
(* each annotated argument of the handler.                                 *)
(*                                                                         *)
(* A Python value is a type and a number: the value of an int or a bool,   *)
(* the length of a str, a bytes or a list of bytes, and for a float        *)
(* whether 32 bits lose part of it.                                        *)
(***************************************************************************)
EXTENDS Integers, Sequences, FiniteSets

CONSTANTS
  Byte,        \* the number of values of a byte: 256 in the code
  Values,      \* what a sender adds
  Hints,       \* annotations of a handler's arguments
  MaxParams,   \* bound: parameters of a message
  MaxArgs      \* bound: arguments of a handler

Types == {"int", "bool", "float", "str", "bytes", "list"}
PyValues == [type : {"int"}, n : Int] \cup [type : {"bool", "float"}, n : {0, 1}]
            \cup [type : {"str", "bytes", "list"}, n : Nat]
TypeHints == {"int", "uint", "bool", "float", "str", "bytes"}
OtherHints == {"hdl", "payload", "reader", "unsupported", "none"}

ASSUME ConstantsAssumption ==
  /\ Byte \in Nat \ {0} /\ Byte % 2 = 0 /\ MaxParams \in Nat /\ MaxArgs \in Nat
  /\ Values \subseteq PyValues
  /\ Hints \subseteq TypeHints \cup OtherHints

VARIABLES
  given,     \* the values the sender passed to add_param
  params,    \* the parameters of the message
  handler,   \* the handler it is delivered to
  arg,       \* the argument the wrapper has come to
  pos,       \* the parameter its reader has come to
  kwargs,    \* handler_kwargs: the arguments prepared so far
  outcome

vars == <<given, params, handler, arg, pos, kwargs, outcome>>

-----------------------------------------------------------------------------
(* The bindings. *)

\* How many integers have a width; where it has a sign, half of them are
\* negative.
Widths == {1, 2, 4, 8}
Span(size) == CASE size = 1 -> Byte
                [] size = 2 -> Byte * Byte
                [] size = 4 -> (Byte * Byte) * (Byte * Byte)
                [] OTHER -> ((Byte * Byte) * (Byte * Byte)) * ((Byte * Byte) * (Byte * Byte))
Half(size) == Span(size) \div 2

Overload(kind, size) == [kind |-> kind, size |-> size]
Overloads ==
  <<Overload("bytes", 0), Overload("str", 0), Overload("cstr", 0), Overload("bool", 1),
    Overload("signed", 1), Overload("unsigned", 1),
    Overload("signed", 2), Overload("unsigned", 2),
    Overload("signed", 4), Overload("unsigned", 4),
    Overload("signed", 8), Overload("unsigned", 8),
    Overload("float", 4), Overload("float", 8)>>

Interval(o) == CASE o.kind = "signed" -> -Half(o.size) .. Half(o.size) - 1
                 [] o.kind = "unsigned" -> 0 .. Span(o.size) - 1
                 [] OTHER -> {}

\* pybind11's casters (external): a first pass takes exact types only, a second
\* one converts: an integer past 64 bits ends as a bool.
Accepts(o, v, convert) ==
  \/ o.kind = "bytes" /\ v.type = "list"
  \/ o.kind = "str" /\ v.type \in {"str", "bytes"}
  \/ o.kind = "bool" /\ v.type \in {"bool"} \cup (IF convert THEN {"int", "float"} ELSE {})
  \/ v.type \in {"int", "bool"} /\ v.n \in Interval(o)
  \/ o.kind = "float" /\ v.type \in {"float"} \cup (IF convert THEN {"int"} ELSE {})

Chosen(v) ==
  LET exact == {i \in DOMAIN Overloads : Accepts(Overloads[i], v, FALSE)}
      pass == IF exact # {} THEN exact
              ELSE {i \in DOMAIN Overloads : Accepts(Overloads[i], v, TRUE)}
  IN Overloads[CHOOSE i \in pass : \A j \in pass : i <= j]

Number(o) == o.kind \in {"signed", "unsigned"}
Parameter(v, o, bits) ==
  [size |-> IF o.size = 0 THEN v.n ELSE o.size, bits |-> bits, text |-> v.type = "str"]

\* mutant: the value is not cut to the width.
EncodeUncut(v) ==
  LET o == Chosen(v)
  IN Parameter(v, o, IF Number(o) THEN v.n ELSE IF v.n # 0 THEN 1 ELSE 0)

\* What add_param appends: its size, the bits of an integer or a bool, and
\* whether it is known to be UTF-8.  (Other bits do not matter here.)
Encode(v) ==
  LET o == Chosen(v)
  IN Parameter(v, o, IF Number(o) THEN v.n % Span(o.size)
                     ELSE IF o.kind = "bool" /\ v.n # 0 THEN 1 ELSE 0)

\* mutant: read_float takes doubles only.
SizesOfDoubles(h) == CASE h \in {"int", "uint"} -> Widths
                       [] h = "float" -> {8}
                       [] h = "bool" -> {1}
                       [] OTHER -> Nat

\* The sizes a reader takes.
Sizes(h) == CASE h \in {"int", "uint"} -> Widths
              [] h = "float" -> {4, 8}
              [] h = "bool" -> {1}
              [] OTHER -> Nat

Signed(bits, size) == IF bits >= Half(size) THEN bits - Span(size) ELSE bits

\* mutant: read_uint is read_int.
DecodeSigned(h, p) ==
  CASE h \in {"int", "uint"} -> [type |-> "int", n |-> Signed(p.bits, p.size)]
    [] h = "bytes" -> [type |-> "list", n |-> p.size]
    [] h = "str" -> [type |-> "str", n |-> p.size]
    [] h = "bool" -> [type |-> "bool", n |-> IF p.bits = 0 THEN 0 ELSE 1]
    [] OTHER -> [type |-> "float", n |-> 0]

\* read_int, read_uint, read_float, read_bool, read_string and read_bytes on a
\* parameter of a size they take.  read_bytes returns a list of ints.
Decode(h, p) ==
  CASE h = "int" -> [type |-> "int", n |-> Signed(p.bits, p.size)]
    [] h = "uint" -> [type |-> "int", n |-> p.bits]
    [] h = "bytes" -> [type |-> "list", n |-> p.size]
    [] h = "str" -> [type |-> "str", n |-> p.size]
    [] h = "bool" -> [type |-> "bool", n |-> IF p.bits = 0 THEN 0 ELSE 1]
    [] OTHER -> [type |-> "float", n |-> 0]

-----------------------------------------------------------------------------
(* The sender, and the unpacking wrapper of the receiver. *)

HintLists == UNION {[1..k -> Hints] : k \in 0..MaxArgs}
Handlers == [mode : {"payload", "request"}, side : {"server", "client"}, hints : HintLists]
NoHandler == [mode |-> "none", side |-> "none", hints |-> <<>>]
Native == {[type |-> "hdl", n |-> 0], [type |-> "payload", n |-> 0], [type |-> "reader", n |-> 0]}

TypeOK ==
  /\ given \in Seq(Values)
  /\ params \in Seq([size : Nat, bits : Nat, text : BOOLEAN])
  /\ Len(params) = Len(given)
  /\ \A i \in DOMAIN params : params[i].size \in Widths => params[i].bits < Span(params[i].size)
  /\ handler \in Handlers \cup {NoHandler}
  /\ arg \in Nat \ {0} /\ pos \in Nat \ {0}
  /\ \A i \in DOMAIN kwargs : kwargs[i] \in [type : Types, n : Int] \cup Native
  /\ DOMAIN kwargs \subseteq 1..MaxArgs
  /\ outcome \in {"building", "unpacking", "refused", "called", "raised",
                  "error_payload", "answered", "scheduled", "bad_result"}

Init == /\ given = <<>> /\ params = <<>> /\ handler = NoHandler
        /\ arg = 1 /\ pos = 1 /\ kwargs = <<>> /\ outcome = "building"

AddParam(v) ==
  /\ outcome = "building" /\ Len(given) < MaxParams
  /\ given' = Append(given, v)
  /\ params' = Append(params, Encode(v))
  /\ UNCHANGED <<handler, arg, pos, kwargs, outcome>>

Annotations(h) == {h.hints[i] : i \in DOMAIN h.hints}

\* The TypeErrors of _create_unpacking_handler when a handler is registered.
Refused(h) ==
  /\ h.mode = "payload"
  /\ \/ "hdl" \in Annotations(h) /\ h.side = "client"
     \/ "payload" \in Annotations(h) /\ Annotations(h) \ {"payload", "hdl", "none"} # {}

Deliver(h) ==
  /\ outcome = "building"
  /\ handler' = h
  /\ outcome' = IF Refused(h) THEN "refused" ELSE "unpacking"
  /\ UNCHANGED <<given, params, arg, pos, kwargs>>

Hint == handler.hints[arg]
MayUnpack == outcome = "unpacking" /\ arg <= Len(handler.hints)

Prepare(x) == /\ kwargs' = [i \in DOMAIN kwargs \cup {arg} |-> IF i = arg THEN x ELSE kwargs[i]]
              /\ arg' = arg + 1

\* Of two arguments annotated as the handle, or as the payload, the scan of an
\* on_payload handler's signature keeps the later one.
Superseded == \E i \in (arg + 1)..Len(handler.hints) : handler.hints[i] = Hint

\* What a wrapper takes from its own arguments: the handle and the payload for
\* an on_payload handler; for an on_request handler the handle, if it comes
\* first, and the reader.
IsGiven == \/ handler.mode = "payload" /\ Hint \in {"hdl", "payload"} /\ ~Superseded
           \/ handler.mode = "request" /\ Hint = "hdl" /\ arg = 1 /\ handler.side = "server"
           \/ handler.mode = "request" /\ Hint = "reader"

PassOn ==
  /\ MayUnpack /\ IsGiven
  /\ Prepare([type |-> Hint, n |-> 0])
  /\ UNCHANGED <<given, params, handler, pos, outcome>>

\* An argument of an on_payload handler without an annotation is left out.
IsLeftOut == /\ handler.mode = "payload"
             /\ Hint = "none" \/ (Hint \in {"hdl", "payload"} /\ Superseded)
LeaveOut ==
  /\ MayUnpack /\ IsLeftOut
  /\ arg' = arg + 1
  /\ UNCHANGED <<given, params, handler, pos, kwargs, outcome>>

Readable == /\ Hint \in TypeHints /\ pos <= Len(params)
            /\ params[pos].size \in Sizes(Hint)

\* mutant: the reader does not move.
UnpackInPlace ==
  /\ MayUnpack /\ Readable
  /\ Prepare(Decode(Hint, params[pos]))
  /\ UNCHANGED <<given, params, handler, pos, outcome>>

Unpack ==
  /\ MayUnpack /\ Readable
  /\ Prepare(Decode(Hint, params[pos]))
  /\ pos' = pos + 1
  /\ UNCHANGED <<given, params, handler, outcome>>

\* The except clauses: on_payload raises TypeError, on_request answers with an
\* error payload of op code 0.  What is not text may or may not be UTF-8.
UnpackFails ==
  /\ MayUnpack /\ ~IsGiven /\ ~IsLeftOut
  /\ Readable => Hint = "str" /\ ~params[pos].text
  /\ outcome' = IF handler.mode = "payload" THEN "raised" ELSE "error_payload"
  /\ UNCHANGED <<given, params, handler, arg, pos, kwargs>>

\* The handler is called with keyword arguments: Python refuses the call when
\* one is missing.
CallHandler ==
  /\ outcome = "unpacking" /\ arg > Len(handler.hints)
  /\ outcome' = IF DOMAIN kwargs = DOMAIN handler.hints THEN "called" ELSE "raised"
  /\ UNCHANGED <<given, params, handler, arg, pos, kwargs>>

\* A request handler returns: a coroutine is left to the dispatcher, and what is
\* not a Payload is refused.
CheckResult ==
  /\ outcome = "called" /\ handler.mode = "request"
  /\ outcome' \in {"answered", "scheduled", "bad_result"}
  /\ UNCHANGED <<given, params, handler, arg, pos, kwargs>>

Next == \/ \E v \in Values : AddParam(v)
        \/ \E h \in Handlers : Deliver(h)
        \/ PassOn \/ LeaveOut \/ Unpack \/ UnpackFails \/ CallHandler \/ CheckResult

Spec == Init /\ [][Next]_vars

-----------------------------------------------------------------------------
(* Properties. *)

\* The parameter that is unpacked for argument i of the handler.
Unpacked(i) == handler.hints[i] \in TypeHints
ParameterOf(i) == 1 + Cardinality({j \in 1..(i - 1) : Unpacked(j)})

\* An integer that the int reader gives back: it is negative, or its width
\* leaves the sign bit clear.
SignSafe(v) == v.n < Half(Encode(v).size)
WithinRange(v) == -Half(8) <= v.n /\ v.n < Span(8)

Matches(v, h) == CASE h = "uint" -> v.type = "int" /\ v.n >= 0
                   [] h = "bytes" -> v.type \in {"bytes", "list"}
                   [] OTHER -> v.type = h
Received(v, h) == IF h = "bytes" THEN [v EXCEPT !.type = "list"] ELSE v

\* Three values are changed on the way: an integer past 64 bits, a positive one
\* whose width leaves no room for a sign and is read as int, and a float that
\* needs more than 32 bits.
Kept(v, h) == /\ v.type = "int" => WithinRange(v)
              /\ h = "int" => SignSafe(v)
              /\ v.type = "float" => v.n = 0

\* add_param, read_* and the wrappers together: a handler that is called gets
\* one value for each argument it has unpacked, and for the k-th the k-th value
\* that was added, if that has the annotated type, unchanged (bytes as a list)
\* but for the exceptions above.
ArgumentsArrive ==
  outcome \in {"called", "answered", "scheduled", "bad_result"} =>
    \A i \in DOMAIN handler.hints : Unpacked(i) =>
      /\ ParameterOf(i) <= Len(given)
      /\ LET v == given[ParameterOf(i)]
             h == handler.hints[i]
         IN Matches(v, h) /\ Kept(v, h) => kwargs[i] = Received(v, h)

\* The values of the message have the types of the handler's annotations.
Matching == /\ Annotations(handler) \subseteq TypeHints
            /\ Len(handler.hints) <= Len(given)
            /\ \A k \in DOMAIN handler.hints :
                 /\ Matches(given[k], handler.hints[k])
                 /\ given[k].type = "int" => WithinRange(given[k])

\* Such a message is never refused for its content: whatever width add_param
\* chose, the reader of that type takes it.
MatchingIsAccepted == Matching => outcome \notin {"raised", "error_payload"}

-----------------------------------------------------------------------------
(* The inductive invariant (PayloadCodec_proofs). *)

\* The message holds what the sender added.
MessageInv == \A i \in DOMAIN params : params[i] = Encode(given[i])

\* The wrapper has prepared the arguments before the one it has come to, each
\* unpacked one from its own parameter, and its reader is past these.
WrapperInv ==
  /\ outcome = "building" <=> handler = NoHandler
  /\ outcome = "building" => arg = 1 /\ kwargs = <<>>
  /\ arg <= Len(handler.hints) + 1 /\ pos = ParameterOf(arg)
  /\ outcome \notin {"building", "unpacking", "refused", "raised", "error_payload"} =>
       arg = Len(handler.hints) + 1
  /\ DOMAIN kwargs \subseteq 1..(arg - 1)
  /\ \A i \in 1..(arg - 1) : Unpacked(i) =>
       /\ i \in DOMAIN kwargs /\ ParameterOf(i) <= Len(params)
       /\ params[ParameterOf(i)].size \in Sizes(handler.hints[i])
       /\ kwargs[i] = Decode(handler.hints[i], params[ParameterOf(i)])

IInv == TypeOK /\ MessageInv /\ WrapperInv /\ MatchingIsAccepted
=============================================================================
