------------------------ MODULE MCCallbackDispatcher ------------------------
(***************************************************************************)
(* Instances of CallbackDispatcher for TLC.                                *)
(***************************************************************************)
EXTENDS CallbackDispatcher, TLC

CONSTANTS c1, c2, c3, t1, t2, endpoint, stream

\* Two calls on one I/O thread, a third on another.
TwoThreads == [c \in Calls |-> IF c = c3 THEN t2 ELSE t1]
\* A request handler, then a stream's data handler, and an identity handler.
Kinds == [c \in Calls |-> IF c = c1 THEN "result" ELSE IF c = c2 THEN "forget" ELSE "identity"]
\* The same, with two request handlers.
TwoRequests == [c \in Calls |-> IF c = c2 THEN "result" ELSE Kinds[c]]
=============================================================================
