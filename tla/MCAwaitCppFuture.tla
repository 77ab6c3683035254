-------------------------- MODULE MCAwaitCppFuture --------------------------
(***************************************************************************)
(* Instances of AwaitCppFuture for TLC.                                    *)
(***************************************************************************)
EXTENDS AwaitCppFuture, TLC

CONSTANTS a1, a2, f1, f2

\* Both calls await f1: the misuse the registry guards against.
OneFuture == [a \in Awaits |-> f1]
\* A future each: what async_request does.
TwoFutures == a1 :> f1 @@ a2 :> f2

AllRequests == [a \in Awaits |-> "request"]
\* a2 goes through async_request_to_identity.
OneIdentity == [a \in Awaits |-> IF a = a2 THEN "identity" ELSE "request"]

\* a1 has no guard, a2 has a guard of one tick.
OneGuarded == [a \in Awaits |-> IF a = a1 THEN 0 ELSE 1]
BothGuarded == [a \in Awaits |-> 3]
=============================================================================
