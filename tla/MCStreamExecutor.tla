-------------------------- MODULE MCStreamExecutor --------------------------
(***************************************************************************)
(* Instances of StreamExecutor for TLC.                                    *)
(***************************************************************************)
EXTENDS StreamExecutor, TLC

CONSTANTS p, q, write1, end1, end2, write2, l1, l2

\* p writes and ends asynchronously, then calls end() once more (a finally
\* clause); q, on another loop, writes on the same pool.
Programs == p :> <<write1, end1, end2>> @@ q :> <<write2>>
LoopEach == p :> l1 @@ q :> l2
=============================================================================
