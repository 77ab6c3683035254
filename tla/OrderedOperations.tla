------------------------- MODULE OrderedOperations -------------------------
(***************************************************************************)
(* What asynchronous stream operations promise, with no pool, no worker,   *)
(* no lock and no shutdown in sight:                                       *)
(*   - accepted operations stand in one line, whatever task, loop or pool  *)
(*     they come from, and take effect one at a time, in its order;        *)
(*   - who leaves before its operation begins has withdrawn it, later it   *)
(*     goes on alone; nothing else is ever taken out of the line;          *)
(*   - an operation takes effect once, and whoever waits for it is told    *)
(*     once, and told what happened.                                       *)
(* An operation that is not accepted runs beside the line, or not at all.  *)
(* StreamExecutor implements it.                                           *)
(***************************************************************************)
EXTENDS Sequences

CONSTANTS Operations,  \* the stream operations
          Nothing      \* no operation

VARIABLES line,        \* the accepted operations that have not begun
          serving,     \* the one that takes effect now, or Nothing
          fate,        \* of each operation
          told,        \* what its caller was told
          effects      \* the operations that took effect, in order

vars == <<line, serving, fate, told, effects>>

Init == /\ line = <<>> /\ serving = Nothing /\ effects = <<>>
        /\ fate = [o \in Operations |-> "new"]
        /\ told = [o \in Operations |-> "none"]

Accept(o) == /\ fate[o] = "new" /\ told[o] = "none"
             /\ line' = Append(line, o)
             /\ fate' = [fate EXCEPT ![o] = "waiting"]
             /\ UNCHANGED <<serving, told, effects>>

Leave(o) == /\ fate[o] = "new" /\ told[o] = "none"
            /\ fate' = [fate EXCEPT ![o] = "beside"]
            /\ UNCHANGED <<line, serving, told, effects>>

\* The head of the line begins, or is passed over if it was withdrawn.
Serve == /\ line # <<>> /\ serving = Nothing
         /\ line' = Tail(line)
         /\ \/ /\ fate[Head(line)] = "waiting"
               /\ serving' = Head(line)
               /\ fate' = [fate EXCEPT ![Head(line)] = "begun"]
            \/ fate[Head(line)] = "withdrawn" /\ UNCHANGED <<serving, fate>>
         /\ UNCHANGED <<told, effects>>

\* o succeeds or fails.
Ends(o) == \/ fate' = [fate EXCEPT ![o] = "ok"] /\ effects' = Append(effects, o)
           \/ fate' = [fate EXCEPT ![o] = "error"] /\ UNCHANGED effects

Complete == /\ serving # Nothing /\ fate[serving] = "begun"
            /\ Ends(serving) /\ serving' = Nothing
            /\ UNCHANGED <<line, told>>

CompleteBeside(o) == /\ fate[o] = "beside" /\ Ends(o)
                     /\ UNCHANGED <<line, serving, told>>

\* The operation of a caller that does not wait ends before it goes on.
AtOnce(o) == /\ fate[o] = "new" /\ told[o] = "none"
             /\ Ends(o) /\ told' = [told EXCEPT ![o] = fate'[o]]
             /\ UNCHANGED <<line, serving>>

Tell(o) == /\ told[o] = "none"
           /\ \/ fate[o] \in {"ok", "error"} /\ told' = [told EXCEPT ![o] = fate[o]]
              \/ fate[o] = "new" /\ told' = [told EXCEPT ![o] = "refused"]
           /\ UNCHANGED <<line, serving, fate, effects>>

\* The caller leaves.
Cancel(o) == /\ told[o] = "none" /\ fate[o] # "new"
             /\ told' = [told EXCEPT ![o] = "cancelled"]
             /\ \/ /\ fate[o] \in {"waiting", "beside"}
                   /\ fate' = [fate EXCEPT ![o] = "withdrawn"]
                \/ fate[o] # "waiting" /\ UNCHANGED fate
             /\ UNCHANGED <<line, serving, effects>>

Next == \/ Serve \/ Complete
        \/ \E o \in Operations : \/ Accept(o) \/ Leave(o) \/ CompleteBeside(o)
                                 \/ AtOnce(o) \/ Tell(o) \/ Cancel(o)

Spec == Init /\ [][Next]_vars
=============================================================================
