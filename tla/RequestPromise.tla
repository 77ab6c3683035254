--------------------------- MODULE RequestPromise ---------------------------
(***************************************************************************)
(* What an asynchronous request promises its callers, with no clock, no    *)
(* worker pool and no event loop in sight:                                 *)
(*   - a future is settled at most once;                                   *)
(*   - its outcome is taken by one waiter only, after it is settled;       *)
(*   - a waiter returns once, with the outcome it took, or because its own *)
(*     guard ran out, or because it was cancelled, or - when another       *)
(*     waiter took the outcome - with a misuse error.                      *)
(* AwaitCppFuture implements it.                                           *)
(***************************************************************************)
CONSTANTS Waiters,      \* the await calls
          Promises,     \* the single-use futures
          PromiseOf,    \* the future each call awaits
          Guarded,      \* the calls that have a guard of their own
          NoOne         \* the holder of a future nobody has taken

Outcomes == {"answer", "timeout"}
Misuses  == {"logic", "nostate"}

VARIABLES outcome,      \* of each future; "unset" until it is settled
          holder,       \* the waiter that took it
          state         \* of each waiter: "idle", "waiting" or what it returned

vars == <<outcome, holder, state>>

Init == /\ outcome = [p \in Promises |-> "unset"]
        /\ holder  = [p \in Promises |-> NoOne]
        /\ state   = [w \in Waiters |-> "idle"]

Ask(w) == /\ state[w] = "idle"
          /\ state' = [state EXCEPT ![w] = "waiting"]
          /\ UNCHANGED <<outcome, holder>>

Refuse(w) == /\ state[w] = "idle"
             /\ state' = [state EXCEPT ![w] = "refused"]
             /\ UNCHANGED <<outcome, holder>>

Settle(p) == /\ outcome[p] = "unset"
             /\ \E o \in Outcomes : outcome' = [outcome EXCEPT ![p] = o]
             /\ UNCHANGED <<holder, state>>

Take(w) == /\ state[w] # "idle"
           /\ outcome[PromiseOf[w]] # "unset"
           /\ holder[PromiseOf[w]] = NoOne
           /\ holder' = [holder EXCEPT ![PromiseOf[w]] = w]
           /\ UNCHANGED <<outcome, state>>

MayReturn(w, r) ==
  \/ holder[PromiseOf[w]] = w /\ r = outcome[PromiseOf[w]]
  \/ w \in Guarded /\ r = "timeout"
  \/ r = "cancelled"
  \/ holder[PromiseOf[w]] \notin {NoOne, w} /\ r \in Misuses

Return(w) == /\ state[w] = "waiting"
             /\ \E r \in Outcomes \cup Misuses \cup {"cancelled"} :
                   MayReturn(w, r) /\ state' = [state EXCEPT ![w] = r]
             /\ UNCHANGED <<outcome, holder>>

Next == \/ \E w \in Waiters : Ask(w) \/ Refuse(w) \/ Take(w) \/ Return(w)
        \/ \E p \in Promises : Settle(p)

Spec == Init /\ [][Next]_vars
=============================================================================
