----------------------- MODULE StreamExecutor_proofs -----------------------
(***************************************************************************)
(* Theorems about StreamExecutor, for any tasks and programs on any event  *)
(* loops, and any number of restarts of the pool.                          *)
(***************************************************************************)
EXTENDS StreamExecutor, TLAPS

Assumptions == ConstantsAssumption /\ ProgramsAssumption

\* The operation a task has come to.
LEMMA AtOperation ==
  ASSUME Assumptions, TypeOK, NEW t \in Tasks, at[t] <= Len(Program[t])
  PROVE  Op(t) \in Ops /\ Len(Program[t]) \in Nat /\ at[t] \in 1..Len(Program[t])
<1>1. Program[t] \in Seq(Ops) /\ at[t] \in Nat \ {0}
  BY DEF Assumptions, ConstantsAssumption, TypeOK
<1> QED BY <1>1 DEF Op

\* A task that is inside an asynchronous operation has come to one.
LEMMA InOperation ==
  ASSUME Assumptions, TypeOK, TaskInv, NEW t \in Tasks, step[t] # "ready"
  PROVE  Op(t) \in Ops /\ Len(Program[t]) \in Nat /\ at[t] \in 1..Len(Program[t])
BY AtOperation DEF TaskInv

\* The pool that _get_executor returns is the last one, and one of Pools.
LEMMA LastOfPools ==
  ASSUME Assumptions, TypeOK, PoolInv
  PROVE  LastPool \in Pools /\ pools \in 0..(MaxPools + 2)
BY DEF Assumptions, ConstantsAssumption, TypeOK, PoolInv, LastPool, Pools

LEMMA OpenPool ==
  ASSUME Assumptions, TypeOK, PoolInv, pool # "none"
  PROVE  LastPool = pools /\ pools \in Pools
BY LastOfPools DEF PoolInv, LastPool

LEMMA TypeStep ==
  ASSUME Assumptions, IInv, [Next]_vars
  PROVE  TypeOK'
<1> USE DEF poolVars, taskVars, workVars, history
<1>0. TypeOK /\ PoolInv /\ TaskInv
  BY DEF IInv
<1>1. ASSUME NEW t \in Tasks, SyncOperation(t) PROVE TypeOK'
  <2>1. Op(t) \in Ops
    BY <1>0, <1>1, AtOperation DEF SyncOperation, MayStep
  <2> QED BY <1>0, <1>1, <2>1 DEF SyncOperation, Perform, ReturnToTask, TypeOK
<1>2. ASSUME NEW t \in Tasks, AsyncOperation(t) PROVE TypeOK'
  BY <1>0, <1>2 DEF AsyncOperation, TypeOK
<1>3. ASSUME NEW t \in Tasks, GetExecutor(t) PROVE TypeOK'
  <2>1. pools' \in Nat /\ pool' \in {"none", "open", "closing"}
    BY <1>0, <1>3 DEF GetExecutor, TypeOK
  <2> QED BY <1>0, <1>3, <2>1 DEF GetExecutor, TypeOK
<1>4. ASSUME NEW t \in Tasks, Submit(t) PROVE TypeOK'
  <2>1. Op(t) \in Ops
    BY <1>0, <1>4, InOperation DEF Submit
  <2>2. queue' \in [Pools -> Seq(Ops)]
    <3>1. pools \in Pools /\ queue[pools] \in Seq(Ops)
      BY <1>0, <1>4, OpenPool DEF Submit, Accepts, TypeOK
    <3>2. Append(queue[pools], Op(t)) \in Seq(Ops)
      BY <2>1, <3>1
    <3> QED BY <1>0, <1>4, <3>1, <3>2 DEF Submit, TypeOK
  <2>3. submitted' \in Seq(Ops)
    BY <1>0, <1>4, <2>1 DEF Submit, TypeOK
  <2> QED BY <1>0, <1>4, <2>1, <2>2, <2>3 DEF Submit, TypeOK
<1>5. ASSUME NEW t \in Tasks, FallBack(t) PROVE TypeOK'
  <2>1. Op(t) \in Ops
    BY <1>0, <1>5, InOperation DEF FallBack
  <2>2. CASE phase = "running"
    <3>1. /\ state' = [state EXCEPT ![Op(t)] = "aside"]
          /\ step' = [step EXCEPT ![t] = "waiting"]
          /\ UNCHANGED <<at, ret, poolVars, held, queue, current, history>>
      BY <1>5, <2>2 DEF FallBack
    <3> QED BY <1>0, <2>1, <3>1 DEF TypeOK
  <2>3. CASE phase # "running"
    <3>1. /\ ret' = [ret EXCEPT ![Op(t)] = "refused"]
          /\ at' = [at EXCEPT ![t] = at[t] + 1]
          /\ step' = [step EXCEPT ![t] = "ready"]
          /\ UNCHANGED <<state, poolVars, held, queue, current, history>>
      BY <1>5, <2>3 DEF FallBack, ReturnToTask
    <3> QED BY <1>0, <2>1, <3>1 DEF TypeOK
  <2> QED BY <2>2, <2>3
<1>6. ASSUME NEW t \in Tasks, Resume(t) PROVE TypeOK'
  <2>1. Op(t) \in Ops
    BY <1>0, <1>6, AtOperation DEF Resume, MayStep
  <2> QED BY <1>0, <1>6, <2>1 DEF Resume, ReturnToTask, TypeOK
<1>7. ASSUME NEW t \in Tasks, CancelAwait(t) PROVE TypeOK'
  <2>1. Op(t) \in Ops
    BY <1>0, <1>7, AtOperation DEF CancelAwait, MayStep
  <2> QED BY <1>0, <1>7, <2>1 DEF CancelAwait, ReturnToTask, TypeOK
<1>8. ASSUME NEW n \in Pools, TakeItem(n) PROVE TypeOK'
  <2>1. queue[n] \in Seq(Ops) /\ queue[n] # <<>>
    BY <1>0, <1>8 DEF TakeItem, TypeOK
  <2>2. Head(queue[n]) \in Ops /\ Tail(queue[n]) \in Seq(Ops)
    BY <2>1
  <2>3. queue' \in [Pools -> Seq(Ops)]
    BY <1>0, <1>8, <2>2 DEF TakeItem, TypeOK
  <2> QED BY <1>0, <1>8, <2>2, <2>3 DEF TakeItem, TypeOK
<1>9. ASSUME NEW n \in Pools, FinishItem(n) PROVE TypeOK'
  <2>1. current[n] \in Ops
    BY <1>0, <1>9 DEF FinishItem, TypeOK
  <2> QED BY <1>0, <1>9, <2>1 DEF FinishItem, Perform, TypeOK
<1>10. ASSUME NEW o \in Ops, StartAside(o) \/ FinishAside(o) PROVE TypeOK'
  <2>1. CASE StartAside(o)
    BY <1>0, <2>1 DEF StartAside, TypeOK
  <2>2. CASE FinishAside(o)
    <3>1. performed' \in Seq(Ops)
      BY <1>0, <2>2 DEF FinishAside, Perform, TypeOK
    <3>2. state' \in [Ops -> {"new", "queued", "aside", "running", "running_aside",
                             "dropped", "ok", "error"}]
      BY <1>0, <2>2 DEF FinishAside, Perform, TypeOK
    <3> QED BY <1>0, <2>2, <3>1, <3>2 DEF FinishAside, TypeOK
  <2> QED BY <1>10, <2>1, <2>2
<1>11. CASE ShutdownBegins \/ ShutdownDrains \/ ShutdownEnds \/ Exit
  BY <1>0, <1>11 DEF ShutdownBegins, ShutdownDrains, ShutdownEnds, Exit, TypeOK
<1>12. CASE UNCHANGED vars
  BY <1>0, <1>12 DEF vars, TypeOK
<1> QED BY <1>1, <1>2, <1>3, <1>4, <1>5, <1>6, <1>7, <1>8, <1>9, <1>10, <1>11, <1>12
        DEF Next, TaskStep, Work

LEMMA PoolStep ==
  ASSUME Assumptions, IInv, [Next]_vars
  PROVE  PoolInv'
<1>0. TypeOK /\ PoolInv /\ MaxPools \in Nat /\ pools \in Nat
  BY DEF IInv, Assumptions, ConstantsAssumption, TypeOK
<1>1. ASSUME NEW t \in Tasks, GetExecutor(t) PROVE PoolInv'
  <2>1. phase' = phase /\ locked' = locked /\ ~locked /\ phase # "over"
    BY <1>1 DEF GetExecutor
  <2>2. CASE pool = "open"
    BY <1>0, <1>1, <2>1, <2>2 DEF GetExecutor, PoolInv
  <2>3. CASE pool # "open"
    <3>1. pool' = "open" /\ pools' = pools + 1
      BY <1>1, <2>3 DEF GetExecutor
    <3> QED BY <1>0, <2>1, <2>3, <3>1 DEF PoolInv
  <2> QED BY <2>2, <2>3
<1>2. CASE UNCHANGED poolVars
  BY <1>0, <1>2 DEF PoolInv, poolVars
<1>3. CASE ShutdownBegins
  BY <1>0, <1>3 DEF ShutdownBegins, PoolInv
<1>4. CASE ShutdownDrains \/ ShutdownEnds
  BY <1>0, <1>4 DEF ShutdownDrains, ShutdownEnds, PoolInv
<1>5. CASE Exit
  BY <1>0, <1>5 DEF Exit, PoolInv
<1> QED BY <1>1, <1>2, <1>3, <1>4, <1>5
        DEF Next, TaskStep, Work, SyncOperation, AsyncOperation, Submit, FallBack, Resume,
            CancelAwait, TakeItem, FinishItem, StartAside, FinishAside, vars

-----------------------------------------------------------------------------
(* The line of operations. *)

LEMMA Elements ==
  ASSUME TypeOK, NEW n \in Pools
  PROVE  /\ queue[n] \in Seq(Ops) /\ Len(queue[n]) \in Nat
         /\ \A i \in 1..Len(queue[n]) : queue[n][i] \in Ops
         /\ current[n] \in Ops \cup {None}
BY DEF TypeOK

\* Nothing moves in the line when no state in it changes, save for what is
\* withdrawn.
LEMMA LineMoves ==
  ASSUME TypeOK, LineInv, UNCHANGED <<pools, queue, current>>,
         pool' = "none" => pool = "none",
         \A o \in Ops : \/ state'[o] = state[o]
                        \/ state[o] \notin {"queued", "dropped", "running"}
                        \/ state[o] = "queued" /\ state'[o] = "dropped"
  PROVE  LineInv'
<1> SUFFICES ASSUME NEW n \in Pools
             PROVE  /\ n # LastPool \/ pool' = "none" => Drained(n)
                    /\ current[n] # None => state'[current[n]] = "running"
                    /\ \A i \in 1..Len(queue[n]) :
                         /\ state'[queue[n][i]] \in {"queued", "dropped"}
                         /\ \A j \in 1..Len(queue[n]) : queue[n][j] = queue[n][i] => j = i
  BY DEF LineInv, LastPool, Drained
<1> QED BY Elements DEF LineInv

\* Where there is work: in the last pool, before it is shut down.
LEMMA Working ==
  ASSUME LineInv, NEW n \in Pools, ~Drained(n)
  PROVE  /\ n = LastPool /\ pool # "none"
         /\ \A m \in Pools : m # n => queue[m] = <<>> /\ current[m] = None
BY DEF LineInv, Drained

LEMMA LineStep ==
  ASSUME Assumptions, IInv, [Next]_vars
  PROVE  LineInv'
<1>0. TypeOK /\ PoolInv /\ LineInv /\ TaskInv
  BY DEF IInv
<1>1. ASSUME NEW t \in Tasks,
             SyncOperation(t) \/ FallBack(t) \/ CancelAwait(t)
      PROVE  LineInv'
  <2>1. Op(t) \in Ops /\ at[t] \in 1..Len(Program[t])
    BY <1>0, <1>1, AtOperation, InOperation DEF SyncOperation, FallBack, CancelAwait, MayStep
  <2>2. state[Op(t)] = "new" \/ CancelAwait(t)
    BY <1>0, <1>1, <2>1 DEF SyncOperation, FallBack, MayStep, TaskInv, Op
  <2>3. \A o \in Ops : \/ state'[o] = state[o]
                       \/ state[o] = "new"
                       \/ state[o] \in {"queued", "aside"} /\ state'[o] = "dropped"
    BY <1>0, <1>1, <2>1, <2>2 DEF SyncOperation, FallBack, CancelAwait, Perform, TypeOK
  <2> QED BY <1>0, <1>1, <2>3, LineMoves
          DEF SyncOperation, FallBack, CancelAwait, poolVars
<1>2. ASSUME NEW t \in Tasks, AsyncOperation(t) \/ Resume(t) PROVE LineInv'
  BY <1>0, <1>2, LineMoves DEF AsyncOperation, Resume, poolVars, workVars
<1>3. ASSUME NEW t \in Tasks, GetExecutor(t) PROVE LineInv'
  <2>1. CASE pool = "open"
    BY <1>0, <1>3, <2>1, LineMoves DEF GetExecutor, workVars
  <2>2. CASE pool # "open"
    <3>1. pool = "none" /\ UNCHANGED workVars
      BY <1>0, <1>3, <2>2 DEF GetExecutor, PoolInv, TypeOK
    <3>2. \A n \in Pools : queue'[n] = <<>> /\ current'[n] = None
      BY <1>0, <3>1 DEF LineInv, Drained, workVars
    <3> QED BY <3>2 DEF LineInv, Drained
  <2> QED BY <2>1, <2>2
<1>4. ASSUME NEW t \in Tasks, Submit(t) PROVE LineInv'
  <2> DEFINE o == Op(t)
  <2>1. o \in Ops /\ at[t] \in 1..Len(Program[t])
    BY <1>0, <1>4, InOperation DEF Submit
  <2>2. state[o] = "new"
    BY <1>0, <1>4, <2>1 DEF Submit, TaskInv, Op
  <2>3. pools \in Pools /\ LastPool = pools /\ pool' # "none" /\ LastPool' = LastPool
    BY <1>0, <1>4, OpenPool DEF Submit, Accepts, poolVars, LastPool
  <2>4. /\ queue' = [queue EXCEPT ![pools] = Append(queue[pools], o)]
        /\ state' = [state EXCEPT ![o] = "queued"] /\ current' = current
    BY <1>4 DEF Submit
  <2>5. \A n \in Pools : current[n] # None => state'[current[n]] = "running"
    BY <1>0, <2>2, <2>4, Elements DEF LineInv, TypeOK
  <2>6. \A n \in Pools : n # pools => queue'[n] = <<>> /\ current'[n] = None
    BY <1>0, <2>3, <2>4 DEF LineInv, Drained, TypeOK
  <2>7. /\ queue[pools] \in Seq(Ops) /\ Len(queue[pools]) \in Nat
        /\ queue'[pools] = Append(queue[pools], o)
    BY <1>0, <2>3, <2>4, Elements DEF TypeOK
  <2>8. /\ Len(queue'[pools]) = Len(queue[pools]) + 1
        /\ queue'[pools][Len(queue[pools]) + 1] = o
        /\ \A i \in 1..Len(queue[pools]) : queue'[pools][i] = queue[pools][i]
    BY <2>1, <2>7
  <2>9. \A i \in 1..Len(queue[pools]) :
          /\ queue[pools][i] \in Ops /\ queue[pools][i] # o
          /\ state'[queue[pools][i]] \in {"queued", "dropped"}
    <3> SUFFICES ASSUME NEW i \in 1..Len(queue[pools]), NEW x, x = queue[pools][i]
                 PROVE  x \in Ops /\ x # o /\ state'[x] \in {"queued", "dropped"}
      OBVIOUS
    <3>1. x \in Ops /\ state[x] \in {"queued", "dropped"}
      BY <1>0, <2>3, Elements DEF LineInv
    <3> QED BY <1>0, <2>1, <2>2, <2>4, <3>1 DEF TypeOK
  <2>10. state'[o] = "queued"
    BY <1>0, <2>1, <2>4 DEF TypeOK
  <2>11. \A i \in 1..Len(queue'[pools]) :
           i \in 1..Len(queue[pools]) \/ i = Len(queue[pools]) + 1
    BY <2>7, <2>8
  <2>12. \A i \in 1..Len(queue'[pools]) :
           /\ state'[queue'[pools][i]] \in {"queued", "dropped"}
           /\ \A j \in 1..Len(queue'[pools]) : queue'[pools][j] = queue'[pools][i] => j = i
    <3>1. \A i, j \in 1..Len(queue[pools]) : queue[pools][j] = queue[pools][i] => j = i
      BY <1>0, <2>3 DEF LineInv
    <3> HIDE DEF o
    <3>2. SUFFICES ASSUME NEW i \in 1..Len(queue'[pools]), NEW j \in 1..Len(queue'[pools])
                   PROVE  /\ state'[queue'[pools][i]] \in {"queued", "dropped"}
                          /\ queue'[pools][j] = queue'[pools][i] => j = i
      OBVIOUS
    <3>3. CASE i \in 1..Len(queue[pools]) /\ j \in 1..Len(queue[pools])
      BY <2>8, <2>9, <3>1, <3>3
    <3>4. CASE i = Len(queue[pools]) + 1
      BY <2>8, <2>9, <2>10, <2>11, <3>4
    <3>5. CASE i \in 1..Len(queue[pools]) /\ j = Len(queue[pools]) + 1
      BY <2>8, <2>9, <3>5
    <3> QED BY <2>11, <3>3, <3>4, <3>5
  <2> QED BY <2>3, <2>4, <2>5, <2>6, <2>12 DEF LineInv, Drained
<1>5. ASSUME NEW n \in Pools, TakeItem(n) PROVE LineInv'
  <2> DEFINE q == queue[n]
  <2>1. /\ q \in Seq(Ops) /\ q # <<>> /\ Len(q) \in Nat /\ current[n] = None
        /\ \A i \in 1..Len(q) : q[i] \in Ops
    BY <1>0, <1>5, Elements DEF TakeItem
  <2>2. /\ Head(q) = q[1] /\ 1 \in 1..Len(q)
        /\ Len(Tail(q)) = Len(q) - 1
        /\ \A i \in 1..(Len(q) - 1) : Tail(q)[i] = q[i + 1]
    BY <2>1
  <2>3. /\ n = LastPool /\ pool # "none"
        /\ \A m \in Pools : m # n => queue[m] = <<>> /\ current[m] = None
    BY <1>0, <1>5, Working DEF TakeItem, Drained
  <2>4. /\ queue'[n] = Tail(q) /\ UNCHANGED <<pool, pools>>
        /\ \A m \in Pools : m # n => queue'[m] = queue[m] /\ current'[m] = current[m]
    BY <1>0, <1>5 DEF TakeItem, poolVars, TypeOK
  <2>5. /\ \A i \in 1..Len(q) : i # 1 => state'[q[i]] = state[q[i]]
        /\ current'[n] # None => state'[current'[n]] = "running"
    <3>1. CASE state[Head(q)] = "dropped"
      BY <1>5, <2>1, <3>1 DEF TakeItem
    <3>2. CASE state[Head(q)] # "dropped"
      <4>1. /\ current' = [current EXCEPT ![n] = Head(q)]
            /\ state' = [state EXCEPT ![Head(q)] = "running"]
        BY <1>5, <3>2 DEF TakeItem
      <4>2. \A i \in 1..Len(q) : q[i] = q[1] => i = 1
        BY <1>0, <2>2 DEF LineInv
      <4> QED BY <1>0, <2>1, <2>2, <4>1, <4>2 DEF TypeOK
    <3> QED BY <3>1, <3>2
  <2>6. \A i \in 1..Len(queue'[n]) : queue'[n][i] = q[i + 1] /\ i + 1 \in 1..Len(q) /\ i + 1 # 1
    BY <2>1, <2>2, <2>4
  <2>7. \A i \in 1..Len(queue'[n]) :
          /\ state'[queue'[n][i]] \in {"queued", "dropped"}
          /\ \A j \in 1..Len(queue'[n]) : queue'[n][j] = queue'[n][i] => j = i
    <3>1. \A i \in 1..Len(q) : /\ state[q[i]] \in {"queued", "dropped"}
                               /\ \A j \in 1..Len(q) : q[j] = q[i] => j = i
      BY <1>0 DEF LineInv
    <3>2. \A i, j \in 1..Len(queue'[n]) : i + 1 = j + 1 => i = j
      OBVIOUS
    <3> HIDE DEF q
    <3> QED BY <2>5, <2>6, <3>1, <3>2
  <2>8. \A m \in Pools : m # n => 1..Len(queue'[m]) = {} /\ queue'[m] = <<>> /\ current'[m] = None
    BY <2>3, <2>4
  <2>9. LastPool' = n /\ pool' # "none"
    BY <2>3, <2>4 DEF LastPool
  <2> HIDE DEF q
  <2> QED BY <2>5, <2>7, <2>8, <2>9 DEF LineInv, Drained
<1>6. ASSUME NEW n \in Pools, FinishItem(n) PROVE LineInv'
  <2>1. current[n] \in Ops /\ state[current[n]] = "running"
    BY <1>0, <1>6, Elements DEF FinishItem, LineInv
  <2>2. /\ n = LastPool /\ pool # "none"
        /\ \A m \in Pools : m # n => queue[m] = <<>> /\ current[m] = None
    BY <1>0, <1>6, Working DEF FinishItem, Drained
  <2>3. /\ UNCHANGED <<pool, pools, queue>>
        /\ \A m \in Pools : current'[m] = None
        /\ \A o \in Ops : o # current[n] => state'[o] = state[o]
    BY <1>0, <1>6, <2>1, <2>2 DEF FinishItem, Perform, poolVars, TypeOK
  <2>4. \A i \in 1..Len(queue[n]) : /\ queue[n][i] \in Ops
                                    /\ state'[queue[n][i]] = state[queue[n][i]]
    BY <1>0, <2>1, <2>3, Elements DEF LineInv
  <2>5. \A m \in Pools : m # n => 1..Len(queue[m]) = {}
    BY <2>2
  <2> QED BY <1>0, <2>2, <2>3, <2>4, <2>5 DEF LineInv, Drained, LastPool
<1>7. ASSUME NEW o \in Ops, StartAside(o) \/ FinishAside(o) PROVE LineInv'
  <2>1. \A p \in Ops : state'[p] = state[p] \/ state[p] \in {"aside", "running_aside"}
    BY <1>0, <1>7 DEF StartAside, FinishAside, Perform, TypeOK
  <2> QED BY <1>0, <1>7, <2>1, LineMoves DEF StartAside, FinishAside, poolVars
<1>8. CASE ShutdownBegins \/ ShutdownEnds \/ Exit \/ UNCHANGED vars
  BY <1>0, <1>8, LineMoves DEF ShutdownBegins, ShutdownEnds, Exit, vars, poolVars, workVars
<1>9. CASE ShutdownDrains
  <2>1. pool = "closing" /\ Drained(pools) /\ UNCHANGED <<pools, workVars>>
    BY <1>0, <1>9 DEF ShutdownDrains, PoolInv
  <2>2. LastPool = pools
    BY <1>0, <2>1, OpenPool
  <2>3. \A n \in Pools : queue'[n] = <<>> /\ current'[n] = None
    BY <1>0, <2>1, <2>2 DEF LineInv, Drained, workVars
  <2> QED BY <2>3 DEF LineInv, Drained
<1> QED BY <1>1, <1>2, <1>3, <1>4, <1>5, <1>6, <1>7, <1>8, <1>9 DEF Next, TaskStep, Work

-----------------------------------------------------------------------------
(* Nothing is forgotten. *)

\* Only states that are not about the line change, and not to them.
LEMMA KeptMoves ==
  ASSUME KeptInv, UNCHANGED <<queue, current, phase>>,
         \A o \in Ops : state'[o] \in {"queued", "running"} => state'[o] = state[o],
         \A o \in Ops : state'[o] \in {"aside", "running_aside"} =>
                          state[o] \in {"aside", "running_aside"} \/ phase = "running"
  PROVE  KeptInv'
<1>1. \A n \in Pools : Drained(n)' <=> Drained(n)
  BY DEF Drained
<1>2. \A o \in Ops :
        /\ state'[o] = "queued" => \E n \in Pools : \E i \in 1..Len(queue'[n]) : queue'[n][i] = o
        /\ state'[o] = "running" => \E n \in Pools : current'[n] = o
  BY DEF KeptInv
<1>3. phase' \in {"joined", "atexit", "over"} =>
        /\ \A n \in Pools : Drained(n)'
        /\ \A o \in Ops : state'[o] \notin {"aside", "running_aside"}
  BY <1>1 DEF KeptInv
<1> QED BY <1>2, <1>3 DEF KeptInv

LEMMA KeptStep ==
  ASSUME Assumptions, IInv, [Next]_vars
  PROVE  KeptInv'
<1>0. TypeOK /\ PoolInv /\ LineInv /\ KeptInv /\ TaskInv
  BY DEF IInv
<1>1. ASSUME NEW t \in Tasks,
             SyncOperation(t) \/ FallBack(t) \/ CancelAwait(t)
      PROVE  KeptInv'
  <2>1. Op(t) \in Ops
    BY <1>0, <1>1, AtOperation, InOperation DEF SyncOperation, FallBack, CancelAwait, MayStep
  <2>2. \A o \in Ops : \/ state'[o] = state[o]
                       \/ state'[o] \in {"ok", "error", "dropped"}
                       \/ state'[o] = "aside" /\ phase = "running"
    BY <1>0, <1>1, <2>1 DEF SyncOperation, FallBack, CancelAwait, Perform, TypeOK
  <2> QED BY <1>0, <1>1, <2>2, KeptMoves DEF SyncOperation, FallBack, CancelAwait, poolVars
<1>2. ASSUME NEW t \in Tasks, AsyncOperation(t) \/ GetExecutor(t) \/ Resume(t) PROVE KeptInv'
  BY <1>0, <1>2, KeptMoves DEF AsyncOperation, GetExecutor, Resume, poolVars, workVars
<1>3. ASSUME NEW t \in Tasks, Submit(t) PROVE KeptInv'
  <2> DEFINE p == Op(t)
  <2>1. p \in Ops /\ pools \in Pools /\ phase' = "running"
    BY <1>0, <1>3, InOperation, OpenPool DEF Submit, Accepts, poolVars
  <2>2. /\ state' = [state EXCEPT ![p] = "queued"] /\ current' = current
        /\ queue' = [queue EXCEPT ![pools] = Append(queue[pools], p)]
    BY <1>3 DEF Submit
  <2>3. queue[pools] \in Seq(Ops) /\ Len(queue[pools]) \in Nat
    BY <1>0, <2>1, Elements
  <2>4. /\ \A i \in 1..Len(queue[pools]) :
             i \in 1..Len(queue'[pools]) /\ queue'[pools][i] = queue[pools][i]
        /\ Len(queue[pools]) + 1 \in 1..Len(queue'[pools])
        /\ queue'[pools][Len(queue[pools]) + 1] = p
    <3>1. queue'[pools] = Append(queue[pools], p)
      BY <1>0, <2>1, <2>2 DEF TypeOK
    <3> HIDE DEF p
    <3> QED BY <2>1, <2>3, <3>1
  <2>5. \A o \in Ops : state'[o] = "queued"
          => \E n \in Pools : \E i \in 1..Len(queue'[n]) : queue'[n][i] = o
    <3> SUFFICES ASSUME NEW o \in Ops, state'[o] = "queued", o # p
                 PROVE  \E n \in Pools : \E i \in 1..Len(queue'[n]) : queue'[n][i] = o
      BY <2>1, <2>4
    <3>1. state[o] = "queued"
      BY <1>0, <2>1, <2>2 DEF TypeOK
    <3>2. PICK n \in Pools : \E i \in 1..Len(queue[n]) : queue[n][i] = o
      BY <1>0, <3>1 DEF KeptInv
    <3>3. CASE n = pools
      BY <2>1, <2>4, <3>2, <3>3
    <3>4. CASE n # pools
      <4>1. queue'[n] = queue[n]
        BY <1>0, <2>2, <3>4 DEF TypeOK
      <4> QED BY <3>2, <4>1
    <3> QED BY <3>3, <3>4
  <2>6. \A o \in Ops : state'[o] = "running" => \E n \in Pools : current'[n] = o
    BY <1>0, <2>1, <2>2 DEF KeptInv, TypeOK
  <2> QED BY <2>1, <2>5, <2>6 DEF KeptInv
<1>4. ASSUME NEW n \in Pools, TakeItem(n) PROVE KeptInv'
  <2> DEFINE q == queue[n]
  <2>1. /\ q \in Seq(Ops) /\ q # <<>> /\ Len(q) \in Nat /\ current[n] = None
        /\ Head(q) = q[1] /\ 1 \in 1..Len(q) /\ q[1] \in Ops
    BY <1>0, <1>4, Elements DEF TakeItem
  <2>2. /\ phase' = phase /\ queue'[n] = Tail(q)
        /\ \A m \in Pools : m # n => queue'[m] = queue[m] /\ current'[m] = current[m]
    BY <1>0, <1>4 DEF TakeItem, poolVars, TypeOK
  <2>3. phase \notin {"joined", "atexit", "over"}
    BY <1>0, <2>1 DEF KeptInv, Drained
  <2>4. /\ state'[q[1]] # "queued"
        /\ state'[q[1]] = "running" => current'[n] = q[1]
        /\ \A o \in Ops : o # q[1] => state'[o] = state[o]
    <3>1. CASE state[Head(q)] = "dropped"
      BY <1>4, <2>1, <3>1 DEF TakeItem
    <3>2. CASE state[Head(q)] # "dropped"
      <4>1. /\ current' = [current EXCEPT ![n] = q[1]]
            /\ state' = [state EXCEPT ![q[1]] = "running"]
        BY <1>4, <2>1, <3>2 DEF TakeItem
      <4> QED BY <1>0, <2>1, <4>1 DEF TypeOK
    <3> QED BY <3>1, <3>2
  <2>5. \A i \in 1..Len(q) : i # 1 => i - 1 \in 1..Len(queue'[n]) /\ queue'[n][i - 1] = q[i]
    BY <2>1, <2>2
  <2>6. ASSUME NEW o \in Ops, state'[o] = "queued"
        PROVE  \E m \in Pools : \E i \in 1..Len(queue'[m]) : queue'[m][i] = o
    <3>1. o # q[1] /\ state[o] = "queued"
      BY <2>4, <2>6
    <3>2. PICK m \in Pools : \E i \in 1..Len(queue[m]) : queue[m][i] = o
      BY <1>0, <3>1 DEF KeptInv
    <3>3. CASE m = n
      BY <2>5, <3>1, <3>2, <3>3
    <3>4. CASE m # n
      BY <2>2, <3>2, <3>4
    <3> QED BY <3>3, <3>4
  <2>7. ASSUME NEW o \in Ops, state'[o] = "running" PROVE \E m \in Pools : current'[m] = o
    <3>1. CASE o = q[1]
      BY <2>4, <2>7, <3>1
    <3>2. CASE o # q[1]
      <4>1. PICK m \in Pools : current[m] = o
        BY <1>0, <2>4, <2>7, <3>2 DEF KeptInv
      <4>2. m # n
        BY <2>1, <4>1 DEF Assumptions, ConstantsAssumption
      <4> QED BY <2>2, <4>1, <4>2
    <3> QED BY <3>1, <3>2
  <2> QED BY <2>2, <2>3, <2>6, <2>7 DEF KeptInv
<1>5. ASSUME NEW n \in Pools, FinishItem(n) PROVE KeptInv'
  <2>1. current[n] \in Ops /\ phase' = phase /\ queue' = queue
    BY <1>0, <1>5, Elements DEF FinishItem, poolVars
  <2>2. phase \notin {"joined", "atexit", "over"}
    BY <1>0, <1>5 DEF FinishItem, KeptInv, Drained
  <2>3. /\ \A o \in Ops : o # current[n] => state'[o] = state[o]
        /\ state'[current[n]] \in {"ok", "error"}
        /\ \A m \in Pools : m # n => current'[m] = current[m]
    BY <1>0, <1>5, <2>1 DEF FinishItem, Perform, TypeOK
  <2>4. \A o \in Ops : state'[o] = "queued"
          => \E m \in Pools : \E i \in 1..Len(queue'[m]) : queue'[m][i] = o
    BY <1>0, <2>1, <2>3 DEF KeptInv
  <2>5. ASSUME NEW o \in Ops, state'[o] = "running" PROVE \E m \in Pools : current'[m] = o
    <3>1. o # current[n] /\ state[o] = "running"
      BY <2>1, <2>3, <2>5
    <3>2. PICK m \in Pools : current[m] = o
      BY <1>0, <3>1 DEF KeptInv
    <3> QED BY <2>3, <3>1, <3>2
  <2> QED BY <2>1, <2>2, <2>4, <2>5 DEF KeptInv
<1>6. ASSUME NEW o \in Ops, StartAside(o) \/ FinishAside(o) PROVE KeptInv'
  <2>1. \A p \in Ops : \/ state'[p] = state[p]
                       \/ /\ state[p] \in {"aside", "running_aside"}
                          /\ state'[p] \in {"running_aside", "ok", "error"}
    BY <1>0, <1>6 DEF StartAside, FinishAside, Perform, TypeOK
  <2> QED BY <1>0, <1>6, <2>1, KeptMoves DEF StartAside, FinishAside, poolVars
<1>7. CASE ShutdownDrains \/ ShutdownEnds \/ UNCHANGED vars
  BY <1>0, <1>7, KeptMoves DEF ShutdownDrains, ShutdownEnds, vars, poolVars, workVars
<1>8. CASE ShutdownBegins \/ Exit
  <2>1. UNCHANGED workVars /\ (\A n \in Pools : Drained(n)' <=> Drained(n))
    BY <1>8 DEF ShutdownBegins, Exit, workVars, Drained
  <2>2. phase' \in {"joined", "atexit", "over"} =>
          /\ \A n \in Pools : Drained(n)
          /\ \A o \in Ops : state[o] \notin {"aside", "running_aside"}
    BY <1>0, <1>8 DEF ShutdownBegins, Exit, KeptInv
  <2>3. \A o \in Ops :
          /\ state'[o] = "queued" => \E n \in Pools : \E i \in 1..Len(queue'[n]) : queue'[n][i] = o
          /\ state'[o] = "running" => \E n \in Pools : current'[n] = o
    BY <1>0, <2>1 DEF KeptInv, workVars
  <2> QED BY <2>1, <2>2, <2>3 DEF KeptInv, workVars
<1> QED BY <1>1, <1>2, <1>3, <1>4, <1>5, <1>6, <1>7, <1>8 DEF Next, TaskStep, Work

-----------------------------------------------------------------------------
(* What a task is told. *)

\* An operation has one place in the programs.
LEMMA OnePlace ==
  ASSUME Assumptions, NEW t \in Tasks, at[t] \in 1..Len(Program[t]),
         NEW u \in Tasks, NEW j \in 1..Len(Program[u]), Program[u][j] = Op(t)
  PROVE  u = t /\ j = at[t]
BY DEF Assumptions, ProgramsAssumption, Op

\* The places of a program are operations, and numbers.
LEMMA Places ==
  ASSUME Assumptions, TypeOK, NEW t \in Tasks
  PROVE  /\ Len(Program[t]) \in Nat /\ at[t] \in Nat
         /\ \A j \in 1..Len(Program[t]) : Program[t][j] \in Ops
<1>1. Program[t] \in Seq(Ops) /\ at[t] \in Nat
  BY DEF Assumptions, ConstantsAssumption, TypeOK
<1> QED BY <1>1

\* A step of the workers does not begin an operation for a task, nor undo one.
LEMMA TaskMoves ==
  ASSUME Assumptions, TypeOK, TaskInv, UNCHANGED <<at, step, ret>>,
         \A o \in Ops : \/ state'[o] = state[o]
                        \/ state[o] # "new" /\ state'[o] \notin {"new", "dropped"}
  PROVE  TaskInv'
<1> SUFFICES ASSUME NEW t \in Tasks, NEW j \in 1..Len(Program[t])
             PROVE  /\ step[t] # "ready" => at[t] <= Len(Program[t])
                    /\ ret[Program[t][j]] # "none" <=> j < at[t]
                    /\ j > at[t] \/ (j = at[t] /\ step[t] # "waiting")
                         => state'[Program[t][j]] = "new"
                    /\ j = at[t] /\ step[t] = "waiting"
                         => state'[Program[t][j]] \notin {"new", "dropped"}
  BY DEF TaskInv
<1> QED BY Places DEF TaskInv

\* t is told of its operation and goes on.
LEMMA TaskReturns ==
  ASSUME Assumptions, TypeOK, TaskInv, NEW t \in Tasks, at[t] \in 1..Len(Program[t]),
         NEW r, r # "none", ReturnToTask(t, r),
         \A o \in Ops : o # Op(t) => state'[o] = state[o]
  PROVE  TaskInv'
<1>1. Op(t) \in Ops
  BY Places DEF Op
<1>2. ASSUME NEW u \in Tasks, NEW j \in 1..Len(Program[u])
      PROVE  /\ ret'[Program[u][j]] # "none" <=> j < at'[u]
             /\ j > at'[u] \/ (j = at'[u] /\ step'[u] # "waiting")
                  => state'[Program[u][j]] = "new"
             /\ j = at'[u] /\ step'[u] = "waiting"
                  => state'[Program[u][j]] \notin {"new", "dropped"}
  <2>1. Program[u][j] \in Ops /\ j \in Nat /\ at[u] \in Nat
    BY Places
  <2>2. CASE u = t
    <3>1. at'[u] = at[u] + 1 /\ step'[u] = "ready"
      BY <2>2 DEF ReturnToTask, TypeOK
    <3>2. CASE j = at[t]
      <4>1. ret'[Program[u][j]] = r
        BY <1>1, <2>2, <3>2 DEF ReturnToTask, TypeOK, Op
      <4> QED BY <2>1, <2>2, <3>1, <3>2, <4>1
    <3>3. CASE j # at[t]
      <4>1. Program[u][j] # Op(t)
        BY <2>2, <3>3, OnePlace
      <4>2. ret'[Program[u][j]] = ret[Program[u][j]] /\ state'[Program[u][j]] = state[Program[u][j]]
        BY <2>1, <4>1 DEF ReturnToTask, TypeOK
      <4>3. /\ ret[Program[u][j]] # "none" <=> j < at[u]
            /\ j > at[u] => state[Program[u][j]] = "new"
        BY DEF TaskInv
      <4> QED BY <2>1, <2>2, <3>1, <3>3, <4>2, <4>3
    <3> QED BY <3>2, <3>3
  <2>3. CASE u # t
    <3>1. Program[u][j] # Op(t)
      BY <2>3, OnePlace
    <3>2. /\ ret'[Program[u][j]] = ret[Program[u][j]] /\ state'[Program[u][j]] = state[Program[u][j]]
          /\ at'[u] = at[u] /\ step'[u] = step[u]
      BY <2>1, <2>3, <3>1 DEF ReturnToTask, TypeOK
    <3> QED BY <3>2 DEF TaskInv
  <2> QED BY <2>2, <2>3
<1>3. \A u \in Tasks : step'[u] # "ready" => at'[u] <= Len(Program[u])
  BY DEF TaskInv, ReturnToTask, TypeOK
<1> QED BY <1>2, <1>3 DEF TaskInv

\* t goes on inside its operation, which begins if it waits for it.
LEMMA TaskEnters ==
  ASSUME Assumptions, TypeOK, TaskInv, NEW t \in Tasks, at[t] \in 1..Len(Program[t]),
         NEW s, step' = [step EXCEPT ![t] = s], step[t] # "waiting", UNCHANGED <<at, ret>>,
         \A o \in Ops : o # Op(t) => state'[o] = state[o],
         IF s = "waiting" THEN state'[Op(t)] \notin {"new", "dropped"}
         ELSE state'[Op(t)] = state[Op(t)]
  PROVE  TaskInv'
<1>1. ASSUME NEW u \in Tasks, NEW j \in 1..Len(Program[u])
      PROVE  /\ ret'[Program[u][j]] # "none" <=> j < at'[u]
             /\ j > at'[u] \/ (j = at'[u] /\ step'[u] # "waiting")
                  => state'[Program[u][j]] = "new"
             /\ j = at'[u] /\ step'[u] = "waiting"
                  => state'[Program[u][j]] \notin {"new", "dropped"}
  <2>1. Program[u][j] \in Ops /\ j \in Nat /\ at[u] \in Nat
    BY Places
  <2>2. CASE u = t /\ j = at[t]
    <3>1. Program[u][j] = Op(t) /\ step'[u] = s
      BY <2>2 DEF Op, TypeOK
    <3>2. state[Op(t)] = "new" /\ ret[Op(t)] = "none"
      BY <2>2, <2>1 DEF TaskInv, Op
    <3> QED BY <2>1, <2>2, <3>1, <3>2
  <2>3. CASE ~(u = t /\ j = at[t])
    <3>1. Program[u][j] # Op(t)
      BY <2>3, OnePlace
    <3>2. state'[Program[u][j]] = state[Program[u][j]]
      BY <2>1, <3>1
    <3>3. step'[u] = step[u] \/ j # at[u]
      BY <2>3 DEF TypeOK
    <3> QED BY <2>1, <3>2, <3>3 DEF TaskInv
  <2> QED BY <2>2, <2>3
<1>2. \A u \in Tasks : step'[u] # "ready" => at'[u] <= Len(Program[u])
  BY Places DEF TaskInv, TypeOK
<1> QED BY <1>1, <1>2 DEF TaskInv

LEMMA TaskStepInv ==
  ASSUME Assumptions, IInv, [Next]_vars
  PROVE  TaskInv'
<1>0. TypeOK /\ LineInv /\ TaskInv
  BY DEF IInv
<1>1. ASSUME NEW t \in Tasks, SyncOperation(t) PROVE TaskInv'
  <2>1. Op(t) \in Ops /\ at[t] \in 1..Len(Program[t])
    BY <1>0, <1>1, AtOperation DEF SyncOperation, MayStep
  <2>2. PICK v \in {"ok", "error"} : Perform(Op(t), v) /\ ReturnToTask(t, v)
    BY <1>1 DEF SyncOperation
  <2> QED BY <1>0, <2>1, <2>2, TaskReturns DEF Perform, TypeOK
<1>2. ASSUME NEW t \in Tasks, AsyncOperation(t) PROVE TaskInv'
  <2>1. Op(t) \in Ops /\ at[t] \in 1..Len(Program[t])
    BY <1>0, <1>2, AtOperation DEF AsyncOperation, MayStep
  <2> QED BY <1>0, <1>2, <2>1, TaskEnters DEF AsyncOperation, MayStep, workVars
<1>3. ASSUME NEW t \in Tasks, GetExecutor(t) PROVE TaskInv'
  <2>1. Op(t) \in Ops /\ at[t] \in 1..Len(Program[t])
    BY <1>0, <1>3, InOperation DEF GetExecutor
  <2> QED BY <1>0, <1>3, <2>1, TaskEnters DEF GetExecutor, workVars
<1>4. ASSUME NEW t \in Tasks, Submit(t) PROVE TaskInv'
  <2>1. Op(t) \in Ops /\ at[t] \in 1..Len(Program[t])
    BY <1>0, <1>4, InOperation DEF Submit
  <2>2. /\ state'[Op(t)] \notin {"new", "dropped"}
        /\ \A o \in Ops : o # Op(t) => state'[o] = state[o]
    BY <1>0, <1>4, <2>1 DEF Submit, TypeOK
  <2> QED BY <1>0, <1>4, <2>1, <2>2, TaskEnters DEF Submit
<1>5. ASSUME NEW t \in Tasks, FallBack(t) PROVE TaskInv'
  <2>1. Op(t) \in Ops /\ at[t] \in 1..Len(Program[t])
    BY <1>0, <1>5, InOperation DEF FallBack
  <2>2. CASE phase = "running"
    <3>1. /\ state' = [state EXCEPT ![Op(t)] = "aside"] /\ step[t] # "waiting"
          /\ step' = [step EXCEPT ![t] = "waiting"] /\ UNCHANGED <<at, ret>>
      BY <1>5, <2>2 DEF FallBack
    <3>2. /\ state'[Op(t)] \notin {"new", "dropped"}
          /\ \A o \in Ops : o # Op(t) => state'[o] = state[o]
      BY <1>0, <2>1, <3>1 DEF TypeOK
    <3> QED BY <1>0, <2>1, <3>1, <3>2, TaskEnters
  <2>3. CASE phase # "running"
    <3>1. ReturnToTask(t, "refused") /\ state' = state
      BY <1>5, <2>3 DEF FallBack
    <3> QED BY <1>0, <2>1, <3>1, TaskReturns
  <2> QED BY <2>2, <2>3
<1>6. ASSUME NEW t \in Tasks, Resume(t) PROVE TaskInv'
  <2>1. Op(t) \in Ops /\ at[t] \in 1..Len(Program[t])
    BY <1>0, <1>6, AtOperation DEF Resume, MayStep
  <2>2. ReturnToTask(t, state[Op(t)]) /\ state[Op(t)] # "none" /\ state' = state
    BY <1>6 DEF Resume, workVars
  <2> QED BY <1>0, <2>1, <2>2, TaskReturns
<1>7. ASSUME NEW t \in Tasks, CancelAwait(t) PROVE TaskInv'
  <2>1. Op(t) \in Ops /\ at[t] \in 1..Len(Program[t])
    BY <1>0, <1>7, AtOperation DEF CancelAwait, MayStep
  <2>2. ReturnToTask(t, "cancelled") /\ \A o \in Ops : o # Op(t) => state'[o] = state[o]
    BY <1>0, <1>7, <2>1 DEF CancelAwait, TypeOK
  <2> QED BY <1>0, <2>1, <2>2, TaskReturns
<1>8. ASSUME NEW n \in Pools, TakeItem(n) PROVE TaskInv'
  <2>1. /\ Head(queue[n]) \in Ops
        /\ state[Head(queue[n])] \in {"queued", "dropped"}
    <3>1. queue[n] \in Seq(Ops) /\ queue[n] # <<>>
      BY <1>0, <1>8, Elements DEF TakeItem
    <3>2. Head(queue[n]) = queue[n][1] /\ 1 \in 1..Len(queue[n])
      BY <3>1
    <3> QED BY <1>0, <3>1, <3>2, Elements DEF LineInv
  <2>2. \A o \in Ops : state'[o] = state[o] \/ (state[o] = "queued" /\ state'[o] = "running")
    BY <1>0, <1>8, <2>1 DEF TakeItem, TypeOK
  <2> QED BY <1>0, <1>8, <2>2, TaskMoves DEF TakeItem, taskVars
<1>9. ASSUME NEW n \in Pools, FinishItem(n) PROVE TaskInv'
  <2>1. current[n] \in Ops /\ state[current[n]] = "running"
    BY <1>0, <1>9, Elements DEF FinishItem, LineInv
  <2>2. \A o \in Ops : \/ state'[o] = state[o]
                       \/ state[o] = "running" /\ state'[o] \in {"ok", "error"}
    BY <1>0, <1>9, <2>1 DEF FinishItem, Perform, TypeOK
  <2> QED BY <1>0, <1>9, <2>2, TaskMoves DEF FinishItem, taskVars
<1>10. ASSUME NEW o \in Ops, StartAside(o) \/ FinishAside(o) PROVE TaskInv'
  <2>1. \A p \in Ops : \/ state'[p] = state[p]
                       \/ /\ state[p] \in {"aside", "running_aside"}
                          /\ state'[p] \in {"running_aside", "ok", "error"}
    BY <1>0, <1>10 DEF StartAside, FinishAside, Perform, TypeOK
  <2> QED BY <1>0, <1>10, <2>1, TaskMoves DEF StartAside, FinishAside, taskVars
<1>11. CASE ShutdownBegins \/ ShutdownDrains \/ ShutdownEnds \/ Exit \/ UNCHANGED vars
  BY <1>0, <1>11, TaskMoves DEF ShutdownBegins, ShutdownDrains, ShutdownEnds, Exit, vars, taskVars, workVars
<1> QED BY <1>1, <1>2, <1>3, <1>4, <1>5, <1>6, <1>7, <1>8, <1>9, <1>10, <1>11
        DEF Next, TaskStep, Work

-----------------------------------------------------------------------------
(* What happened. *)

\* The effects and what callers were told of them stay as they are.
LEMMA OutcomeMoves ==
  ASSUME OutcomeInv, UNCHANGED performed,
         \A o \in Ops : \/ state'[o] = state[o]
                        \/ state[o] \notin {"ok", "error"} /\ state'[o] \notin {"ok", "error"},
         \A o \in Ops : \/ ret'[o] = ret[o] /\ (ret[o] = "refused" => state'[o] = state[o])
                        \/ ret'[o] \notin {"ok", "error", "refused"}
                        \/ ret'[o] = "refused" /\ state'[o] = "new"
                        \/ ret'[o] \in {"ok", "error"} /\ state'[o] = ret'[o]
  PROVE  OutcomeInv'
<1>1. \A o \in Ops : (Done(o)' <=> Done(o)) /\ (state'[o] = "ok" <=> state[o] = "ok")
  BY DEF Done
<1>2. \A o \in Ops : /\ ret'[o] \in {"ok", "error"} => state'[o] = ret'[o]
                     /\ ret'[o] = "refused" => state'[o] = "new"
                     /\ Done(o)' <=> state'[o] = "ok"
  BY <1>1 DEF OutcomeInv
<1>3. \A i, j \in 1..Len(performed') : performed'[i] = performed'[j] => i = j
  BY DEF OutcomeInv
<1> QED BY <1>2, <1>3 DEF OutcomeInv

\* What o's end adds to them.
LEMMA Effects ==
  ASSUME TypeOK, NEW o \in Ops, NEW v \in {"ok", "error"}, Perform(o, v)
  PROVE  /\ performed \in Seq(Ops) /\ Len(performed) \in Nat
         /\ \A p \in Ops : state'[p] = IF p = o THEN v ELSE state[p]
         /\ v = "error" => performed' = performed
         /\ v = "ok" =>
              /\ Len(performed') = Len(performed) + 1
              /\ performed'[Len(performed) + 1] = o
              /\ \A i \in 1..Len(performed) : performed'[i] = performed[i]
<1>1. performed \in Seq(Ops) /\ Len(performed) \in Nat
  BY DEF TypeOK
<1> QED BY <1>1 DEF Perform, TypeOK

LEMMA PerformOutcome ==
  ASSUME TypeOK, OutcomeInv, NEW o \in Ops, NEW v \in {"ok", "error"}, Perform(o, v),
         state[o] \notin {"ok", "error"},
         \A p \in Ops : p # o => ret'[p] = ret[p],
         ret'[o] = v \/ ret'[o] \notin {"ok", "error", "refused"}
  PROVE  OutcomeInv'
<1>1. \A i \in 1..Len(performed) : performed[i] # o
  BY DEF OutcomeInv, Done
<1>2. CASE v = "error"
  BY <1>2, Effects DEF OutcomeInv, Done
<1>3. CASE v = "ok"
  <2> DEFINE l == Len(performed)
  <2>1. /\ l \in Nat /\ Len(performed') = l + 1 /\ performed'[l + 1] = o
        /\ \A i \in 1..l : performed'[i] = performed[i]
        /\ \A p \in Ops : state'[p] = IF p = o THEN "ok" ELSE state[p]
    BY <1>3, Effects
  <2>2. \A i \in 1..Len(performed') : i \in 1..l \/ i = l + 1
    BY <2>1
  <2>3. \A i, j \in 1..Len(performed') : performed'[i] = performed'[j] => i = j
    <3> SUFFICES ASSUME NEW i \in 1..Len(performed'), NEW j \in 1..Len(performed'),
                        performed'[i] = performed'[j]
                 PROVE  i = j
      OBVIOUS
    <3>1. CASE i \in 1..l /\ j \in 1..l
      BY <2>1, <3>1 DEF OutcomeInv
    <3>2. CASE i = l + 1 \/ j = l + 1
      BY <1>1, <2>1, <2>2, <3>2
    <3> QED BY <2>2, <3>1, <3>2
  <2>4. \A p \in Ops : Done(p)' <=> p = o \/ Done(p)
    <3>1. \A p \in Ops : Done(p) => Done(p)'
      BY <2>1 DEF Done
    <3>2. Done(o)'
      BY <2>1 DEF Done
    <3>3. \A p \in Ops : Done(p)' => p = o \/ Done(p)
      BY <2>1, <2>2 DEF Done
    <3> QED BY <3>1, <3>2, <3>3
  <2>5. \A p \in Ops : /\ ret'[p] \in {"ok", "error"} => state'[p] = ret'[p]
                       /\ ret'[p] = "refused" => state'[p] = "new"
                       /\ Done(p)' <=> state'[p] = "ok"
    BY <1>3, <2>1, <2>4 DEF OutcomeInv
  <2> QED BY <2>3, <2>5 DEF OutcomeInv
<1> QED BY <1>2, <1>3

\* Where an operation ends: none was told of it, or its task has left.
LEMMA OutcomeStep ==
  ASSUME Assumptions, IInv, [Next]_vars
  PROVE  OutcomeInv'
<1>0. TypeOK /\ LineInv /\ TaskInv /\ OutcomeInv
  BY DEF IInv
<1>1. ASSUME NEW t \in Tasks, SyncOperation(t) PROVE OutcomeInv'
  <2>1. Op(t) \in Ops /\ at[t] \in 1..Len(Program[t])
    BY <1>0, <1>1, AtOperation DEF SyncOperation, MayStep
  <2>2. PICK v \in {"ok", "error"} : Perform(Op(t), v) /\ ReturnToTask(t, v)
    BY <1>1 DEF SyncOperation
  <2>3. state[Op(t)] = "new"
    BY <1>0, <1>1, <2>1 DEF SyncOperation, MayStep, TaskInv, Op
  <2>4. ret'[Op(t)] = v /\ \A p \in Ops : p # Op(t) => ret'[p] = ret[p]
    BY <1>0, <2>1, <2>2 DEF ReturnToTask, TypeOK
  <2> QED BY <1>0, <2>1, <2>2, <2>3, <2>4, PerformOutcome
<1>2. ASSUME NEW t \in Tasks, AsyncOperation(t) \/ GetExecutor(t) PROVE OutcomeInv'
  BY <1>0, <1>2, OutcomeMoves DEF AsyncOperation, GetExecutor, workVars, history
<1>3. ASSUME NEW t \in Tasks, Submit(t) PROVE OutcomeInv'
  <2>1. Op(t) \in Ops /\ at[t] \in 1..Len(Program[t])
    BY <1>0, <1>3, InOperation DEF Submit
  <2>2. state[Op(t)] = "new" /\ ret[Op(t)] = "none"
    BY <1>0, <1>3, <2>1 DEF Submit, TaskInv, Op, TypeOK
  <2>3. \A o \in Ops : /\ ret'[o] = ret[o]
                       /\ o # Op(t) => state'[o] = state[o]
                       /\ o = Op(t) => state'[o] = "queued"
    BY <1>0, <1>3, <2>1 DEF Submit, TypeOK
  <2> QED BY <1>0, <1>3, <2>2, <2>3, OutcomeMoves DEF Submit
<1>4. ASSUME NEW t \in Tasks, FallBack(t) PROVE OutcomeInv'
  <2>1. Op(t) \in Ops /\ at[t] \in 1..Len(Program[t])
    BY <1>0, <1>4, InOperation DEF FallBack
  <2>2. state[Op(t)] = "new" /\ ret[Op(t)] = "none"
    BY <1>0, <1>4, <2>1 DEF FallBack, TaskInv, Op, TypeOK
  <2>3. \A o \in Ops : /\ o # Op(t) => ret'[o] = ret[o] /\ state'[o] = state[o]
                       /\ o = Op(t) => \/ state'[o] = "aside" /\ ret'[o] = "none"
                                       \/ state'[o] = "new" /\ ret'[o] = "refused"
    <3>1. CASE phase = "running"
      BY <1>0, <1>4, <2>1, <2>2, <3>1 DEF FallBack, TypeOK
    <3>2. CASE phase # "running"
      BY <1>0, <1>4, <2>1, <2>2, <3>2 DEF FallBack, ReturnToTask, TypeOK
    <3> QED BY <3>1, <3>2
  <2> QED BY <1>0, <1>4, <2>2, <2>3, OutcomeMoves DEF FallBack, history
<1>5. ASSUME NEW t \in Tasks, Resume(t) \/ CancelAwait(t) PROVE OutcomeInv'
  <2>1. Op(t) \in Ops /\ at[t] \in 1..Len(Program[t])
    BY <1>0, <1>5, AtOperation DEF Resume, CancelAwait, MayStep
  <2>2. state[Op(t)] \notin {"new", "dropped"}
    BY <1>0, <1>5, <2>1 DEF Resume, CancelAwait, MayStep, TaskInv, Op
  <2>3. \A o \in Ops : o # Op(t) => ret'[o] = ret[o] /\ state'[o] = state[o]
    BY <1>0, <1>5, <2>1 DEF Resume, CancelAwait, ReturnToTask, workVars, TypeOK
  <2>4. \/ ret'[Op(t)] = "cancelled" /\ state'[Op(t)] = state[Op(t)]
        \/ /\ ret'[Op(t)] = "cancelled" /\ state[Op(t)] \in {"queued", "aside"}
           /\ state'[Op(t)] = "dropped"
        \/ /\ state[Op(t)] \in {"ok", "error"} /\ ret'[Op(t)] = state[Op(t)]
           /\ state'[Op(t)] = state[Op(t)]
    BY <1>0, <1>5, <2>1 DEF Resume, CancelAwait, ReturnToTask, workVars, TypeOK
  <2> QED BY <1>0, <1>5, <2>2, <2>3, <2>4, OutcomeMoves DEF Resume, CancelAwait, history
<1>6. ASSUME NEW n \in Pools, TakeItem(n) PROVE OutcomeInv'
  <2>1. /\ Head(queue[n]) \in Ops
        /\ state[Head(queue[n])] \in {"queued", "dropped"}
    <3>1. queue[n] \in Seq(Ops) /\ queue[n] # <<>>
      BY <1>0, <1>6, Elements DEF TakeItem
    <3>2. Head(queue[n]) = queue[n][1] /\ 1 \in 1..Len(queue[n])
      BY <3>1
    <3> QED BY <1>0, <3>1, <3>2, Elements DEF LineInv
  <2>2. \A o \in Ops : \/ state'[o] = state[o]
                       \/ state[o] = "queued" /\ state'[o] = "running" /\ ret[o] # "refused"
    BY <1>0, <1>6, <2>1 DEF TakeItem, TypeOK, OutcomeInv
  <2> QED BY <1>0, <1>6, <2>2, OutcomeMoves DEF TakeItem, taskVars, history
<1>7. ASSUME NEW n \in Pools, FinishItem(n) PROVE OutcomeInv'
  <2>1. current[n] \in Ops /\ state[current[n]] = "running"
    BY <1>0, <1>7, Elements DEF FinishItem, LineInv
  <2>2. PICK v \in {"ok", "error"} : Perform(current[n], v)
    BY <1>7 DEF FinishItem
  <2>3. ret' = ret /\ ret[current[n]] \notin {"ok", "error", "refused"}
    BY <1>0, <1>7, <2>1 DEF FinishItem, taskVars, OutcomeInv
  <2> QED BY <1>0, <2>1, <2>2, <2>3, PerformOutcome
<1>8. ASSUME NEW o \in Ops, FinishAside(o) PROVE OutcomeInv'
  <2>1. PICK v \in {"ok", "error"} : Perform(o, v)
    BY <1>8 DEF FinishAside
  <2>2. state[o] = "running_aside" /\ ret' = ret /\ ret[o] \notin {"ok", "error", "refused"}
    BY <1>0, <1>8 DEF FinishAside, taskVars, OutcomeInv
  <2> QED BY <1>0, <2>1, <2>2, PerformOutcome
<1>9. ASSUME NEW o \in Ops, StartAside(o) PROVE OutcomeInv'
  <2>1. \A p \in Ops : \/ state'[p] = state[p]
                       \/ state[p] = "aside" /\ state'[p] = "running_aside" /\ ret[p] # "refused"
    BY <1>0, <1>9 DEF StartAside, TypeOK, OutcomeInv
  <2> QED BY <1>0, <1>9, <2>1, OutcomeMoves DEF StartAside, taskVars, history
<1>10. CASE ShutdownBegins \/ ShutdownDrains \/ ShutdownEnds \/ Exit \/ UNCHANGED vars
  BY <1>0, <1>10, OutcomeMoves
     DEF ShutdownBegins, ShutdownDrains, ShutdownEnds, Exit, vars, taskVars, workVars, history
<1> QED BY <1>1, <1>2, <1>3, <1>4, <1>5, <1>6, <1>7, <1>8, <1>9, <1>10
        DEF Next, TaskStep, Work

-----------------------------------------------------------------------------
(* The order of a program. *)

\* A caller that left stays away, and nothing takes effect.
LEMMA OrderMoves ==
  ASSUME ProgramOrder, UNCHANGED performed,
         \A o \in Ops : ret[o] = "cancelled" => ret'[o] = "cancelled",
         Assumptions, TypeOK
  PROVE  ProgramOrder'
<1> SUFFICES ASSUME NEW t \in Tasks, NEW j \in 1..Len(Program[t]), NEW i \in 1..(j - 1),
                    Before(performed', Program[t][j], Program[t][i])
             PROVE  ret'[Program[t][i]] = "cancelled"
  BY DEF ProgramOrder
<1>1. Program[t][i] \in Ops
  BY Places
<1>2. Before(performed, Program[t][j], Program[t][i])
  BY DEF Before
<1> QED BY <1>1, <1>2 DEF ProgramOrder

\* The end of an operation whose successors have not begun unless its caller
\* left.
LEMMA PerformOrder ==
  ASSUME Assumptions, TypeOK, TaskInv, OutcomeInv, ProgramOrder,
         NEW o \in Ops, NEW v \in {"ok", "error"}, Perform(o, v),
         state[o] \notin {"ok", "error"},
         \A p \in Ops : ret[p] = "cancelled" => ret'[p] = "cancelled",
         state[o] # "new" \/ ret[o] = "none"
  PROVE  ProgramOrder'
<1>1. CASE v = "error"
  BY <1>1, Effects, OrderMoves
<1>2. CASE v = "ok"
  <2> DEFINE l == Len(performed)
  <2>1. /\ l \in Nat /\ Len(performed') = l + 1 /\ performed'[l + 1] = o
        /\ \A i \in 1..l : performed'[i] = performed[i]
    BY <1>2, Effects
  <2> SUFFICES ASSUME NEW t \in Tasks, NEW j \in 1..Len(Program[t]), NEW i \in 1..(j - 1),
                      Before(performed', Program[t][j], Program[t][i])
               PROVE  ret'[Program[t][i]] = "cancelled"
    BY DEF ProgramOrder
  <2>2. /\ i \in 1..Len(Program[t]) /\ i < j /\ at[t] \in Nat
        /\ Program[t][i] \in Ops /\ Program[t][j] \in Ops
    BY Places
  <2>3. PICK k \in 1..(l + 1) : /\ performed'[k] = Program[t][i]
                                /\ \E m \in 1..(k - 1) : performed'[m] = Program[t][j]
    BY <2>1 DEF Before
  <2>4. PICK m \in 1..(k - 1) : performed'[m] = Program[t][j]
    BY <2>3
  <2>5. m \in 1..l /\ performed[m] = Program[t][j]
    BY <2>1, <2>3, <2>4
  <2>6. CASE k \in 1..l
    <3>1. performed[k] = Program[t][i]
      BY <2>1, <2>3, <2>6
    <3>2. Before(performed, Program[t][j], Program[t][i])
      BY <2>5, <2>6, <3>1, <2>4 DEF Before
    <3> QED BY <2>2, <3>2 DEF ProgramOrder
  <2>7. CASE k = l + 1
    <3>1. Program[t][i] = o
      BY <2>1, <2>3, <2>7
    <3>2. state[Program[t][j]] = "ok"
      BY <2>2, <2>5 DEF OutcomeInv, Done
    <3>3. ~(j > at[t])
      BY <3>2 DEF TaskInv
    <3>4. i < at[t] /\ ret[o] # "none"
      BY <2>2, <3>1, <3>3 DEF TaskInv
    <3>5. ret[o] = "cancelled"
      BY <3>4 DEF TypeOK, OutcomeInv
    <3> QED BY <3>1, <3>5
  <2> QED BY <2>1, <2>3, <2>6, <2>7
<1> QED BY <1>1, <1>2

LEMMA OrderStep ==
  ASSUME Assumptions, IInv, [Next]_vars
  PROVE  ProgramOrder'
<1>0. TypeOK /\ LineInv /\ TaskInv /\ OutcomeInv /\ ProgramOrder
  BY DEF IInv
<1>1. ASSUME NEW t \in Tasks, at[t] \in 1..Len(Program[t]), NEW r, ReturnToTask(t, r)
      PROVE  \A o \in Ops : ret[o] = "cancelled" => ret'[o] = "cancelled"
  <2>1. Op(t) \in Ops /\ ret[Op(t)] = "none"
    BY <1>0, <1>1, Places DEF TaskInv, Op
  <2> QED BY <1>0, <1>1, <2>1 DEF ReturnToTask, TypeOK
<1>2. ASSUME NEW t \in Tasks, SyncOperation(t) PROVE ProgramOrder'
  <2>1. Op(t) \in Ops /\ at[t] \in 1..Len(Program[t])
    BY <1>0, <1>2, AtOperation DEF SyncOperation, MayStep
  <2>2. PICK v \in {"ok", "error"} : Perform(Op(t), v) /\ ReturnToTask(t, v)
    BY <1>2 DEF SyncOperation
  <2>3. state[Op(t)] = "new" /\ ret[Op(t)] = "none"
    BY <1>0, <1>2, <2>1 DEF SyncOperation, MayStep, TaskInv, Op
  <2> QED BY <1>0, <1>1, <2>1, <2>2, <2>3, PerformOrder
<1>3. ASSUME NEW t \in Tasks, Resume(t) \/ CancelAwait(t) PROVE ProgramOrder'
  <2>1. at[t] \in 1..Len(Program[t]) /\ performed' = performed
    BY <1>0, <1>3, AtOperation DEF Resume, CancelAwait, MayStep, history
  <2>2. \E r : ReturnToTask(t, r)
    BY <1>3 DEF Resume, CancelAwait
  <2> QED BY <1>0, <1>1, <2>1, <2>2, OrderMoves
<1>4. ASSUME NEW t \in Tasks, FallBack(t) PROVE ProgramOrder'
  <2>1. at[t] \in 1..Len(Program[t]) /\ performed' = performed
    BY <1>0, <1>4, InOperation DEF FallBack, history
  <2>2. ret' = ret \/ ReturnToTask(t, "refused")
    BY <1>4 DEF FallBack
  <2> QED BY <1>0, <1>1, <2>1, <2>2, OrderMoves
<1>5. ASSUME NEW n \in Pools, FinishItem(n) PROVE ProgramOrder'
  <2>1. current[n] \in Ops /\ state[current[n]] = "running" /\ ret' = ret
    BY <1>0, <1>5, Elements DEF FinishItem, LineInv, taskVars
  <2>2. PICK v \in {"ok", "error"} : Perform(current[n], v)
    BY <1>5 DEF FinishItem
  <2> QED BY <1>0, <2>1, <2>2, PerformOrder
<1>6. ASSUME NEW o \in Ops, FinishAside(o) PROVE ProgramOrder'
  <2>1. PICK v \in {"ok", "error"} : Perform(o, v)
    BY <1>6 DEF FinishAside
  <2>2. state[o] = "running_aside" /\ ret' = ret
    BY <1>6 DEF FinishAside, taskVars
  <2> QED BY <1>0, <2>1, <2>2, PerformOrder
<1>7. ASSUME UNCHANGED <<performed, ret>> PROVE ProgramOrder'
  BY <1>0, <1>7, OrderMoves
<1> QED BY <1>2, <1>3, <1>4, <1>5, <1>6, <1>7
        DEF Next, TaskStep, Work, AsyncOperation, GetExecutor, Submit, TakeItem, StartAside,
            ShutdownBegins, ShutdownDrains, ShutdownEnds, Exit, vars, taskVars, workVars, history

-----------------------------------------------------------------------------
(* The order of acceptance. *)

\* What was accepted are operations, at numbered places.
LEMMA Accepted ==
  ASSUME TypeOK
  PROVE  /\ submitted \in Seq(Ops) /\ Len(submitted) \in Nat
         /\ \A i \in 1..Len(submitted) : submitted[i] \in Ops
BY DEF TypeOK

\* An operation that has not begun, or went aside, was not accepted.
LEMMA NotAccepted ==
  ASSUME AcceptedInv, NEW o, state[o] \in {"new", "aside", "running_aside"}
  PROVE  \A i \in 1..Len(submitted) : submitted[i] # o
BY DEF AcceptedInv

LEMMA AcceptedMoves ==
  ASSUME TypeOK, AcceptedInv, UNCHANGED <<submitted, queue>>,
         \A o \in Ops : \/ state'[o] = state[o]
                        \/ state[o] \in {"new", "aside", "running_aside"}
                        \/ state'[o] \notin {"new", "aside", "running_aside"}
  PROVE  AcceptedInv'
<1>1. \A i \in 1..Len(submitted) : state'[submitted[i]] \notin {"new", "aside", "running_aside"}
  BY Accepted DEF AcceptedInv
<1> QED BY <1>1 DEF AcceptedInv

LEMMA AcceptedStep ==
  ASSUME Assumptions, IInv, [Next]_vars
  PROVE  AcceptedInv'
<1>0. TypeOK /\ PoolInv /\ LineInv /\ TaskInv /\ AcceptedInv
  BY DEF IInv
<1>1. ASSUME NEW t \in Tasks, SyncOperation(t) \/ FallBack(t) \/ CancelAwait(t)
      PROVE  AcceptedInv'
  <2>1. Op(t) \in Ops /\ at[t] \in 1..Len(Program[t])
    BY <1>0, <1>1, AtOperation, InOperation DEF SyncOperation, FallBack, CancelAwait, MayStep
  <2>2. state[Op(t)] = "new" \/ CancelAwait(t)
    BY <1>0, <1>1, <2>1 DEF SyncOperation, FallBack, MayStep, TaskInv, Op
  <2>3. \A o \in Ops : state'[o] = state[o] \/ state[o] = "new" \/ state'[o] = "dropped"
    BY <1>0, <1>1, <2>1, <2>2 DEF SyncOperation, FallBack, CancelAwait, Perform, TypeOK
  <2> QED BY <1>0, <1>1, <2>3, AcceptedMoves
          DEF SyncOperation, FallBack, CancelAwait, history
<1>2. ASSUME NEW t \in Tasks, Submit(t) PROVE AcceptedInv'
  <2> DEFINE o == Op(t)
             l == Len(submitted)
  <2>1. o \in Ops /\ at[t] \in 1..Len(Program[t]) /\ pools \in Pools
    BY <1>0, <1>2, InOperation, OpenPool DEF Submit, Accepts
  <2>2. state[o] = "new"
    BY <1>0, <1>2, <2>1 DEF Submit, TaskInv, Op
  <2>3. /\ submitted' = Append(submitted, o)
        /\ queue' = [queue EXCEPT ![pools] = Append(queue[pools], o)]
        /\ state' = [state EXCEPT ![o] = "queued"]
    BY <1>2 DEF Submit
  <2>4. \A i \in 1..l : submitted[i] # o
    BY <1>0, <2>2, NotAccepted
  <2> HIDE DEF o
  <2>5. /\ l \in Nat /\ Len(submitted') = l + 1 /\ submitted'[l + 1] = o
        /\ \A i \in 1..l : submitted'[i] = submitted[i]
    BY <1>0, <2>1, <2>3, Accepted
  <2> HIDE DEF l
  <2>6. \A i \in 1..Len(submitted') : i \in 1..l \/ i = l + 1
    BY <2>5
  <2>7. \A i, j \in 1..Len(submitted') : submitted'[i] = submitted'[j] => i = j
    <3>1. \A i, j \in 1..l : submitted[i] = submitted[j] => i = j
      BY <1>0 DEF AcceptedInv, l
    <3> QED BY <2>4, <2>5, <2>6, <3>1
  <2>8. \A i \in 1..Len(submitted') :
          state'[submitted'[i]] \notin {"new", "aside", "running_aside"}
    <3>1. state'[o] = "queued"
      BY <1>0, <2>1, <2>3 DEF TypeOK
    <3>2. \A i \in 1..l : /\ submitted[i] \in Ops
                          /\ state[submitted[i]] \notin {"new", "aside", "running_aside"}
      BY <1>0, Accepted DEF AcceptedInv, l
    <3>3. \A i \in 1..l : state'[submitted[i]] = state[submitted[i]]
      BY <1>0, <2>3, <2>4, <3>2 DEF TypeOK
    <3> QED BY <2>5, <2>6, <3>1, <3>2, <3>3
  <2>9. \A p, q : Before(submitted, p, q) => Before(submitted', p, q)
    <3> SUFFICES ASSUME NEW p, NEW q, Before(submitted, p, q) PROVE Before(submitted', p, q)
      OBVIOUS
    <3>1. PICK j \in 1..l : submitted[j] = q /\ \E i \in 1..(j - 1) : submitted[i] = p
      BY DEF Before, l
    <3>2. PICK i \in 1..(j - 1) : submitted[i] = p
      BY <3>1
    <3>3. /\ i \in 1..l /\ j \in 1..Len(submitted')
          /\ submitted'[j] = q /\ submitted'[i] = p
      BY <2>5, <3>1, <3>2
    <3> QED BY <3>3 DEF Before
  <2>10. \A i \in 1..l : Before(submitted', submitted[i], o)
    BY <2>5, <2>6 DEF Before
  <2>11. ASSUME NEW n \in Pools, NEW j \in 1..Len(queue'[n])
         PROVE  /\ \E k \in 1..Len(submitted') : submitted'[k] = queue'[n][j]
                /\ \A i \in 1..(j - 1) : Before(submitted', queue'[n][i], queue'[n][j])
    <3>1. queue[n] \in Seq(Ops) /\ Len(queue[n]) \in Nat
      BY <1>0, Elements
    <3>2. ASSUME NEW m \in 1..Len(queue[n])
          PROVE  /\ \E k \in 1..l : submitted[k] = queue[n][m]
                 /\ \E k \in 1..Len(submitted') : submitted'[k] = queue[n][m]
                 /\ \A i \in 1..(m - 1) : Before(submitted', queue[n][i], queue[n][m])
      <4>1. PICK k \in 1..l : submitted[k] = queue[n][m]
        BY <1>0 DEF AcceptedInv, l
      <4>2. \A i \in 1..(m - 1) : Before(submitted, queue[n][i], queue[n][m])
        BY <1>0 DEF AcceptedInv
      <4>3. k \in 1..Len(submitted') /\ submitted'[k] = queue[n][m]
        BY <2>5, <4>1
      <4> QED BY <2>9, <4>1, <4>2, <4>3
    <3>3. CASE n # pools
      <4>1. queue'[n] = queue[n]
        BY <1>0, <2>3, <3>3 DEF TypeOK
      <4> QED BY <3>2, <4>1
    <3>4. CASE n = pools
      <4>1. queue'[n] = Append(queue[n], o)
        BY <1>0, <2>3, <3>4 DEF TypeOK
      <4>2. /\ Len(queue'[n]) = Len(queue[n]) + 1
            /\ queue'[n][Len(queue[n]) + 1] = o
            /\ \A i \in 1..Len(queue[n]) : queue'[n][i] = queue[n][i]
        BY <2>1, <3>1, <4>1
      <4>3. CASE j \in 1..Len(queue[n])
        <5>1. \A i \in 1..(j - 1) : i \in 1..Len(queue[n])
          BY <3>1, <4>3
        <5> QED BY <3>2, <4>2, <4>3, <5>1
      <4>4. CASE j = Len(queue[n]) + 1
        <5>1. \A i \in 1..(j - 1) : i \in 1..Len(queue[n])
          BY <3>1, <4>4
        <5>2. \A i \in 1..(j - 1) : Before(submitted', queue'[n][i], o)
          BY <2>10, <3>2, <4>2, <5>1
        <5>3. l + 1 \in 1..Len(submitted')
          BY <2>5
        <5> QED BY <2>5, <4>2, <4>4, <5>2, <5>3
      <4> QED BY <3>1, <4>2, <4>3, <4>4
    <3> QED BY <3>3, <3>4
  <2> QED BY <2>7, <2>8, <2>11 DEF AcceptedInv
<1>3. ASSUME NEW n \in Pools, TakeItem(n) PROVE AcceptedInv'
  <2> DEFINE q == queue[n]
  <2>1. /\ q \in Seq(Ops) /\ q # <<>> /\ Len(q) \in Nat
        /\ Head(q) = q[1] /\ 1 \in 1..Len(q) /\ q[1] \in Ops
    BY <1>0, <1>3, Elements DEF TakeItem
  <2>2. /\ submitted' = submitted /\ queue'[n] = Tail(q)
        /\ \A m \in Pools : m # n => queue'[m] = queue[m]
    BY <1>0, <1>3 DEF TakeItem, history, TypeOK
  <2>3. \A o \in Ops : state'[o] = state[o] \/ state'[o] = "running"
    BY <1>0, <1>3 DEF TakeItem, TypeOK
  <2>4. \A i \in 1..Len(submitted) :
          state'[submitted[i]] \notin {"new", "aside", "running_aside"}
    BY <1>0, <2>3, Accepted DEF AcceptedInv
  <2>5. \A j \in 1..Len(queue'[n]) : /\ j + 1 \in 1..Len(q) /\ queue'[n][j] = q[j + 1]
                                     /\ \A i \in 1..(j - 1) : /\ i + 1 \in 1..((j + 1) - 1)
                                                              /\ queue'[n][i] = q[i + 1]
    BY <2>1, <2>2
  <2>6. \A j \in 1..Len(q) :
          /\ \E k \in 1..Len(submitted) : submitted[k] = q[j]
          /\ \A i \in 1..(j - 1) : Before(submitted, q[i], q[j])
    BY <1>0 DEF AcceptedInv
  <2> HIDE DEF q
  <2>7. \A j \in 1..Len(queue'[n]) :
          /\ \E k \in 1..Len(submitted) : submitted[k] = queue'[n][j]
          /\ \A i \in 1..(j - 1) : Before(submitted, queue'[n][i], queue'[n][j])
    BY <2>5, <2>6
  <2>8. \A m \in Pools : m # n => \A j \in 1..Len(queue'[m]) :
          /\ \E k \in 1..Len(submitted) : submitted[k] = queue'[m][j]
          /\ \A i \in 1..(j - 1) : Before(submitted, queue'[m][i], queue'[m][j])
    BY <1>0, <2>2 DEF AcceptedInv
  <2>9. \A i, j \in 1..Len(submitted) : submitted[i] = submitted[j] => i = j
    BY <1>0 DEF AcceptedInv
  <2>10. ASSUME NEW m \in Pools
         PROVE  \A j \in 1..Len(queue'[m]) :
                  /\ \E k \in 1..Len(submitted') : submitted'[k] = queue'[m][j]
                  /\ \A i \in 1..(j - 1) : Before(submitted', queue'[m][i], queue'[m][j])
    <3>0. submitted' = submitted
      BY <2>2
    <3>1. CASE m = n
      BY <2>7, <3>0, <3>1
    <3>2. CASE m # n
      BY <2>8, <3>0, <3>2
    <3> QED BY <3>1, <3>2
  <2> QED BY <2>2, <2>4, <2>9, <2>10 DEF AcceptedInv
<1>4. ASSUME NEW n \in Pools, FinishItem(n) PROVE AcceptedInv'
  <2>1. \A o \in Ops : state'[o] = state[o] \/ state'[o] \in {"ok", "error"}
    BY <1>0, <1>4 DEF FinishItem, Perform, TypeOK
  <2> QED BY <1>0, <1>4, <2>1, AcceptedMoves DEF FinishItem
<1>5. ASSUME NEW o \in Ops, StartAside(o) \/ FinishAside(o) PROVE AcceptedInv'
  <2>1. \A p \in Ops : state'[p] = state[p] \/ state[p] \in {"aside", "running_aside"}
    BY <1>0, <1>5 DEF StartAside, FinishAside, Perform, TypeOK
  <2> QED BY <1>0, <1>5, <2>1, AcceptedMoves DEF StartAside, FinishAside, history
<1>6. CASE UNCHANGED <<submitted, queue, state>>
  BY <1>0, <1>6, AcceptedMoves
<1> QED BY <1>1, <1>2, <1>3, <1>4, <1>5, <1>6
        DEF Next, TaskStep, Work, AsyncOperation, GetExecutor, Resume, ShutdownBegins,
            ShutdownDrains, ShutdownEnds, Exit, vars, workVars, history

-----------------------------------------------------------------------------
(* The order of the effects. *)

\* Nothing begins or takes effect: of what was accepted, some may be withdrawn.
LEMMA SubmissionMoves ==
  ASSUME TypeOK, SubmissionOrder, UNCHANGED <<submitted, performed>>,
         \A i \in 1..Len(submitted) :
           \/ state'[submitted[i]] = state[submitted[i]]
           \/ state[submitted[i]] = "queued" /\ state'[submitted[i]] = "dropped"
  PROVE  SubmissionOrder'
<1> SUFFICES ASSUME NEW j \in 1..Len(submitted), NEW i \in 1..(j - 1)
             PROVE  /\ state'[submitted[j]] \in {"running", "ok", "error"}
                         => state'[submitted[i]] \in {"dropped", "ok", "error"}
                    /\ Done(submitted[i]) /\ Done(submitted[j])
                         => Before(performed, submitted[i], submitted[j])
  BY DEF SubmissionOrder, Done
<1>1. i \in 1..Len(submitted)
  BY Accepted
<1> QED BY <1>1 DEF SubmissionOrder

\* What takes effect does so after all that did, and changes nothing among them.
LEMMA PerformLast ==
  ASSUME TypeOK, NEW o \in Ops, NEW v \in {"ok", "error"}, Perform(o, v)
  PROVE  /\ \A p : Done(p)' => Done(p) \/ p = o
         /\ \A p, q : Before(performed, p, q) => Before(performed', p, q)
         /\ \A p : Done(p) /\ Done(o)' /\ ~Done(o) => Before(performed', p, o)
<1>1. CASE v = "error"
  BY <1>1, Effects DEF Done
<1>2. CASE v = "ok"
  <2> DEFINE l == Len(performed)
  <2>1. /\ l \in Nat /\ Len(performed') = l + 1 /\ performed'[l + 1] = o
        /\ \A i \in 1..l : performed'[i] = performed[i]
    BY <1>2, Effects
  <2> HIDE DEF l
  <2>2. \A p : Done(p)' => Done(p) \/ p = o
    BY <2>1 DEF Done, l
  <2>3. ASSUME NEW p, NEW q, Before(performed, p, q) PROVE Before(performed', p, q)
    <3>1. PICK j \in 1..l : performed[j] = q /\ \E i \in 1..(j - 1) : performed[i] = p
      BY <2>3 DEF Before, l
    <3>2. PICK i \in 1..(j - 1) : performed[i] = p
      BY <3>1
    <3>3. /\ i \in 1..l /\ j \in 1..Len(performed')
          /\ performed'[j] = q /\ performed'[i] = p
      BY <2>1, <3>1, <3>2
    <3> QED BY <3>3 DEF Before
  <2>4. ASSUME NEW p, Done(p) PROVE Before(performed', p, o)
    <3>1. PICK i \in 1..l : performed[i] = p
      BY <2>4 DEF Done, l
    <3>2. i \in 1..((l + 1) - 1) /\ l + 1 \in 1..Len(performed') /\ performed'[i] = p
      BY <2>1, <3>1
    <3> QED BY <2>1, <3>2 DEF Before
  <2> QED BY <2>2, <2>3, <2>4
<1> QED BY <1>1, <1>2

\* An operation that no pool accepted is performed.
LEMMA PerformElsewhere ==
  ASSUME TypeOK, SubmissionOrder, UNCHANGED submitted,
         NEW o \in Ops, NEW v \in {"ok", "error"}, Perform(o, v),
         \A i \in 1..Len(submitted) : submitted[i] # o
  PROVE  SubmissionOrder'
<1> SUFFICES ASSUME NEW j \in 1..Len(submitted), NEW i \in 1..(j - 1)
             PROVE  /\ state'[submitted[j]] \in {"running", "ok", "error"}
                         => state'[submitted[i]] \in {"dropped", "ok", "error"}
                    /\ Done(submitted[i])' /\ Done(submitted[j])'
                         => Before(performed', submitted[i], submitted[j])
  BY DEF SubmissionOrder
<1>1. /\ i \in 1..Len(submitted) /\ submitted[i] \in Ops /\ submitted[j] \in Ops
      /\ submitted[i] # o /\ submitted[j] # o
  BY Accepted
<1>2. state'[submitted[i]] = state[submitted[i]] /\ state'[submitted[j]] = state[submitted[j]]
  BY <1>1, Effects
<1>3. /\ Done(submitted[i])' => Done(submitted[i])
      /\ Done(submitted[j])' => Done(submitted[j])
  BY <1>1, PerformLast
<1> QED BY <1>2, <1>3, PerformLast DEF SubmissionOrder

\* When the worker takes an operation, all that was accepted before it has ended
\* or was withdrawn: the line is in the order of acceptance, and it takes the first.
LEMMA FirstInLine ==
  ASSUME Assumptions, IInv, NEW n \in Pools, queue[n] # <<>>, current[n] = None,
         NEW j \in 1..Len(submitted), submitted[j] = Head(queue[n]), NEW i \in 1..(j - 1)
  PROVE  state[submitted[i]] \in {"dropped", "ok", "error"}
<1>0. TypeOK /\ LineInv /\ KeptInv /\ AcceptedInv
  BY DEF IInv
<1> DEFINE q == queue[n]
           p == submitted[i]
<1>1. /\ Len(submitted) \in Nat /\ i \in 1..Len(submitted) /\ p \in Ops
      /\ \A m \in 1..Len(submitted), k \in 1..Len(submitted) :
           submitted[m] = submitted[k] => m = k
  BY <1>0, Accepted DEF AcceptedInv
<1>2. q \in Seq(Ops) /\ Len(q) \in Nat /\ Head(q) = q[1]
  BY <1>0, Elements
<1>3. \A m \in Pools : m # n => queue[m] = <<>> /\ current[m] = None
  BY <1>0, Working DEF Drained
<1>4. state[p] \notin {"new", "aside", "running_aside"}
  BY <1>0, <1>1 DEF AcceptedInv
<1>5. state[p] # "running"
  BY <1>0, <1>1, <1>3 DEF KeptInv, Assumptions, ConstantsAssumption
<1>6. state[p] # "queued"
  <2> SUFFICES ASSUME state[p] = "queued" PROVE FALSE
    OBVIOUS
  <2>1. PICK m \in Pools : \E k \in 1..Len(queue[m]) : queue[m][k] = p
    BY <1>0, <1>1 DEF KeptInv
  <2>2. m = n
    <3>1. 1..Len(<<>>) = {}
      OBVIOUS
    <3> QED BY <1>3, <2>1, <3>1
  <2>3. PICK k \in 1..Len(q) : q[k] = p
    BY <2>1, <2>2
  <2>4. p # q[1]
    BY <1>1, <1>2
  <2>5. 1 \in 1..(k - 1)
    <3> HIDE DEF q, p
    <3> QED BY <1>2, <2>3, <2>4
  <2>6. Before(submitted, q[1], p)
    BY <1>0, <2>3, <2>5 DEF AcceptedInv
  <2>7. PICK a \in 1..Len(submitted) :
          submitted[a] = p /\ \E b \in 1..(a - 1) : submitted[b] = q[1]
    BY <2>6 DEF Before
  <2>8. PICK b \in 1..(a - 1) : submitted[b] = q[1]
    BY <2>7
  <2>9. a = i
    BY <1>1, <2>7
  <2>10. b \in 1..Len(submitted) /\ submitted[b] = submitted[j]
    BY <1>1, <1>2, <2>7, <2>8
  <2>11. b = j
    BY <1>1, <2>10
  <2> QED BY <1>1, <2>7, <2>8, <2>9, <2>11
<1> QED BY <1>0, <1>1, <1>4, <1>5, <1>6 DEF TypeOK

LEMMA SubmissionStep ==
  ASSUME Assumptions, IInv, [Next]_vars
  PROVE  SubmissionOrder'
<1>0. /\ TypeOK /\ PoolInv /\ LineInv /\ TaskInv /\ OutcomeInv /\ AcceptedInv
      /\ SubmissionOrder
  BY DEF IInv
<1>a. /\ Len(submitted) \in Nat
      /\ \A i \in 1..Len(submitted) : submitted[i] \in Ops
      /\ \A j \in 1..Len(submitted) : \A i \in 1..(j - 1) : i \in 1..Len(submitted) /\ i # j
  BY <1>0, Accepted
<1>1. ASSUME NEW t \in Tasks, SyncOperation(t) PROVE SubmissionOrder'
  <2>1. Op(t) \in Ops /\ at[t] \in 1..Len(Program[t])
    BY <1>0, <1>1, AtOperation DEF SyncOperation, MayStep
  <2>2. PICK v \in {"ok", "error"} : Perform(Op(t), v)
    BY <1>1 DEF SyncOperation
  <2>3. state[Op(t)] = "new"
    BY <1>0, <1>1, <2>1 DEF SyncOperation, MayStep, TaskInv, Op
  <2> QED BY <1>0, <1>1, <2>1, <2>2, <2>3, NotAccepted, PerformElsewhere DEF SyncOperation
<1>2. ASSUME NEW o \in Ops, FinishAside(o) PROVE SubmissionOrder'
  <2>1. PICK v \in {"ok", "error"} : Perform(o, v)
    BY <1>2 DEF FinishAside
  <2> QED BY <1>0, <1>2, <2>1, NotAccepted, PerformElsewhere DEF FinishAside
<1>3. ASSUME NEW t \in Tasks, FallBack(t) \/ CancelAwait(t) PROVE SubmissionOrder'
  <2>1. Op(t) \in Ops /\ at[t] \in 1..Len(Program[t])
    BY <1>0, <1>3, AtOperation, InOperation DEF FallBack, CancelAwait, MayStep
  <2>2. state[Op(t)] = "new" \/ CancelAwait(t)
    BY <1>0, <1>3, <2>1 DEF FallBack, TaskInv, Op
  <2>3. \A o \in Ops : \/ state'[o] = state[o]
                       \/ state[o] \in {"new", "aside"}
                       \/ state[o] = "queued" /\ state'[o] = "dropped"
    BY <1>0, <1>3, <2>1, <2>2 DEF FallBack, CancelAwait, TypeOK
  <2>4. \A i \in 1..Len(submitted) : state[submitted[i]] \notin {"new", "aside"}
    BY <1>0 DEF AcceptedInv
  <2>5. UNCHANGED <<submitted, performed>>
    BY <1>3 DEF FallBack, CancelAwait, history
  <2> QED BY <1>0, <1>a, <2>3, <2>4, <2>5, SubmissionMoves
<1>4. ASSUME NEW o \in Ops, StartAside(o) PROVE SubmissionOrder'
  <2>1. \A p \in Ops : p # o => state'[p] = state[p]
    BY <1>0, <1>4 DEF StartAside, TypeOK
  <2>2. \A i \in 1..Len(submitted) : submitted[i] # o
    BY <1>0, <1>4, NotAccepted DEF StartAside
  <2> QED BY <1>0, <1>a, <1>4, <2>1, <2>2, SubmissionMoves DEF StartAside, history
<1>5. ASSUME NEW t \in Tasks, Submit(t) PROVE SubmissionOrder'
  <2> DEFINE o == Op(t)
             l == Len(submitted)
  <2>1. o \in Ops /\ at[t] \in 1..Len(Program[t])
    BY <1>0, <1>5, InOperation DEF Submit
  <2>2. state[o] = "new"
    BY <1>0, <1>5, <2>1 DEF Submit, TaskInv, Op
  <2>3. /\ submitted' = Append(submitted, o) /\ performed' = performed
        /\ state' = [state EXCEPT ![o] = "queued"]
    BY <1>5 DEF Submit
  <2>4. \A i \in 1..l : submitted[i] # o
    BY <1>0, <2>2, NotAccepted
  <2>5. ~Done(o)
    BY <1>0, <2>1, <2>2 DEF OutcomeInv
  <2> HIDE DEF o
  <2>6. /\ Len(submitted') = l + 1 /\ submitted'[l + 1] = o
        /\ \A i \in 1..l : submitted'[i] = submitted[i]
    BY <1>0, <2>1, <2>3, Accepted
  <2>7. state'[o] = "queued" /\ \A i \in 1..l : state'[submitted[i]] = state[submitted[i]]
    BY <1>0, <1>a, <2>1, <2>3, <2>4 DEF TypeOK
  <2>8. SUFFICES ASSUME NEW j \in 1..Len(submitted'), NEW i \in 1..(j - 1)
                 PROVE  /\ state'[submitted'[j]] \in {"running", "ok", "error"}
                             => state'[submitted'[i]] \in {"dropped", "ok", "error"}
                        /\ Done(submitted'[i]) /\ Done(submitted'[j])
                             => Before(performed, submitted'[i], submitted'[j])
    <3>1. performed' = performed
      BY <2>3
    <3> QED BY <3>1 DEF SubmissionOrder, Done
  <2>9. CASE j \in 1..l
    <3>1. i \in 1..l /\ submitted'[i] = submitted[i] /\ submitted'[j] = submitted[j]
      BY <1>a, <2>6, <2>9
    <3> QED BY <1>0, <2>7, <2>9, <3>1 DEF SubmissionOrder
  <2>10. CASE j = l + 1
    BY <2>5, <2>6, <2>7, <2>10
  <2> QED BY <1>a, <2>6, <2>9, <2>10
<1>6. ASSUME NEW n \in Pools, TakeItem(n) PROVE SubmissionOrder'
  <2> DEFINE o == Head(queue[n])
  <2>1. o \in Ops /\ state[o] \in {"queued", "dropped"}
    <3>1. queue[n] \in Seq(Ops) /\ queue[n] # <<>>
      BY <1>0, <1>6, Elements DEF TakeItem
    <3>2. o = queue[n][1] /\ 1 \in 1..Len(queue[n])
      BY <3>1
    <3> QED BY <1>0, <3>1, <3>2, Elements DEF LineInv
  <2>2. UNCHANGED <<submitted, performed>>
    BY <1>6 DEF TakeItem, history
  <2>3. CASE state[o] = "dropped"
    BY <1>0, <1>6, <2>2, <2>3, SubmissionMoves DEF TakeItem
  <2>4. CASE state[o] # "dropped"
    <3>1. \A p \in Ops : state'[p] = IF p = o THEN "running" ELSE state[p]
      BY <1>0, <1>6, <2>1, <2>4 DEF TakeItem, TypeOK
    <3> SUFFICES ASSUME NEW j \in 1..Len(submitted), NEW i \in 1..(j - 1)
                 PROVE  /\ state'[submitted[j]] \in {"running", "ok", "error"}
                             => state'[submitted[i]] \in {"dropped", "ok", "error"}
                        /\ Done(submitted[i]) /\ Done(submitted[j])
                             => Before(performed, submitted[i], submitted[j])
      BY <2>2 DEF SubmissionOrder, Done
    <3>2. /\ submitted[i] \in Ops /\ submitted[j] \in Ops
          /\ submitted[i] # submitted[j]
      BY <1>0, <1>a DEF AcceptedInv
    <3>3. /\ Done(submitted[i]) /\ Done(submitted[j])
               => Before(performed, submitted[i], submitted[j])
          /\ state[submitted[j]] \in {"running", "ok", "error"}
               => state[submitted[i]] \in {"dropped", "ok", "error"}
      BY <1>0 DEF SubmissionOrder
    <3>4. CASE submitted[j] = o
      <4>1. state[submitted[i]] \in {"dropped", "ok", "error"}
        BY <1>6, <3>4, FirstInLine DEF TakeItem
      <4> QED BY <3>1, <3>2, <3>3, <3>4, <4>1
    <3>5. CASE submitted[j] # o
      BY <2>1, <2>4, <3>1, <3>2, <3>3, <3>5
    <3> QED BY <3>4, <3>5
  <2> QED BY <2>3, <2>4
<1>7. ASSUME NEW n \in Pools, FinishItem(n) PROVE SubmissionOrder'
  <2>0. current[n] \in Ops /\ state[current[n]] = "running"
    BY <1>0, <1>7, Elements DEF FinishItem, LineInv
  <2>1. PICK o \in Ops : o = current[n] /\ state[o] = "running" /\ submitted' = submitted
    BY <1>7, <2>0 DEF FinishItem
  <2>2. PICK v \in {"ok", "error"} : Perform(o, v)
    BY <1>7, <2>1 DEF FinishItem
  <2>3. ~Done(o)
    BY <1>0, <2>1 DEF OutcomeInv
  <2>4. \A p \in Ops : state'[p] = IF p = o THEN v ELSE state[p]
    BY <1>0, <2>1, <2>2, Effects
  <2> SUFFICES ASSUME NEW j \in 1..Len(submitted), NEW i \in 1..(j - 1)
               PROVE  /\ state'[submitted[j]] \in {"running", "ok", "error"}
                           => state'[submitted[i]] \in {"dropped", "ok", "error"}
                      /\ Done(submitted[i])' /\ Done(submitted[j])'
                           => Before(performed', submitted[i], submitted[j])
    BY <2>1 DEF SubmissionOrder
  <2>6. /\ submitted[i] \in Ops /\ submitted[j] \in Ops
        /\ submitted[i] # submitted[j]
    BY <1>0, <1>a DEF AcceptedInv
  <2>7. /\ Done(submitted[i]) /\ Done(submitted[j])
             => Before(performed, submitted[i], submitted[j])
        /\ state[submitted[j]] \in {"running", "ok", "error"}
             => state[submitted[i]] \in {"dropped", "ok", "error"}
    BY <1>0 DEF SubmissionOrder
  <2>8. Done(submitted[j]) => state[submitted[j]] = "ok"
    BY <1>0, <2>6 DEF OutcomeInv
  <2>9. CASE submitted[j] = o
    <3>1. submitted[i] # o /\ state[submitted[i]] \in {"dropped", "ok", "error"}
      BY <2>1, <2>6, <2>7, <2>9
    <3>2. Done(submitted[i])' => Done(submitted[i])
      BY <1>0, <2>1, <2>2, <3>1, PerformLast
    <3>3. Done(submitted[i])' /\ Done(o)' => Before(performed', submitted[i], o)
      BY <1>0, <2>1, <2>2, <2>3, <3>2, PerformLast
    <3> QED BY <2>1, <2>4, <2>6, <2>9, <3>1, <3>3
  <2>10. CASE submitted[i] = o
    <3>1. submitted[j] # o /\ state[submitted[j]] \notin {"running", "ok", "error"}
      BY <2>1, <2>6, <2>7, <2>10
    <3>2. ~Done(submitted[j])'
      BY <1>0, <2>1, <2>2, <2>8, <3>1, PerformLast
    <3> QED BY <2>4, <2>6, <3>1, <3>2
  <2>11. CASE submitted[i] # o /\ submitted[j] # o
    <3>1. /\ Done(submitted[i])' => Done(submitted[i])
          /\ Done(submitted[j])' => Done(submitted[j])
      BY <1>0, <2>1, <2>2, <2>11, PerformLast
    <3>2. Done(submitted[i])' /\ Done(submitted[j])'
            => Before(performed', submitted[i], submitted[j])
      BY <1>0, <2>1, <2>2, <2>7, <3>1, PerformLast
    <3> QED BY <2>4, <2>6, <2>7, <2>11, <3>2
  <2> QED BY <2>9, <2>10, <2>11
<1>8. CASE UNCHANGED <<submitted, performed, state>>
  BY <1>0, <1>8, SubmissionMoves
<1> QED BY <1>1, <1>2, <1>3, <1>4, <1>5, <1>6, <1>7, <1>8
        DEF Next, TaskStep, Work, AsyncOperation, GetExecutor, Resume, ShutdownBegins,
            ShutdownDrains, ShutdownEnds, Exit, vars, workVars, history

-----------------------------------------------------------------------------
(* Invariants of the specification. *)

LEMMA InitInv ==
  ASSUME Assumptions, Init
  PROVE  IInv
<1>1. TypeOK
  <2>1. <<>> \in Seq(Ops)
    OBVIOUS
  <2>2. queue \in [Pools -> Seq(Ops)] /\ submitted \in Seq(Ops) /\ performed \in Seq(Ops)
    BY <2>1 DEF Init
  <2>3. at \in [Tasks -> Nat \ {0}] /\ held \in [Tasks -> Nat] /\ pools \in Nat
    BY DEF Init
  <2> QED BY <2>2, <2>3 DEF Init, TypeOK
<1>2. PoolInv
  BY DEF Init, PoolInv, Assumptions, ConstantsAssumption
<1>3. LineInv /\ KeptInv
  BY DEF Init, LineInv, KeptInv, Drained
<1>4. TaskInv
  BY Places, <1>1 DEF Init, TaskInv
<1>5. OutcomeInv /\ ProgramOrder
  <2>1. 1..Len(performed) = {}
    BY DEF Init
  <2> QED BY <2>1 DEF Init, OutcomeInv, Done, ProgramOrder, Before
<1>6. AcceptedInv /\ SubmissionOrder
  <2>1. 1..Len(submitted) = {} /\ \A n \in Pools : 1..Len(queue[n]) = {}
    BY DEF Init
  <2> QED BY <2>1 DEF AcceptedInv, SubmissionOrder
<1> QED BY <1>1, <1>2, <1>3, <1>4, <1>5, <1>6 DEF IInv

\* The inductive invariant, for any tasks, loops, programs and restarts.
THEOREM Invariance == Spec => []IInv
<1>0. Assumptions
  BY ConstantsAssumption, ProgramsAssumption DEF Assumptions
<1>1. Init => IInv
  BY <1>0, InitInv
<1>2. IInv /\ [Next]_vars => IInv'
  <2> SUFFICES ASSUME IInv, [Next]_vars PROVE IInv'
    OBVIOUS
  <2> QED BY <1>0, TypeStep, PoolStep, LineStep, KeptStep, TaskStepInv, OutcomeStep,
             AcceptedStep, OrderStep, SubmissionStep
          DEF IInv
<1> QED BY <1>1, <1>2, PTL DEF Spec

\* Type correctness: no pool is created beyond those the bound accounts for, and
\* every queue holds operations.
THEOREM TypeCorrect == Spec => []TypeOK
<1>1. IInv => TypeOK
  BY DEF IInv
<1> QED BY <1>1, Invariance, PTL

\* end() never overtakes a write that its task has awaited, on whichever path
\* the two of them run.
THEOREM InProgramOrder == Spec => []ProgramOrder
<1>1. IInv => ProgramOrder
  BY DEF IInv
<1> QED BY <1>1, Invariance, PTL

\* What the pools accepted, from whichever tasks and loops, begins and takes
\* effect in the order of acceptance, across the shutdowns between two pools.
THEOREM InSubmissionOrder == Spec => []SubmissionOrder
<1>1. IInv => SubmissionOrder
  BY DEF IInv
<1> QED BY <1>1, Invariance, PTL

\* What a task is told of an operation is what happened to it, across shutdowns,
\* cancellations and the exit.
THEOREM Truthful == Spec => []ToldTheTruth
<1>1. IInv => ToldTheTruth
  <2> SUFFICES ASSUME IInv, NEW o \in Ops
               PROVE  /\ ~Before(performed, o, o)
                      /\ ret[o] = "ok" => Done(o)
                      /\ ret[o] \in {"error", "refused"} => ~Done(o)
    BY DEF ToldTheTruth
  <2>1. OutcomeInv /\ Len(performed) \in Nat
    BY DEF IInv, TypeOK
  <2>2. ~Before(performed, o, o)
    BY <2>1 DEF OutcomeInv, Before
  <2> QED BY <2>1, <2>2 DEF OutcomeInv
<1> QED BY <1>1, Invariance, PTL

\* The process does not end with an operation it accepted or took over.
THEOREM Complete == Spec => []NothingForgotten
<1>1. IInv => NothingForgotten
  <2> SUFFICES ASSUME IInv, phase = "over", NEW o \in Ops
               PROVE  state[o] \in {"new", "dropped", "ok", "error"}
    BY DEF NothingForgotten
  <2>1. /\ state[o] \notin {"aside", "running_aside"}
        /\ \A n \in Pools : queue[n] = <<>> /\ current[n] = None
    BY DEF IInv, KeptInv, Drained
  <2>2. state[o] # "queued"
    BY <2>1 DEF IInv, KeptInv
  <2>3. state[o] # "running"
    BY <2>1, ConstantsAssumption DEF IInv, KeptInv
  <2> QED BY <2>1, <2>2, <2>3 DEF IInv, TypeOK
<1> QED BY <1>1, Invariance, PTL

-----------------------------------------------------------------------------
(* StreamExecutor implements OrderedOperations. *)

LEMMA FateStep ==
  ASSUME TypeOK, NEW o \in Ops, NEW s, state' = [state EXCEPT ![o] = s]
  PROVE  Fate' = [Fate EXCEPT ![o] = FateOf(s)]
BY DEF Fate, TypeOK

LEMMA EndsStep ==
  ASSUME TypeOK, NEW o \in Ops, NEW v \in {"ok", "error"}, Perform(o, v)
  PROVE  Ordered!Ends(o) /\ Fate'[o] = v
<1>1. Fate' = [Fate EXCEPT ![o] = v]
  BY FateStep DEF Perform, FateOf
<1>2. Fate'[o] = v
  BY <1>1 DEF Fate
<1> QED BY <1>1, <1>2 DEF Perform, Ordered!Ends

LEMMA StutterStep ==
  ASSUME UNCHANGED <<pools, queue, current, state, ret, performed>>
  PROVE  UNCHANGED Ordered!vars
BY DEF Ordered!vars, LastPool, Fate

LEMMA OrderedStep ==
  ASSUME Assumptions, IInv, [Next]_vars
  PROVE  [Ordered!Next]_(Ordered!vars)
<1>0. TypeOK /\ PoolInv /\ LineInv /\ TaskInv /\ OutcomeInv
  BY DEF IInv
<1>1. UNCHANGED pools => LastPool' = LastPool
  BY DEF LastPool
<1>2. ASSUME NEW t \in Tasks, SyncOperation(t) PROVE Ordered!Next
  <2>1. Op(t) \in Ops /\ at[t] \in 1..Len(Program[t])
    BY <1>0, <1>2, AtOperation DEF SyncOperation, MayStep
  <2>2. PICK v \in {"ok", "error"} : Perform(Op(t), v) /\ ReturnToTask(t, v)
    BY <1>2 DEF SyncOperation
  <2>3. Fate[Op(t)] = "new" /\ ret[Op(t)] = "none"
    BY <1>0, <1>2, <2>1 DEF SyncOperation, MayStep, TaskInv, Op, Fate, FateOf
  <2>4. Ordered!AtOnce(Op(t))
    BY <1>0, <1>1, <1>2, <2>1, <2>2, <2>3, EndsStep
       DEF SyncOperation, ReturnToTask, poolVars, Ordered!AtOnce
  <2> QED BY <2>1, <2>4 DEF Ordered!Next
<1>3. ASSUME NEW t \in Tasks, AsyncOperation(t) PROVE UNCHANGED Ordered!vars
  BY <1>3, StutterStep DEF AsyncOperation, poolVars, workVars, history
<1>4. ASSUME NEW t \in Tasks, GetExecutor(t) PROVE UNCHANGED Ordered!vars
  <2>1. CASE pool = "open"
    BY <1>4, <2>1, StutterStep DEF GetExecutor, workVars, history
  <2>2. CASE pool # "open"
    <3>1. pool = "none" /\ UNCHANGED <<workVars, ret, performed>>
      BY <1>0, <1>4, <2>2 DEF GetExecutor, PoolInv, TypeOK, history
    <3>2. \A n \in Pools : queue[n] = <<>> /\ current[n] = None
      BY <1>0, <3>1 DEF LineInv, Drained
    <3>3. LastPool \in Pools /\ LastPool' \in Pools
      <4>1. pools' = pools + 1 /\ phase # "over" /\ pools \in Nat /\ MaxPools \in Nat
        BY <1>0, <1>4, <2>2 DEF GetExecutor, TypeOK, Assumptions, ConstantsAssumption
      <4>2. pools' \in 1..(MaxPools + 2)
        BY <1>0, <2>2, <4>1 DEF PoolInv
      <4> QED BY <1>0, <4>1, <4>2, LastOfPools DEF LastPool, Pools
    <3> QED BY <3>1, <3>2, <3>3 DEF Ordered!vars, Fate, workVars
  <2> QED BY <2>1, <2>2
<1>5. ASSUME NEW t \in Tasks, Submit(t) PROVE Ordered!Next
  <2>1. Op(t) \in Ops /\ at[t] \in 1..Len(Program[t])
    BY <1>0, <1>5, InOperation DEF Submit
  <2>2. Fate[Op(t)] = "new" /\ ret[Op(t)] = "none"
    BY <1>0, <1>5, <2>1 DEF Submit, TaskInv, Op, Fate, FateOf
  <2>3. LastPool = pools /\ pools \in Pools /\ LastPool' = pools
    BY <1>0, <1>1, <1>5, OpenPool DEF Submit, Accepts, poolVars
  <2>4. queue'[LastPool'] = Append(queue[LastPool], Op(t))
    BY <1>0, <1>5, <2>3 DEF Submit, TypeOK
  <2>5. Fate' = [Fate EXCEPT ![Op(t)] = "waiting"]
    BY <1>0, <1>5, <2>1, FateStep DEF Submit, FateOf
  <2>6. Ordered!Accept(Op(t))
    BY <1>5, <2>2, <2>3, <2>4, <2>5 DEF Submit, Ordered!Accept
  <2> QED BY <2>1, <2>6 DEF Ordered!Next
<1>6. ASSUME NEW t \in Tasks, FallBack(t) PROVE Ordered!Next
  <2>1. Op(t) \in Ops /\ at[t] \in 1..Len(Program[t])
    BY <1>0, <1>6, InOperation DEF FallBack
  <2>2. Fate[Op(t)] = "new" /\ ret[Op(t)] = "none"
    BY <1>0, <1>6, <2>1 DEF FallBack, TaskInv, Op, Fate, FateOf
  <2>3. UNCHANGED <<queue, current, performed>> /\ LastPool' = LastPool
    BY <1>1, <1>6 DEF FallBack, poolVars, history
  <2>4. CASE phase = "running"
    <3>1. state' = [state EXCEPT ![Op(t)] = "aside"] /\ ret' = ret
      BY <1>6, <2>4 DEF FallBack
    <3>2. Fate' = [Fate EXCEPT ![Op(t)] = "beside"]
      BY <1>0, <2>1, <3>1, FateStep DEF FateOf
    <3>3. Ordered!Leave(Op(t))
      BY <2>2, <2>3, <3>1, <3>2 DEF Ordered!Leave
    <3> QED BY <2>1, <3>3 DEF Ordered!Next
  <2>5. CASE phase # "running"
    <3>1. ret' = [ret EXCEPT ![Op(t)] = "refused"] /\ Fate' = Fate
      BY <1>6, <2>5 DEF FallBack, ReturnToTask, Fate
    <3>2. Ordered!Tell(Op(t))
      BY <2>2, <2>3, <3>1 DEF Ordered!Tell
    <3> QED BY <2>1, <3>2 DEF Ordered!Next
  <2> QED BY <2>4, <2>5
<1>7. ASSUME NEW t \in Tasks, Resume(t) PROVE Ordered!Next
  <2>1. Op(t) \in Ops /\ at[t] \in 1..Len(Program[t])
    BY <1>0, <1>7, AtOperation DEF Resume, MayStep
  <2>2. Fate[Op(t)] = state[Op(t)] /\ state[Op(t)] \in {"ok", "error"} /\ ret[Op(t)] = "none"
    BY <1>0, <1>7, <2>1 DEF Resume, MayStep, TaskInv, Op, Fate, FateOf
  <2>3. /\ UNCHANGED <<queue, current, performed>> /\ LastPool' = LastPool /\ Fate' = Fate
        /\ ret' = [ret EXCEPT ![Op(t)] = state[Op(t)]]
    BY <1>1, <1>7 DEF Resume, ReturnToTask, poolVars, workVars, history, Fate
  <2>4. Ordered!Tell(Op(t))
    BY <2>2, <2>3 DEF Ordered!Tell
  <2> QED BY <2>1, <2>4 DEF Ordered!Next
<1>8. ASSUME NEW t \in Tasks, CancelAwait(t) PROVE Ordered!Next
  <2>1. Op(t) \in Ops /\ at[t] \in 1..Len(Program[t])
    BY <1>0, <1>8, AtOperation DEF CancelAwait, MayStep
  <2>2. /\ Fate[Op(t)] = FateOf(state[Op(t)]) /\ state[Op(t)] \notin {"new", "dropped"}
        /\ ret[Op(t)] = "none"
    BY <1>0, <1>8, <2>1 DEF CancelAwait, MayStep, TaskInv, Op, Fate
  <2>3. /\ UNCHANGED <<queue, current, performed>> /\ LastPool' = LastPool
        /\ ret' = [ret EXCEPT ![Op(t)] = "cancelled"]
    BY <1>1, <1>8 DEF CancelAwait, ReturnToTask, poolVars, history
  <2>4. Fate[Op(t)] # "new"
    BY <2>2 DEF FateOf
  <2>5. CASE state[Op(t)] \in {"queued", "aside"}
    <3>1. Fate' = [Fate EXCEPT ![Op(t)] = "withdrawn"]
      BY <1>0, <1>8, <2>1, <2>5, FateStep DEF CancelAwait, FateOf
    <3>2. Fate[Op(t)] \in {"waiting", "beside"}
      BY <2>2, <2>5 DEF FateOf
    <3>3. Ordered!Cancel(Op(t))
      BY <2>2, <2>3, <2>4, <3>1, <3>2 DEF Ordered!Cancel
    <3> QED BY <2>1, <3>3 DEF Ordered!Next
  <2>6. CASE state[Op(t)] \notin {"queued", "aside"}
    <3>1. Fate' = Fate
      BY <1>8, <2>6 DEF CancelAwait, Fate
    <3>2. Fate[Op(t)] # "waiting"
      BY <1>0, <2>1, <2>2, <2>6 DEF FateOf, TypeOK
    <3>3. Ordered!Cancel(Op(t))
      BY <2>2, <2>3, <2>4, <3>1, <3>2 DEF Ordered!Cancel
    <3> QED BY <2>1, <3>3 DEF Ordered!Next
  <2> QED BY <2>5, <2>6
<1>9. ASSUME NEW n \in Pools, TakeItem(n) PROVE Ordered!Next
  <2>1. queue[n] \in Seq(Ops) /\ queue[n] # <<>> /\ current[n] = None
    BY <1>0, <1>9, Elements DEF TakeItem
  <2>2. Head(queue[n]) = queue[n][1] /\ 1 \in 1..Len(queue[n]) /\ Head(queue[n]) \in Ops
    BY <2>1
  <2>3. n = LastPool /\ LastPool' = LastPool
    BY <1>0, <1>1, <1>9, Working DEF TakeItem, Drained, poolVars
  <2>4. queue'[LastPool'] = Tail(queue[LastPool]) /\ UNCHANGED <<ret, performed>>
    BY <1>0, <1>9, <2>3 DEF TakeItem, TypeOK, taskVars, history
  <2>5. CASE state[Head(queue[n])] = "dropped"
    <3>1. UNCHANGED <<current, state>> /\ Fate[Head(queue[n])] = "withdrawn"
      BY <1>9, <2>2, <2>5 DEF TakeItem, Fate, FateOf
    <3>2. Fate' = Fate
      BY <3>1 DEF Fate
    <3> QED BY <2>1, <2>3, <2>4, <3>1, <3>2 DEF Ordered!Serve, Ordered!Next
  <2>6. CASE state[Head(queue[n])] # "dropped"
    <3>1. state[Head(queue[n])] = "queued"
      BY <1>0, <2>2, <2>6 DEF LineInv
    <3>2. /\ state' = [state EXCEPT ![Head(queue[n])] = "running"]
          /\ current' = [current EXCEPT ![n] = Head(queue[n])]
      BY <1>9, <2>6 DEF TakeItem
    <3>3. Fate' = [Fate EXCEPT ![Head(queue[n])] = "begun"]
      BY <1>0, <2>2, <3>2, FateStep DEF FateOf
    <3>4. Fate[Head(queue[n])] = "waiting" /\ current'[n] = Head(queue[n])
      BY <1>0, <2>2, <3>1, <3>2 DEF Fate, FateOf, TypeOK
    <3> QED BY <2>1, <2>3, <2>4, <3>3, <3>4 DEF Ordered!Serve, Ordered!Next
  <2> QED BY <2>5, <2>6
<1>10. ASSUME NEW n \in Pools, FinishItem(n) PROVE Ordered!Next
  <2>1. current[n] \in Ops /\ current[n] # None /\ state[current[n]] = "running"
    BY <1>0, <1>10, Elements DEF FinishItem, LineInv
  <2>2. PICK v \in {"ok", "error"} : Perform(current[n], v)
    BY <1>10 DEF FinishItem
  <2>3. n = LastPool /\ LastPool' = LastPool
    BY <1>0, <1>1, <1>10, Working DEF FinishItem, Drained, poolVars
  <2>4. current'[n] = None /\ UNCHANGED <<queue, ret>>
    BY <1>0, <1>10 DEF FinishItem, TypeOK, taskVars
  <2>5. Fate[current[n]] = "begun"
    BY <2>1 DEF Fate, FateOf
  <2>6. Ordered!Ends(current[n])
    BY <1>0, <2>1, <2>2, EndsStep
  <2> QED BY <2>1, <2>3, <2>4, <2>5, <2>6 DEF Ordered!Complete, Ordered!Next
<1>11. ASSUME NEW o \in Ops, StartAside(o) PROVE UNCHANGED Ordered!vars
  <2>1. Fate' = Fate
    BY <1>0, <1>11 DEF StartAside, Fate, FateOf, TypeOK
  <2> QED BY <1>1, <1>11, <2>1 DEF StartAside, poolVars, taskVars, history, Ordered!vars
<1>12. ASSUME NEW o \in Ops, FinishAside(o) PROVE Ordered!Next
  <2>1. PICK v \in {"ok", "error"} : Perform(o, v)
    BY <1>12 DEF FinishAside
  <2>2. Fate[o] = "beside" /\ UNCHANGED <<queue, current, ret>> /\ LastPool' = LastPool
    BY <1>1, <1>12 DEF FinishAside, Fate, FateOf, poolVars, taskVars
  <2>3. Ordered!CompleteBeside(o)
    BY <1>0, <2>1, <2>2, EndsStep DEF Ordered!CompleteBeside
  <2> QED BY <2>3 DEF Ordered!Next
<1>13. CASE ShutdownBegins \/ ShutdownDrains \/ ShutdownEnds \/ Exit \/ UNCHANGED vars
  BY <1>13, StutterStep
     DEF ShutdownBegins, ShutdownDrains, ShutdownEnds, Exit, vars, poolVars, taskVars, workVars, history
<1> QED BY <1>2, <1>3, <1>4, <1>5, <1>6, <1>7, <1>8, <1>9, <1>10, <1>11, <1>12, <1>13
        DEF Next, TaskStep, Work

\* The pools, their worker, the fallback, the restarts and the exit are one line
\* of operations: the detailed specification implements the abstract one.
THEOREM Implements == Spec => OrderedSpec
<1>0. Assumptions
  BY ConstantsAssumption, ProgramsAssumption DEF Assumptions
<1>1. Init => Ordered!Init
  <2> SUFFICES ASSUME Init PROVE Ordered!Init
    OBVIOUS
  <2>1. LastPool = 1 /\ 1 \in Pools
    BY <1>0 DEF Init, LastPool, Pools, Assumptions, ConstantsAssumption
  <2>2. Fate = [o \in Ops |-> "new"]
    BY DEF Init, Fate, FateOf
  <2> QED BY <2>1, <2>2 DEF Init, Ordered!Init
<1>2. IInv /\ [Next]_vars => [Ordered!Next]_(Ordered!vars)
  BY <1>0, OrderedStep
<1> QED BY <1>1, <1>2, Invariance, PTL DEF Spec, OrderedSpec, Ordered!Spec
=============================================================================
