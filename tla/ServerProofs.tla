---------------------------- MODULE ServerProofs ----------------------------
(***************************************************************************)
(* Proofs about Server, for any requests, workers and sizes of the pool.   *)
(*                                                                         *)
(* That connections are bounded rests on there being one pool at a time:   *)
(* every pool but the current one is closed, a new one is created only     *)
(* under the mutex and while there is none, and db.Close forgets the       *)
(* current one when all its connections are back.                          *)
(***************************************************************************)
EXTENDS Server, FiniteSetTheorems, TLAPS

\* One pool at a time: whoever creates one holds the mutex, and so does main while
\* it waits for the connections.
OnePool ==
  /\ closed \subseteq 1 .. created /\ pool \in 0 .. created
  /\ \A i \in 1 .. created : i \in closed \/ i = pool
  /\ main = "waiting" => mu = Main
  /\ \A t \in Tasks : /\ task[t].pc = "create" => mu = t /\ pool = 0
                      /\ task[t].pc \in {"acquire", "holding"} =>
                           task[t].ptr \in 1 .. created
                      /\ task[t].conn # 0 => task[t].conn = pool

Counted == IsFiniteSet(Holders) /\ ConnectionsBounded

\* Who has waited for the requests finds them gone, and none comes.
Waited ==
  /\ main # "serving" => accepting = FALSE
  /\ ~late /\ main \notin {"serving", "draining"} =>
       \A r \in Requests : task[r].pc = "idle"
  /\ main \in {"serving", "draining", "closing"} => closed = {}
  /\ main = "waiting" => pool \in closed
  /\ ~late => cut \cap Requests = {}

IInv == TypeOK /\ OnePool /\ Counted /\ Waited

-----------------------------------------------------------------------------
\* At first there is no pool.
LEMMA InvInit == Init => IInv
<1> SUFFICES ASSUME Init PROVE IInv
  OBVIOUS
<1>1. Holders = {}
  BY DEF Init, Holders, Idle
<1>2. TypeOK
  BY DEF Init, TypeOK, Idle, TaskStates
<1>4. OnePool
  BY DEF Init, OnePool, Idle
<1>5. Waited
  BY DEF Init, Waited
<1>3. Counted
  BY <1>1, FS_EmptySet, PoolHasRoom DEF Counted, ConnectionsBounded
<1> QED
  BY <1>2, <1>3, <1>4, <1>5 DEF IInv

\* A step of a task that takes no connection and creates no pool.
LEMMA TaskSteps ==
  ASSUME IInv, UNCHANGED <<mainVars, poolVars, cut>>, NEW t \in Tasks,
         NEW s \in TaskStates, task' = [task EXCEPT ![t] = s],
         s.pc # "create", s.conn \in {0, task[t].conn},
         s.pc \in {"acquire", "holding"} => s.ptr \in 1 .. created,
         s.pc # "idle" => task[t].pc # "idle" \/ t \in Workers \/ accepting
  PROVE  IInv'
<1> USE DEF mainVars, poolVars
<1>1. /\ task' \in [Tasks -> TaskStates] /\ task'[t] = s
      /\ \A u \in Tasks \ {t} : task'[u] = task[u]
  BY DEF IInv, TypeOK
<1>2. TypeOK'
  BY <1>1 DEF IInv, TypeOK
<1>3. OnePool'
  BY <1>1 DEF IInv, OnePool
<1>4. Counted'
  <2>1. Holders' \subseteq Holders
    BY <1>1 DEF Holders
  <2>2. IsFiniteSet(Holders') /\ Cardinality(Holders') <= Cardinality(Holders)
    BY <2>1, FS_Subset DEF IInv, Counted
  <2>3. Cardinality(Holders) \in Nat /\ Cardinality(Holders') \in Nat
    BY <2>2, FS_CardinalityType DEF IInv, Counted
  <2> QED
    BY <2>2, <2>3, PoolHasRoom DEF IInv, Counted, ConnectionsBounded
<1>5. Waited'
  BY <1>1, TasksDiffer DEF IInv, TypeOK, Waited, Tasks
<1> QED
  BY <1>2, <1>3, <1>4, <1>5 DEF IInv

\* A task that finds no pool takes the mutex.
LEMMA LockSteps ==
  ASSUME IInv, NEW t \in Tasks, Pool(t), pool = 0
  PROVE  IInv'
<1> USE DEF mainVars
<1>1. /\ task' \in [Tasks -> TaskStates] /\ mu = None /\ mu' = t
      /\ task'[t].pc = "create" /\ task'[t].conn = task[t].conn
      /\ task[t].pc = "pool"
      /\ \A u \in Tasks \ {t} : task'[u] = task[u]
  BY DEF IInv, TypeOK, Pool, Lock, Moves, Becomes, TaskStates
<1>2. TypeOK'
  BY <1>1 DEF IInv, TypeOK, Pool
<1>3. OnePool'
  BY <1>1, TasksDiffer DEF IInv, OnePool, Pool, Tasks
<1>4. Holders' = Holders
  BY <1>1 DEF Holders
<1>5. Waited'
  BY <1>1, TasksDiffer DEF IInv, TypeOK, Waited, Tasks, Pool
<1> QED
  BY <1>2, <1>3, <1>4, <1>5 DEF IInv, Counted, ConnectionsBounded

\* A new pool has no connections, and there is no other.
LEMMA CreateSteps ==
  ASSUME IInv, NEW t \in Tasks, NewWithConfig(t)
  PROVE  IInv'
<1> USE DEF mainVars
<1>1. /\ task' \in [Tasks -> TaskStates]
      /\ task'[t].pc = "acquire" /\ task'[t].ptr = created + 1
      /\ task'[t].conn = task[t].conn /\ task[t].pc = "create"
      /\ \A u \in Tasks \ {t} : task'[u] = task[u]
  <2>1. task[t] \in TaskStates /\ created + 1 \in Nat
    BY DEF IInv, TypeOK
  <2>2. [task[t] EXCEPT !.pc = "acquire", !.ptr = created + 1] \in TaskStates
    BY <2>1 DEF TaskStates
  <2> QED
    BY <2>1, <2>2 DEF IInv, TypeOK, NewWithConfig, Becomes, TaskStates
<1>2. TypeOK'
  BY <1>1 DEF IInv, TypeOK, NewWithConfig
<1>3. /\ mu = t /\ pool = 0 /\ main # "waiting"
      /\ \A u \in Tasks : task[u].conn = 0 /\ (task[u].pc = "create" => u = t)
  BY <1>1, TasksDiffer DEF IInv, OnePool, Tasks
<1>4. OnePool'
  BY <1>1, <1>3 DEF IInv, TypeOK, OnePool, NewWithConfig
<1>5. Holders' = Holders
  BY <1>1 DEF Holders
<1>6. Waited'
  BY <1>1, <1>3, TasksDiffer DEF IInv, TypeOK, Waited, Tasks, NewWithConfig
<1> QED
  BY <1>2, <1>4, <1>5, <1>6 DEF IInv, Counted, ConnectionsBounded

\* A task that fails to create a pool returns the mutex.
LEMMA PoolFailsSteps ==
  ASSUME IInv, NEW t \in Tasks, PoolFails(t)
  PROVE  IInv'
<1> USE DEF mainVars
<1>1. /\ task' \in [Tasks -> TaskStates]
      /\ task'[t].pc = "running" /\ task'[t].conn = task[t].conn
      /\ task[t].pc = "create"
      /\ \A u \in Tasks \ {t} : task'[u] = task[u]
  <2>1. [task[t] EXCEPT !.pc = "running", !.ptr = 0] \in TaskStates
    BY DEF IInv, TypeOK, TaskStates
  <2> QED
    BY <2>1 DEF IInv, TypeOK, PoolFails, Back, Becomes, TaskStates
<1>2. TypeOK'
  BY <1>1 DEF IInv, TypeOK, PoolFails
<1>3. /\ mu = t /\ main # "waiting"
      /\ \A u \in Tasks : task[u].pc = "create" => u = t
  BY <1>1, TasksDiffer DEF IInv, OnePool, Tasks
<1>4. OnePool'
  BY <1>1, <1>3 DEF IInv, TypeOK, OnePool, PoolFails
<1>5. Holders' = Holders
  BY <1>1 DEF Holders
<1>6. Waited'
  BY <1>1, <1>3, TasksDiffer DEF IInv, TypeOK, Waited, Tasks, PoolFails
<1> QED
  BY <1>2, <1>4, <1>5, <1>6 DEF IInv, Counted, ConnectionsBounded

\* A connection is taken of the current pool, which has one left, and all that are
\* held are of that pool.
LEMMA AcquireSteps ==
  ASSUME IInv, NEW t \in Tasks, Acquire(t)
  PROVE  IInv'
<1> USE DEF mainVars, poolVars
<1> DEFINE p == task[t].ptr
<1>1. task[t] \in TaskStates /\ p \in 1 .. created /\ created \in Nat
  BY DEF IInv, TypeOK, OnePool, Acquire
<1>2. CASE p \in closed
  <2>1. /\ task' \in [Tasks -> TaskStates]
        /\ task'[t].pc = "running" /\ task'[t].conn = task[t].conn
        /\ task[t].pc = "acquire" /\ cut' = cut \cup {t}
        /\ \A u \in Tasks \ {t} : task'[u] = task[u]
    <3>1. [task[t] EXCEPT !.pc = "running", !.ptr = 0] \in TaskStates
      BY <1>1 DEF TaskStates
    <3>2. /\ Becomes(t, [task[t] EXCEPT !.pc = "running", !.ptr = 0])
          /\ cut' = cut \cup {t} /\ task[t].pc = "acquire"
      BY <1>2 DEF Acquire, Back
    <3>3. task \in [Tasks -> TaskStates]
      BY DEF IInv, TypeOK
    <3> QED
      BY <1>1, <3>1, <3>2, <3>3 DEF Becomes, TaskStates
  <2>2. TypeOK' /\ OnePool'
    BY <2>1 DEF IInv, TypeOK, OnePool, Acquire
  <2>3. Holders' = Holders
    BY <2>1 DEF Holders
  <2>4. Waited'
    BY <1>2, <2>1, TasksDiffer DEF IInv, TypeOK, Waited, Tasks, Acquire
  <2> QED
    BY <2>2, <2>3, <2>4 DEF IInv, Counted, ConnectionsBounded
<1>3. CASE p \notin closed
  <2>1. /\ task' \in [Tasks -> TaskStates]
        /\ task'[t].pc = "holding" /\ task'[t].conn = p /\ task'[t].ptr = p
        /\ task[t].pc = "acquire" /\ cut' = cut
        /\ \A u \in Tasks \ {t} : task'[u] = task[u]
    <3>1. p \in Nat
      BY <1>1
    <3>2. [task[t] EXCEPT !.pc = "holding", !.conn = p] \in TaskStates
      BY <1>1, <3>1 DEF TaskStates
    <3>3. /\ Becomes(t, [task[t] EXCEPT !.pc = "holding", !.conn = p])
          /\ cut' = cut /\ task[t].pc = "acquire"
      BY <1>3 DEF Acquire
    <3>4. task \in [Tasks -> TaskStates]
      BY DEF IInv, TypeOK
    <3> QED
      BY <1>1, <3>2, <3>3, <3>4 DEF Becomes, TaskStates
  <2>2. p = pool
    BY <1>1, <1>3 DEF IInv, OnePool
  <2>3. TypeOK' /\ OnePool'
    BY <2>1, <2>2 DEF IInv, TypeOK, OnePool, Acquire
  <2>4. Holders' = Holders \cup {t} /\ Holders = Connected(p)
    BY <1>1, <2>1, <2>2 DEF Holders, Connected, IInv, OnePool
  <2>5. Counted'
    <3>1. IsFiniteSet(Holders) /\ Cardinality(Holders) < MaxConns
      BY <2>4 DEF IInv, Counted, Acquire
    <3>2. /\ IsFiniteSet(Holders') /\ Cardinality(Holders) \in Nat
          /\ Cardinality(Holders') \in {Cardinality(Holders), Cardinality(Holders) + 1}
      BY <2>4, <3>1, FS_AddElement, FS_CardinalityType
    <3> QED
      BY <3>1, <3>2, PoolHasRoom DEF Counted, ConnectionsBounded
  <2>6. Waited'
    BY <2>1, TasksDiffer DEF IInv, TypeOK, Waited, Tasks, Acquire
  <2> QED
    BY <2>3, <2>5, <2>6 DEF IInv
<1> QED
  BY <1>2, <1>3

\* The tasks preserve the invariant.
LEMMA InvTask ==
  ASSUME IInv, NEW t \in Tasks,
         \/ Statement(t)
         \/ AcquireFails(t)
         \/ (t \in Requests /\ Serve(t))
         \/ (t \in Workers /\ (runWorkerOnce(t) \/ WorkerReturns(t)))
  PROVE  IInv'
<1>0. /\ task[t] \in TaskStates /\ created \in Nat /\ pool \in Nat
      /\ task[t].left > 0 => task[t].left - 1 \in Nat
  BY DEF IInv, TypeOK, TaskStates
<1>1. CASE (t \in Requests /\ Serve(t)) \/ (t \in Workers /\ runWorkerOnce(t))
  <2>1. PICK n \in 0 .. MaxStatements :
          Becomes(t, [Idle EXCEPT !.pc = "running", !.left = n])
    BY <1>1 DEF Serve, runWorkerOnce, Begins
  <2> DEFINE s == [Idle EXCEPT !.pc = "running", !.left = n]
  <2>2. n \in Nat
    BY <2>1, PoolHasRoom
  <2>3. s \in TaskStates /\ s.pc = "running" /\ s.conn = 0
    BY <2>2 DEF Idle, TaskStates
  <2>4. task' = [task EXCEPT ![t] = s]
    BY <2>1 DEF Becomes
  <2>5. UNCHANGED <<mainVars, poolVars, cut>> /\ (t \in Workers \/ accepting)
    BY <1>1 DEF Serve, runWorkerOnce, Begins
  <2> HIDE DEF s
  <2> QED
    BY <2>3, <2>4, <2>5, TaskSteps
<1>2. CASE t \in Workers /\ WorkerReturns(t)
  <2>1. [task[t] EXCEPT !.pc = "returned"] \in TaskStates
    BY <1>0, <1>2 DEF TaskStates, WorkerReturns, Idle
  <2> QED
    BY <1>0, <1>2, <2>1, TaskSteps DEF WorkerReturns, Moves, Becomes, TaskStates
<1>3. CASE CallsPool(t)
  <2>1. [task[t] EXCEPT !.pc = "pool", !.left = task[t].left - 1] \in TaskStates
    BY <1>0, <1>3 DEF TaskStates, CallsPool, Idle
  <2> QED
    BY <1>0, <1>3, <2>1, TaskSteps DEF CallsPool, MayCall, Becomes, TaskStates
<1>4. CASE Pool(t) /\ pool # 0
  <2> DEFINE s == [task[t] EXCEPT !.pc = "acquire", !.ptr = pool]
  <2>1. s \in TaskStates /\ s.pc = "acquire" /\ s.ptr = pool /\ s.conn = task[t].conn
    BY <1>0 DEF TaskStates
  <2>2. /\ task' = [task EXCEPT ![t] = s] /\ task[t].pc = "pool"
        /\ UNCHANGED <<mainVars, poolVars, cut>>
    BY <1>4 DEF Pool, Becomes, poolVars
  <2>3. pool \in 1 .. created
    BY <1>0, <1>4 DEF IInv, OnePool
  <2> HIDE DEF s
  <2> QED
    BY <2>1, <2>2, <2>3, TaskSteps
<1>5. CASE Pool(t) /\ pool = 0
  BY <1>5, LockSteps
<1>6. CASE NewWithConfig(t)
  BY <1>6, CreateSteps
<1>7. CASE Acquire(t)
  BY <1>7, AcquireSteps
<1>8. CASE AcquireFails(t)
  <2>1. [task[t] EXCEPT !.pc = "running", !.ptr = 0] \in TaskStates
    BY <1>0, <1>8 DEF TaskStates, AcquireFails, Idle
  <2> QED
    BY <1>0, <1>8, <2>1, TaskSteps DEF AcquireFails, Back, Becomes, TaskStates
<1>9. CASE Release(t)
  <2>1. CASE Becomes(t, [task[t] EXCEPT !.pc = "running", !.ptr = 0, !.conn = 0])
    <3>1. [task[t] EXCEPT !.pc = "running", !.ptr = 0, !.conn = 0] \in TaskStates
      BY <1>0 DEF TaskStates
    <3> QED
      BY <1>0, <1>9, <2>1, <3>1, TaskSteps DEF Release, Becomes, TaskStates
  <2>2. CASE /\ task[t].left > 0
             /\ Becomes(t, [task[t] EXCEPT !.pc = "acquire", !.conn = 0,
                                           !.left = task[t].left - 1])
    <3>1. [task[t] EXCEPT !.pc = "acquire", !.conn = 0, !.left = task[t].left - 1]
            \in TaskStates
      BY <1>0, <2>2 DEF TaskStates
    <3>2. task[t].ptr \in 1 .. created
      BY <1>9 DEF Release, IInv, OnePool
    <3> QED
      BY <1>0, <1>9, <2>2, <3>1, <3>2, TaskSteps DEF Release, Becomes, TaskStates
  <2> QED
    BY <1>9, <2>1, <2>2 DEF Release
<1>10. CASE Ends(t)
  <2>1. Idle \in TaskStates
    BY <1>0, <1>10 DEF TaskStates, Ends, Idle
  <2> QED
    BY <1>0, <1>10, <2>1, TaskSteps DEF Ends, Idle, Becomes, TaskStates
<1>11. CASE PoolFails(t)
  BY <1>11, PoolFailsSteps
<1> QED
  BY <1>1, <1>2, <1>3, <1>4, <1>5, <1>6, <1>7, <1>8, <1>9, <1>10, <1>11 DEF Statement

\* main preserves the invariant.
LEMMA InvMain ==
  ASSUME IInv, Stopping \/ Signal \/ ListenFails
  PROVE  IInv'
<1> USE DEF poolVars
<1>1. task' = task /\ cut' = cut
  BY DEF Stopping, Signal, ListenFails, Shutdown, ShutdownReturns, ShutdownTimesOut,
         Close, CloseReturns, Exit
<1>2. TypeOK'
  <2>1. CASE Shutdown \/ Signal \/ ListenFails
    BY <1>1, <2>1 DEF IInv, TypeOK, Shutdown, Signal, ListenFails
  <2>2. CASE ShutdownReturns \/ ShutdownTimesOut \/ Exit
    BY <1>1, <2>2 DEF IInv, TypeOK, ShutdownReturns, ShutdownTimesOut, Exit
  <2>3. CASE Close
    BY <1>1, <2>3 DEF IInv, TypeOK, Close
  <2>4. CASE CloseReturns
    BY <1>1, <2>4 DEF IInv, TypeOK, CloseReturns
  <2> QED
    BY <2>1, <2>2, <2>3, <2>4 DEF Stopping
<1>3. Counted'
  BY <1>1 DEF IInv, Counted, ConnectionsBounded, Holders
<1>4. OnePool'
  <2>1. CASE Close
    <3>1. \A t \in Tasks : task[t].pc # "create"
      BY <2>1, TasksDiffer DEF IInv, OnePool, Close, Tasks
    <3>2. closed' \subseteq 1 .. created
      <4>1. /\ closed \subseteq 1 .. created
            /\ pool = 0 \/ pool \in 1 .. created
        BY DEF IInv, TypeOK, OnePool
      <4>2. closed' = closed \/ (pool # 0 /\ closed' = closed \cup {pool})
        BY <2>1 DEF Close
      <4> QED
        BY <4>1, <4>2
    <3>3. /\ closed \subseteq closed' /\ pool' = pool /\ created' = created
          /\ main' = "waiting" => mu' = Main
      BY <2>1 DEF Close
    <3> QED
      BY <1>1, <3>1, <3>2, <3>3 DEF IInv, OnePool
  <2>2. CASE CloseReturns
    <3>1. \A t \in Tasks : task[t].conn = 0 /\ task[t].pc # "create"
      BY <2>2, TasksDiffer DEF IInv, OnePool, CloseReturns, Connected, Tasks
    <3>2. pool \in closed \/ pool = 0
      BY <2>2 DEF IInv, Waited, CloseReturns
    <3> QED
      BY <1>1, <2>2, <3>1, <3>2 DEF IInv, TypeOK, OnePool, CloseReturns
  <2>3. CASE Shutdown \/ Signal \/ ListenFails
    BY <1>1, <2>3 DEF IInv, OnePool, Shutdown, Signal, ListenFails
  <2>4. CASE ShutdownReturns \/ ShutdownTimesOut \/ Exit
    BY <1>1, <2>4 DEF IInv, OnePool, ShutdownReturns, ShutdownTimesOut, Exit
  <2> QED
    BY <2>1, <2>2, <2>3, <2>4 DEF Stopping
<1>5. Waited'
  BY <1>1 DEF IInv, Waited, Stopping, Signal, ListenFails, Shutdown, ShutdownReturns,
     ShutdownTimesOut, Close, CloseReturns, Exit, Drained
<1> QED
  BY <1>2, <1>3, <1>4, <1>5 DEF IInv

\* The invariant holds throughout.
LEMMA InvNext == IInv /\ [Next]_vars => IInv'
<1> SUFFICES ASSUME IInv, [Next]_vars PROVE IInv'
  OBVIOUS
<1>1. CASE UNCHANGED vars
  BY <1>1 DEF vars, mainVars, poolVars, IInv, TypeOK, OnePool, Counted, Waited,
     ConnectionsBounded, Holders
<1>2. CASE Next
  BY <1>2, InvTask, InvMain DEF Next, Tasks
<1> QED
  BY <1>1, <1>2

-----------------------------------------------------------------------------
\* Every reachable state has its types.
THEOREM ServerTypeCorrect == Spec => []TypeOK
<1>1. IInv => TypeOK
  BY DEF IInv
<1> QED
  BY InvInit, InvNext, <1>1, PTL DEF Spec

\* db.Pool and db.Close keep the connections of the process within poolMax, for any
\* requests: pools that are created late or again are never two at a time.
THEOREM ConnectionsAreBounded == Spec => []ConnectionsBounded
<1>1. IInv => ConnectionsBounded
  BY DEF IInv, Counted
<1> QED
  BY InvInit, InvNext, <1>1, PTL DEF Spec

\* main waits for the requests before it closes the pool under them, for any
\* requests and any workers, for which it does not wait.
THEOREM AcceptedRequestsAreServed == Spec => []RequestsAreServed
<1>1. IInv => RequestsAreServed
  BY DEF IInv, Waited, RequestsAreServed
<1> QED
  BY InvInit, InvNext, <1>1, PTL DEF Spec
=============================================================================
