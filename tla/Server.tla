------------------------------- MODULE Server -------------------------------
(***************************************************************************)
(* The process: the HTTP server, the worker, the pool of connections they  *)
(* share, and how the three stop.                                          *)
(*                                                                         *)
(* A task, which is a request or the worker, makes statements one by one.  *)
(* Each calls db.Pool, which creates the pool if there is none, then waits *)
(* for one of its connections and gives it back.  After a signal main      *)
(* waits for the requests, but no longer than 15 seconds, and closes the   *)
(* pool; the worker it does not wait for.  db.Close holds the mutex of     *)
(* db.Pool while pgxpool waits for the connections to come back.           *)
(***************************************************************************)
EXTENDS Naturals, FiniteSets

CONSTANTS
  Requests,       \* the requests the server can be serving at one time
  Workers,        \* the worker's goroutine, if it was started
  MaxConns,       \* poolMax
  MaxStatements,  \* bound: the statements of a request, or of a run of the worker
  Main,           \* main's goroutine, when it holds the mutex
  None

ASSUME TasksDiffer ==
  Requests \cap Workers = {} /\ {Main, None} \cap (Requests \cup Workers) = {} /\ Main # None
ASSUME PoolHasRoom == MaxConns \in Nat \ {0} /\ MaxStatements \in Nat

Tasks == Requests \cup Workers

VARIABLES
  main,       \* where main is
  accepting,  \* whether the listener takes requests
  done,       \* whether ctx is done: a signal came or the listener failed
  late,       \* whether Shutdown gave up waiting
  mu,         \* who holds the mutex of package db, or None
  pool,       \* db.pool: the current pool, or 0 for nil
  created,    \* the number of pools created; they are 1 .. created
  closed,     \* the pools that were closed
  task,       \* the tasks: where they are, the pool db.Pool returned, the pool
              \* they hold a connection of, or 0, the statements still to make
  cut         \* the requests that met a closed pool

mainVars == <<main, accepting, done, late>>
poolVars == <<mu, pool, created, closed>>
vars == <<mainVars, poolVars, task, cut>>

TaskStates ==
  [pc : {"idle", "running", "pool", "create", "acquire", "holding", "returned"},
   ptr : Nat, conn : Nat, left : Nat]

Idle == [pc |-> "idle", ptr |-> 0, conn |-> 0, left |-> 0]

Init ==
  /\ main = "serving" /\ accepting = TRUE /\ done = FALSE /\ late = FALSE
  /\ mu = None /\ pool = 0 /\ created = 0 /\ closed = {}
  /\ task = [t \in Tasks |-> Idle]
  /\ cut = {}

Running == main # "exited"
Connected(p) == {t \in Tasks : task[t].conn = p}
Becomes(t, s) == task' = [task EXCEPT ![t] = s]
Moves(t, to) == Becomes(t, [task[t] EXCEPT !.pc = to])

-----------------------------------------------------------------------------
(* The tasks.                                                                *)

\* A request, or a run of the worker, makes some statements.
Begins(t) ==
  /\ Running /\ task[t].pc = "idle"
  /\ \E n \in 0 .. MaxStatements :
       Becomes(t, [Idle EXCEPT !.pc = "running", !.left = n])
  /\ UNCHANGED <<mainVars, poolVars, cut>>

Serve(r) == accepting /\ Begins(r)

\* The ticker's run; when ctx is done as well, select takes either.
runWorkerOnce(w) == Begins(w)

\* ctx is done: the worker's goroutine returns.
WorkerReturns(w) ==
  /\ Running /\ done /\ task[w].pc = "idle"
  /\ Moves(w, "returned")
  /\ UNCHANGED <<mainVars, poolVars, cut>>

\* A variant of the next operator in which functions call others that use the
\* database while they hold a connection.
CallsAnywhere(t) == task[t].pc \in {"running", "holding"}

\* Every function that uses the database gets the pool first of all, and returns
\* its connection before another is called.
MayCall(t) == task[t].pc = "running"

CallsPool(t) ==
  /\ Running /\ MayCall(t) /\ task[t].left > 0
  /\ Becomes(t, [task[t] EXCEPT !.pc = "pool", !.left = task[t].left - 1])
  /\ UNCHANGED <<mainVars, poolVars, cut>>

\* A variant of db.Pool without its mutex.
NoLock(t) == UNCHANGED mu

Lock(t) == mu' = t

\* The function that was called returns.
Back(t) == Becomes(t, [task[t] EXCEPT !.pc = "running", !.ptr = 0])

\* db.Pool returns the pool there is, or goes on to create one.
Pool(t) ==
  /\ Running /\ task[t].pc = "pool" /\ mu = None
  /\ IF pool # 0
     THEN Becomes(t, [task[t] EXCEPT !.pc = "acquire", !.ptr = pool]) /\ UNCHANGED mu
     ELSE Moves(t, "create") /\ Lock(t)
  /\ UNCHANGED <<mainVars, pool, created, closed, cut>>

NewWithConfig(t) ==
  /\ Running /\ task[t].pc = "create"
  /\ created' = created + 1 /\ pool' = created + 1 /\ mu' = None
  /\ Becomes(t, [task[t] EXCEPT !.pc = "acquire", !.ptr = created + 1])
  /\ UNCHANGED <<mainVars, closed, cut>>

\* There is no valid configuration: db.Pool returns the error, and leaves no pool.
PoolFails(t) ==
  /\ Running /\ task[t].pc = "create"
  /\ mu' = None /\ Back(t)
  /\ UNCHANGED <<mainVars, pool, created, closed, cut>>

\* The statement waits for a connection; a pool closed meanwhile refuses it.
Acquire(t) ==
  LET p == task[t].ptr IN
  /\ Running /\ task[t].pc = "acquire"
  /\ t \in Workers => ~done
  /\ Cardinality(Connected(p)) < MaxConns
  /\ IF p \in closed
     THEN Back(t) /\ cut' = cut \cup {t}
     ELSE Becomes(t, [task[t] EXCEPT !.pc = "holding", !.conn = p]) /\ UNCHANGED cut
  /\ UNCHANGED <<mainVars, poolVars>>

\* The context of the task is done: the client went away, the run timed out, or
\* the process was signalled.
AcquireFails(t) ==
  /\ Running /\ task[t].pc = "acquire"
  /\ Back(t)
  /\ UNCHANGED <<mainVars, poolVars, cut>>

\* A variant that keeps the connection when a statement fails.
ReleaseOrLeak(t) ==
  /\ Running /\ task[t].pc = "holding"
  /\ \E failed \in BOOLEAN :
       Becomes(t, [task[t] EXCEPT !.pc = "running", !.ptr = 0,
                                  !.conn = IF failed THEN task[t].conn ELSE 0])
  /\ UNCHANGED <<mainVars, poolVars, cut>>

\* The statement or the transaction ends, well or not.  The function returns, or
\* makes another with the pool it has got, as UpsertForPayment does.
Release(t) ==
  /\ Running /\ task[t].pc = "holding"
  /\ \/ Becomes(t, [task[t] EXCEPT !.pc = "running", !.ptr = 0, !.conn = 0])
     \/ /\ task[t].left > 0
        /\ Becomes(t, [task[t] EXCEPT !.pc = "acquire", !.conn = 0,
                                      !.left = task[t].left - 1])
  /\ UNCHANGED <<mainVars, poolVars, cut>>

\* The request is answered, the run is over.
Ends(t) ==
  /\ Running /\ task[t].pc = "running"
  /\ Becomes(t, Idle)
  /\ UNCHANGED <<mainVars, poolVars, cut>>

-----------------------------------------------------------------------------
(* main.                                                                     *)

Signal ==
  /\ Running /\ ~done
  /\ done' = TRUE
  /\ UNCHANGED <<main, accepting, late, poolVars, task, cut>>

\* ListenAndServe fails, and calls stop.
ListenFails ==
  /\ Running /\ accepting
  /\ accepting' = FALSE /\ done' = TRUE
  /\ UNCHANGED <<main, late, poolVars, task, cut>>

\* server.Shutdown closes the listener and waits for the requests ...
Shutdown ==
  /\ main = "serving" /\ done
  /\ main' = "draining" /\ accepting' = FALSE
  /\ UNCHANGED <<done, late, poolVars, task, cut>>

\* A variant of Shutdown that does not wait for requests.
DrainedAtOnce == TRUE

Drained == \A r \in Requests : task[r].pc = "idle"

ShutdownReturns ==
  /\ main = "draining" /\ Drained
  /\ main' = "closing"
  /\ UNCHANGED <<accepting, done, late, poolVars, task, cut>>

\* ... for 15 seconds.
ShutdownTimesOut ==
  /\ main = "draining" /\ \E r \in Requests : task[r].pc # "idle"
  /\ main' = "closing" /\ late' = TRUE
  /\ UNCHANGED <<accepting, done, poolVars, task, cut>>

\* db.Close takes the mutex; pgxpool.Close refuses new acquisitions ...
Close ==
  /\ main = "closing" /\ mu = None
  /\ IF pool = 0
     THEN main' = "returning" /\ UNCHANGED <<mu, closed>>
     ELSE main' = "waiting" /\ mu' = Main /\ closed' = closed \cup {pool}
  /\ UNCHANGED <<accepting, done, late, pool, created, task, cut>>

\* ... and waits for the connections it has given out.
CloseReturns ==
  /\ main = "waiting" /\ Connected(pool) = {}
  /\ main' = "returning" /\ mu' = None /\ pool' = 0
  /\ UNCHANGED <<accepting, done, late, created, closed, task, cut>>

\* main returns, and the process with all its goroutines ends.
Exit ==
  /\ main = "returning"
  /\ main' = "exited"
  /\ UNCHANGED <<accepting, done, late, poolVars, task, cut>>

-----------------------------------------------------------------------------
Statement(t) ==
  \/ CallsPool(t) \/ Pool(t) \/ NewWithConfig(t) \/ PoolFails(t)
  \/ Acquire(t) \/ Release(t) \/ Ends(t)

Stopping ==
  Shutdown \/ ShutdownReturns \/ ShutdownTimesOut \/ Close \/ CloseReturns \/ Exit

Next ==
  \/ \E r \in Requests : Serve(r)
  \/ \E w \in Workers : runWorkerOnce(w) \/ WorkerReturns(w)
  \/ \E t \in Tasks : Statement(t) \/ AcquireFails(t)
  \/ Signal \/ ListenFails \/ Stopping

\* Goroutines that can go on do.  The mutex and the queue for connections starve
\* nobody, and every statement ends.
Fairness == SF_vars(Stopping) /\ \A t \in Tasks : SF_vars(Statement(t))

Spec == Init /\ [][Next]_vars /\ Fairness

-----------------------------------------------------------------------------
\* The variables have their types.
TypeOK ==
  /\ main \in {"serving", "draining", "closing", "waiting", "returning", "exited"}
  /\ accepting \in BOOLEAN /\ done \in BOOLEAN /\ late \in BOOLEAN
  /\ mu \in Tasks \cup {Main, None}
  /\ pool \in Nat /\ created \in Nat /\ closed \subseteq Nat
  /\ task \in [Tasks -> TaskStates]
  /\ cut \subseteq Tasks

Holders == {t \in Tasks : task[t].conn # 0}

\* The process never has more connections than poolMax, although the pool is
\* created by whichever tasks come first and again by one that comes after Close.
ConnectionsBounded == Cardinality(Holders) <= MaxConns

\* A request that was accepted meets no closed pool, and the process does not end
\* under it, unless Shutdown has waited for its 15 seconds in vain.
RequestsAreServed ==
  ~late => /\ cut \cap Requests = {}
           /\ main = "exited" => \A r \in Requests : task[r].pc = "idle"

\* After a signal, or when the listener fails, the process ends: db.Close waits
\* for connections with the mutex in hand, and whoever has one needs no mutex.
ProcessEnds == done ~> main = "exited"

\* Every request is answered, or ends with the process, although there may be
\* fewer connections than requests.
RequestsEnd ==
  \A r \in Requests : task[r].pc # "idle" ~> task[r].pc = "idle" \/ main = "exited"
=============================================================================
