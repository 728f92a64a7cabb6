------------------------------ MODULE WorkQueue ------------------------------
(***************************************************************************)
(* The shared worker pool of core/infra/work_queue.cpp: a bounded FIFO of  *)
(* closures under one mutex and one condition variable, worker threads     *)
(* that sleep on it, submit() from any thread, and start()/stop() from the *)
(* engine's main thread.                                                   *)
(*                                                                         *)
(* A mutex section of the code is one step, except for the worker's wait:  *)
(* std::condition_variable evaluates the predicate under the mutex and     *)
(* blocks, or finds the flag raised and looks at it again, in a second     *)
(* step, still holding it ("blocking", "leaving").  That gap is invisible  *)
(* to code that takes the mutex and visible to code that does not: the     *)
(* stores of start() and stop().                                           *)
(***************************************************************************)
EXTENDS Integers, Sequences, FiniteSets

CONSTANTS
  Task,        \* the closures handed to submit(), each by a thread of its own
  Worker,      \* the threads start() may create
  NumWorkers,  \* how many of them one start() creates
  QueueCap,    \* limits::pool_queue_cap
  MaxStops     \* bound: calls of stop() in a behaviour (lifecycle and atexit)

ASSUME PoolAssumption ==
  /\ IsFiniteSet(Task) /\ IsFiniteSet(Worker)
  /\ QueueCap \in Nat \ {0}
  /\ NumWorkers \in Nat \ {0}
  /\ MaxStops \in Nat

VARIABLES
  queue,      \* g_pool.queue
  stopping,   \* g_pool.stopping
  workers,    \* g_pool.workers: the handles stop() has not joined or detached yet
  wpc,        \* what each worker thread is doing
  wtask,      \* the closure a worker took from the queue: {t}, or {}
  spc,        \* how far the submit() of each closure has come
  main,       \* what the thread that calls start() and stop() is doing
  expired,    \* the running stop() is past its drain deadline
  detached,   \* the threads stop() gave up on
  stops,      \* calls of stop() so far
  runs,       \* history: how often each closure was called
  cleared     \* history: the closures stop() threw away with queue.clear()

ctlVars == <<main, stopping, workers, expired, detached, stops>>
poolVars == <<ctlVars, queue, wpc, wtask, spc, runs, cleared>>

Init ==
  /\ queue = <<>>
  /\ stopping = FALSE
  /\ workers = <<>>
  /\ wpc = [w \in Worker |-> "none"]
  /\ wtask = [w \in Worker |-> {}]
  /\ spc = [t \in Task |-> "idle"]
  /\ main = "off"
  /\ expired = FALSE
  /\ detached = {}
  /\ stops = 0
  /\ runs = [t \in Task |-> 0]
  /\ cleared = {}

\* A worker between evaluating the predicate and blocking or leaving owns g_pool.mu.
MutexFree == \A w \in Worker : wpc[w] \notin {"blocking", "leaving"}

-----------------------------------------------------------------------------
(* worker_loop() *)

\* cv.wait's predicate is false: the worker goes on to block, mutex in hand.
FindNothing(w) ==
  /\ wpc[w] = "ready" /\ MutexFree
  /\ ~stopping /\ queue = <<>>
  /\ wpc' = [wpc EXCEPT ![w] = "blocking"]
  /\ UNCHANGED <<ctlVars, queue, wtask, spc, runs, cleared>>

\* The wait releases the mutex and sleeps, in one step.
Block(w) ==
  /\ wpc[w] = "blocking"
  /\ wpc' = [wpc EXCEPT ![w] = "waiting"]
  /\ UNCHANGED <<ctlVars, queue, wtask, spc, runs, cleared>>

\* A condition variable may wake without a notification.
SpuriousWake(w) ==
  /\ wpc[w] = "waiting"
  /\ wpc' = [wpc EXCEPT ![w] = "ready"]
  /\ UNCHANGED <<ctlVars, queue, wtask, spc, runs, cleared>>

\* The predicate is true because of the flag, which is read a second time
\* before the thread returns.  A start() may have lowered it in between; the
\* worker then pops an empty queue, and the model ends there, mutex in hand.
FindStopped(w) ==
  /\ wpc[w] = "ready" /\ MutexFree
  /\ stopping /\ queue = <<>>
  /\ wpc' = [wpc EXCEPT ![w] = "leaving"]
  /\ UNCHANGED <<ctlVars, queue, wtask, spc, runs, cleared>>

Exit(w) ==
  /\ wpc[w] = "leaving" /\ stopping
  /\ wpc' = [wpc EXCEPT ![w] = "exited"]
  /\ UNCHANGED <<ctlVars, queue, wtask, spc, runs, cleared>>

PeekFront == queue' = queue
PopFront == queue' = Tail(queue)

Take(w) ==
  /\ wpc[w] = "ready" /\ MutexFree
  /\ queue # <<>>
  /\ wpc' = [wpc EXCEPT ![w] = "running"]
  /\ wtask' = [wtask EXCEPT ![w] = {Head(queue)}]
  /\ PopFront
  /\ runs' = [runs EXCEPT ![Head(queue)] = @ + 1]
  /\ UNCHANGED <<ctlVars, spc, cleared>>

\* task() returned; the worker goes round its loop.
Finish(w) ==
  /\ wpc[w] = "running"
  /\ wpc' = [wpc EXCEPT ![w] = "ready"]
  /\ wtask' = [wtask EXCEPT ![w] = {}]
  /\ UNCHANGED <<ctlVars, queue, spc, runs, cleared>>

-----------------------------------------------------------------------------
(* submit() *)

\* The flag is read before, and outside, the critical section.
SubmitCheck(t) ==
  /\ spc[t] = "idle"
  /\ \/ stopping /\ spc' = [spc EXCEPT ![t] = "rejected"]
     \/ ~stopping /\ spc' = [spc EXCEPT ![t] = "push"]
  /\ UNCHANGED <<ctlVars, queue, wpc, wtask, runs, cleared>>

FullOffByOne == Len(queue) > QueueCap
Full == Len(queue) >= QueueCap

SubmitPush(t) ==
  /\ spc[t] = "push" /\ MutexFree
  /\ IF Full
       THEN spc' = [spc EXCEPT ![t] = "rejected"] /\ UNCHANGED queue
       ELSE spc' = [spc EXCEPT ![t] = "notify"] /\ queue' = Append(queue, t)
  /\ UNCHANGED <<ctlVars, wpc, wtask, runs, cleared>>

WakeNobody == UNCHANGED wpc

\* cv.notify_one() wakes one sleeper, whichever, or nobody when nobody sleeps.
WakeOne ==
  \/ \E w \in Worker : wpc[w] = "waiting" /\ wpc' = [wpc EXCEPT ![w] = "ready"]
  \/ (\A w \in Worker : wpc[w] # "waiting") /\ UNCHANGED wpc

SubmitNotify(t) ==
  /\ spc[t] = "notify"
  /\ spc' = [spc EXCEPT ![t] = "accepted"]
  /\ WakeOne
  /\ UNCHANGED <<ctlVars, queue, wtask, runs, cleared>>

-----------------------------------------------------------------------------
(* start() and stop() *)

Start ==
  /\ main = "off" /\ workers = <<>>
  /\ \E fresh \in [1..NumWorkers -> {w \in Worker : wpc[w] = "none"}] :
       /\ \A i, j \in 1..NumWorkers : fresh[i] = fresh[j] => i = j
       /\ workers' = fresh
       /\ wpc' = [w \in Worker |-> IF \E i \in 1..NumWorkers : fresh[i] = w
                                     THEN "ready" ELSE wpc[w]]
  /\ main' = "on"
  /\ stopping' = FALSE
  /\ UNCHANGED <<expired, detached, stops, queue, wtask, spc, runs, cleared>>

\* stopping.store(true), with the mutex not held.
StopFlag ==
  /\ main \in {"on", "off"} /\ stops < MaxStops
  /\ stopping' = TRUE
  /\ main' = "notify"
  /\ stops' = stops + 1
  /\ expired' = FALSE
  /\ UNCHANGED <<workers, detached, queue, wpc, wtask, spc, runs, cleared>>

StopNotifyAll ==
  /\ main = "notify"
  /\ wpc' = [w \in Worker |-> IF wpc[w] = "waiting" THEN "ready" ELSE wpc[w]]
  /\ main' = "next"
  /\ UNCHANGED <<stopping, workers, expired, detached, stops, queue, wtask, spc, runs, cleared>>

Expire ==
  /\ main \in {"next", "join"} /\ ~expired
  /\ expired' = TRUE
  /\ UNCHANGED <<main, stopping, workers, detached, stops, queue, wpc, wtask, spc, runs, cleared>>

\* The deadline is looked at once per worker, before a join that has no timeout.
StopDecide ==
  /\ main = "next" /\ workers # <<>>
  /\ IF expired
       THEN /\ workers' = Tail(workers)
            /\ detached' = detached \cup {Head(workers)}
            /\ UNCHANGED main
       ELSE main' = "join" /\ UNCHANGED <<workers, detached>>
  /\ UNCHANGED <<stopping, expired, stops, queue, wpc, wtask, spc, runs, cleared>>

StopJoinNoWait ==
  /\ main = "join"
  /\ workers' = Tail(workers)
  /\ main' = "next"
  /\ UNCHANGED <<stopping, expired, detached, stops, queue, wpc, wtask, spc, runs, cleared>>

StopJoin ==
  /\ main = "join" /\ wpc[Head(workers)] = "exited"
  /\ workers' = Tail(workers)
  /\ main' = "next"
  /\ UNCHANGED <<stopping, expired, detached, stops, queue, wpc, wtask, spc, runs, cleared>>

StopClear ==
  /\ main = "next" /\ workers = <<>> /\ MutexFree
  /\ cleared' = cleared \cup {queue[i] : i \in DOMAIN queue}
  /\ queue' = <<>>
  /\ main' = "off"
  /\ UNCHANGED <<stopping, workers, expired, detached, stops, wpc, wtask, spc, runs>>

-----------------------------------------------------------------------------
WorkerStep(w) == FindNothing(w) \/ Block(w) \/ FindStopped(w) \/ Exit(w) \/ Take(w) \/ Finish(w)
SubmitStep(t) == SubmitCheck(t) \/ SubmitPush(t) \/ SubmitNotify(t)
StopStep == StopNotifyAll \/ StopDecide \/ StopJoin \/ StopClear

Next ==
  \/ \E w \in Worker : WorkerStep(w) \/ SpuriousWake(w)
  \/ \E t \in Task : SubmitStep(t)
  \/ Start \/ StopFlag \/ Expire \/ StopStep

Spec == Init /\ [][Next]_poolVars

\* Threads that can run do run: a worker (whose closures return), a submit()
\* that has passed its first check, a stop() that has begun.  Nobody is obliged
\* to call anything, no wake-up is spurious on demand, and a deadline may be far.
FairSpec ==
  /\ Spec
  /\ \A w \in Worker : WF_poolVars(WorkerStep(w))
  /\ \A t \in Task : WF_poolVars(SubmitPush(t) \/ SubmitNotify(t))
  /\ WF_poolVars(StopStep)

-----------------------------------------------------------------------------
TypeOK ==
  /\ queue \in Seq(Task) /\ Len(queue) <= QueueCap
  /\ stopping \in BOOLEAN
  /\ workers \in Seq(Worker)
  /\ wpc \in [Worker -> {"none", "ready", "blocking", "waiting", "running", "leaving",
                       "exited"}]
  /\ wtask \in [Worker -> SUBSET Task]
  /\ spc \in [Task -> {"idle", "push", "notify", "accepted", "rejected"}]
  /\ main \in {"off", "on", "notify", "next", "join"}
  /\ main = "join" => workers # <<>>
  /\ expired \in BOOLEAN
  /\ detached \subseteq Worker
  /\ stops \in 0..MaxStops
  /\ runs \in [Task -> Nat]
  /\ cleared \subseteq Task

InQueue(t) == \E i \in DOMAIN queue : queue[i] = t

\* Every closure submit() took is in exactly one place: waiting in the queue,
\* called exactly once, or thrown away by stop(); one that was refused, or not
\* yet pushed, is in none.  (work_queue.cpp:41-45, 95, 122-126)
ClosureAccounting ==
  \A t \in Task :
    IF spc[t] \in {"notify", "accepted"}
      THEN \/ InQueue(t) /\ runs[t] = 0 /\ t \notin cleared
           \/ ~InQueue(t) /\ runs[t] = 1 /\ t \notin cleared
           \/ ~InQueue(t) /\ runs[t] = 0 /\ t \in cleared
      ELSE ~InQueue(t) /\ runs[t] = 0 /\ t \notin cleared

Ready == {w \in Worker : wpc[w] = "ready"}
Notifying == {t \in Task : spc[t] = "notify"}

\* The wake-ups under way are enough for the work: as long as some worker
\* sleeps, every queued closure is matched by a worker on its way to the queue
\* or by a notify_one() still to come.  (work_queue.cpp:36-38, 126-128)
WakeupsSuffice ==
  (\E w \in Worker : wpc[w] = "waiting") =>
    Len(queue) <= Cardinality(Ready) + Cardinality(Notifying)

\* Outside stop(), every thread that is still alive is one start() created since,
\* or one that stop() detached: a join leaves no thread behind.  (work_queue.cpp:84-93)
NoOrphanThread ==
  \A w \in Worker :
    wpc[w] \notin {"none", "exited"} =>
      w \in detached \/ \E i \in DOMAIN workers : workers[i] = w

\* A closure that submit() accepted is called, unless the pool is stopped or was
\* never started.  (work_queue.hpp:30)
AcceptedIsRun ==
  \A t \in Task : InQueue(t) ~> (runs[t] > 0 \/ stopping \/ main = "off")

\* "drain, join, then detach stragglers" (work_queue.hpp:24): stop() returns.
StopReturns == (main = "notify") ~> (main = "off")
=============================================================================
