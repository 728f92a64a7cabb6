---------------------------- MODULE ParallelFor ----------------------------
(***************************************************************************)
(* One call of pool::parallel_for (core/infra/work_queue.cpp) on top of    *)
(* the worker pool.  The caller submits one closure per slot, helps out    *)
(* inline when the pool refuses one, and waits on a condition variable of  *)
(* its own stack frame until every closure has counted itself done.        *)
(* The closures capture that frame by reference.                           *)
(***************************************************************************)
EXTENDS WorkQueue

CONSTANT Count   \* the number of indices to spread

\* spawn = min(n, count): the slots, which are the pool's closures here.
Spawn == IF NumWorkers < Count THEN NumWorkers ELSE Count

ASSUME CountAssumption == Count \in Nat /\ Task = 0..(Spawn - 1)

VARIABLES
  caller,      \* what the calling thread is doing
  slot,        \* the slot it is submitting
  nextIndex,   \* next_index (and the serial loop's i)
  done,        \* workers_done
  lpc,         \* where the loop of each slot is
  cancelled,   \* the call's cancel token
  bodies       \* history: how often body(i) was called

pfVars == <<caller, slot, nextIndex, done, lpc, cancelled, bodies>>
allVars == <<poolVars, pfVars>>

PFInit ==
  /\ Init
  /\ caller = "idle" /\ slot = 0 /\ nextIndex = 0 /\ done = 0
  /\ lpc = [s \in Task |-> "off"]
  /\ cancelled = FALSE
  /\ bodies = [i \in 0..(Count - 1) |-> 0]

-----------------------------------------------------------------------------
(* The calling thread *)

\* g_pool.num_workers, which survives stop().
Workers == IF \A w \in Worker : wpc[w] = "none" THEN 0 ELSE NumWorkers

Begin ==
  /\ caller = "idle"
  /\ caller' = IF Count = 0 THEN "returned"
               ELSE IF Workers <= 1 \/ Count = 1 THEN "serial" ELSE "submit"
  /\ UNCHANGED <<poolVars, slot, nextIndex, done, lpc, cancelled, bodies>>

SerialStep ==
  /\ caller = "serial"
  /\ \/ /\ nextIndex < Count /\ ~cancelled
        /\ bodies' = [bodies EXCEPT ![nextIndex] = @ + 1]
        /\ nextIndex' = nextIndex + 1
        /\ UNCHANGED caller
     \/ /\ nextIndex >= Count \/ cancelled
        /\ caller' = "returned"
        /\ UNCHANGED <<nextIndex, bodies>>
  /\ UNCHANGED <<poolVars, slot, done, lpc, cancelled>>

\* pool::submit() of the current slot.
SubmitSlot ==
  /\ caller = "submit" /\ slot < Spawn
  /\ SubmitStep(slot)
  /\ UNCHANGED pfVars

\* The pool refused the slot: the caller runs its loop itself.
RunInline ==
  /\ caller = "submit" /\ slot < Spawn /\ spc[slot] = "rejected"
  /\ lpc[slot] = "off"
  /\ lpc' = [lpc EXCEPT ![slot] = "loop"]
  /\ UNCHANGED <<poolVars, caller, slot, nextIndex, done, cancelled, bodies>>

NextSlot ==
  /\ caller = "submit" /\ slot < Spawn
  /\ spc[slot] = "accepted" \/ (spc[slot] = "rejected" /\ lpc[slot] = "over")
  /\ slot' = slot + 1
  /\ UNCHANGED <<poolVars, caller, nextIndex, done, lpc, cancelled, bodies>>

EnoughAny == done > 0
Enough == done >= Spawn

\* done_cv.wait: the predicate is evaluated first and after every wake-up.
WaitCheck ==
  /\ \/ caller = "submit" /\ slot = Spawn
     \/ caller = "woken"
  /\ caller' = IF Enough THEN "returned" ELSE "blocking"
  /\ UNCHANGED <<poolVars, slot, nextIndex, done, lpc, cancelled, bodies>>

WaitBlock ==
  /\ caller = "blocking"
  /\ caller' = "waiting"
  /\ UNCHANGED <<poolVars, slot, nextIndex, done, lpc, cancelled, bodies>>

WaitSpurious ==
  /\ caller = "waiting"
  /\ caller' = "woken"
  /\ UNCHANGED <<poolVars, slot, nextIndex, done, lpc, cancelled, bodies>>

-----------------------------------------------------------------------------
(* The loop of a slot, on a worker or inline *)

LoopCheck(s) ==
  /\ lpc[s] = "loop" /\ ~cancelled
  /\ lpc' = [lpc EXCEPT ![s] = "pick"]
  /\ UNCHANGED <<poolVars, caller, slot, nextIndex, done, cancelled, bodies>>

LoopTakeTorn(s) ==
  /\ lpc[s] = "pick" /\ nextIndex < Count
  /\ bodies' = [bodies EXCEPT ![nextIndex] = @ + 1]
  /\ nextIndex' \in {nextIndex, nextIndex + 1}
  /\ lpc' = [lpc EXCEPT ![s] = "body"]
  /\ UNCHANGED <<poolVars, caller, slot, done, cancelled>>

\* next_index.fetch_add gave an index in range: body(idx, slot) begins.
LoopTake(s) ==
  /\ lpc[s] = "pick" /\ nextIndex < Count
  /\ bodies' = [bodies EXCEPT ![nextIndex] = @ + 1]
  /\ nextIndex' = nextIndex + 1
  /\ lpc' = [lpc EXCEPT ![s] = "body"]
  /\ UNCHANGED <<poolVars, caller, slot, done, cancelled>>

BodyEnd(s) ==
  /\ lpc[s] = "body"
  /\ lpc' = [lpc EXCEPT ![s] = "loop"]
  /\ UNCHANGED <<poolVars, caller, slot, nextIndex, done, cancelled, bodies>>

LoopCountNoBreak(s) ==
  /\ lpc[s] = "loop" /\ cancelled
  /\ done' = done + 1
  /\ UNCHANGED <<poolVars, caller, slot, nextIndex, lpc, cancelled, bodies>>

\* Cancelled or out of indices: workers_done.fetch_add, without done_mu.
LoopCount(s) ==
  /\ \/ lpc[s] = "loop" /\ cancelled /\ UNCHANGED nextIndex
     \/ lpc[s] = "pick" /\ nextIndex >= Count /\ nextIndex' = nextIndex + 1
  /\ done' = done + 1
  /\ lpc' = [lpc EXCEPT ![s] = "counted"]
  /\ UNCHANGED <<poolVars, caller, slot, cancelled, bodies>>

\* done_cv.notify_one() wakes the caller if it is asleep.
LoopNotify(s) ==
  /\ lpc[s] = "counted"
  /\ lpc' = [lpc EXCEPT ![s] = "over"]
  /\ caller' = IF caller = "waiting" THEN "woken" ELSE caller
  /\ UNCHANGED <<poolVars, slot, nextIndex, done, cancelled, bodies>>

CancelToken ==
  /\ ~cancelled /\ caller # "returned"
  /\ cancelled' = TRUE
  /\ UNCHANGED <<poolVars, caller, slot, nextIndex, done, lpc, bodies>>

-----------------------------------------------------------------------------
(* The pool under it: a worker that takes a slot runs that slot's loop. *)

TakeSlot(w) ==
  /\ Take(w)
  /\ lpc' = [lpc EXCEPT ![Head(queue)] = "loop"]
  /\ UNCHANGED <<caller, slot, nextIndex, done, cancelled, bodies>>

FinishSlot(w) ==
  /\ \A s \in wtask[w] : lpc[s] = "over"
  /\ Finish(w)
  /\ UNCHANGED pfVars

PoolOnly ==
  \/ \E w \in Worker : FindNothing(w) \/ Block(w) \/ SpuriousWake(w) \/ FindStopped(w) \/ Exit(w)
  \/ Start \/ StopFlag \/ Expire \/ StopStep

CallerStep == SerialStep \/ SubmitSlot \/ RunInline \/ NextSlot \/ WaitCheck \/ WaitBlock
LoopStep(s) == LoopCheck(s) \/ LoopTake(s) \/ BodyEnd(s) \/ LoopCount(s) \/ LoopNotify(s)

PFNext ==
  \/ Begin \/ CallerStep \/ WaitSpurious \/ CancelToken
  \/ \E s \in Task : LoopStep(s)
  \/ \E w \in Worker : TakeSlot(w) \/ FinishSlot(w)
  \/ PoolOnly /\ UNCHANGED pfVars

PFSpec == PFInit /\ [][PFNext]_allVars

\* Every thread keeps running: the caller, the workers, the loops they run.
PFFairSpec ==
  /\ PFSpec
  /\ WF_allVars(CallerStep)
  /\ \A s \in Task : WF_allVars(LoopStep(s))
  /\ \A w \in Worker :
       WF_allVars(\/ TakeSlot(w) \/ FinishSlot(w)
                  \/ (FindNothing(w) \/ Block(w) \/ FindStopped(w) \/ Exit(w)) /\ UNCHANGED pfVars)

-----------------------------------------------------------------------------
PFTypeOK ==
  /\ caller \in {"idle", "serial", "submit", "blocking", "waiting", "woken", "returned"}
  /\ slot \in 0..Spawn
  /\ nextIndex \in Nat
  /\ done \in 0..Spawn
  /\ lpc \in [Task -> {"off", "loop", "pick", "body", "counted", "over"}]
  /\ cancelled \in BOOLEAN
  /\ bodies \in [0..(Count - 1) -> Nat]

\* No index is handed out twice, whoever runs it.  (work_queue.cpp:160-162, 172-174)
EachIndexAtMostOnce == \A i \in DOMAIN bodies : bodies[i] <= 1

\* "spread count indices over the pool and wait" (work_queue.hpp:33): when the call
\* has returned, no body runs any more, and unless the token was cancelled every
\* index has been handed to body exactly once.
ReturnMeansAllRan ==
  caller = "returned" =>
    /\ \A s \in Task : lpc[s] \notin {"loop", "pick", "body"}
    /\ cancelled \/ \A i \in DOMAIN bodies : bodies[i] = 1
=============================================================================
