------------------------- MODULE ParallelForProofs -------------------------
(***************************************************************************)
(* Proofs about parallel_for, for every pool size and every count.         *)
(***************************************************************************)
EXTENDS ParallelFor, WorkQueueProofs

\* The slots that have counted themselves done.
Counted == {s \in Task : lpc[s] \in {"counted", "over"}}

\* PFTypeOK without the bound on workers_done, which follows from PFInv.
PFType ==
  /\ caller \in {"idle", "serial", "submit", "blocking", "waiting", "woken", "returned"}
  /\ slot \in 0..Spawn
  /\ nextIndex \in Nat
  /\ done \in Nat
  /\ lpc \in [Task -> {"off", "loop", "pick", "body", "counted", "over"}]
  /\ cancelled \in BOOLEAN
  /\ bodies \in [0..(Count - 1) -> Nat]

\* The inductive invariant of a call: workers_done is the number of slots that
\* are through; the indices handed out are the ones below next_index; a slot is
\* through only when there is nothing left to do; a slot's loop runs only after
\* its closure was taken from the queue, or refused.
PFInv ==
  /\ done = Cardinality(Counted)
  /\ \A i \in 0..(Count - 1) : bodies[i] = IF i < nextIndex THEN 1 ELSE 0
  /\ Counted # {} => cancelled \/ nextIndex >= Count
  /\ \A s \in Task : lpc[s] # "off" => runs[s] = 1 \/ spc[s] = "rejected"
  /\ caller \in {"idle", "serial"} => \A s \in Task : spc[s] = "idle"
  /\ caller = "returned" =>
       /\ cancelled \/ nextIndex >= Count
       /\ Counted = Task \/ \A s \in Task : spc[s] = "idle"

Both == TypeOK /\ QueueDistinct /\ ClosureAccounting /\ PFType /\ PFInv

\* spawn is a natural number and the number of slots.
LEMMA SpawnFacts ==
  /\ Spawn \in Nat /\ IsFiniteSet(Task) /\ Cardinality(Task) = Spawn
  /\ Spawn <= Count
<1>1. Spawn \in Nat /\ Spawn <= Count
  BY PoolAssumption, CountAssumption DEF Spawn
<1>2. Cardinality(0..(Spawn - 1)) = Spawn /\ IsFiniteSet(0..(Spawn - 1))
  <2>1. Spawn - 1 \in Int /\ 0 \in Int BY <1>1
  <2>2. Cardinality(0..(Spawn - 1)) = IF 0 > Spawn - 1 THEN 0 ELSE (Spawn - 1) - 0 + 1
    BY <2>1, FS_Interval
  <2>3. IsFiniteSet(0..(Spawn - 1)) BY <2>1, FS_Interval
  <2> QED BY <1>1, <2>2, <2>3
<1> QED BY <1>1, <1>2, CountAssumption

\* Every step of the composition is a step of the pool or leaves it alone.
LEMMA PoolSimulation == PFType /\ [PFNext]_allVars => [Next]_poolVars
<1> SUFFICES ASSUME PFType, [PFNext]_allVars PROVE [Next]_poolVars
  OBVIOUS
<1>1. CASE Begin \/ SerialStep \/ RunInline \/ NextSlot \/ WaitCheck \/ WaitBlock
           \/ WaitSpurious \/ CancelToken \/ UNCHANGED allVars
  BY <1>1 DEF Begin, SerialStep, RunInline, NextSlot, WaitCheck, WaitBlock,
              WaitSpurious, CancelToken, allVars
<1>2. ASSUME NEW s \in Task, LoopStep(s) PROVE [Next]_poolVars
  BY <1>2 DEF LoopStep, LoopCheck, LoopTake, BodyEnd, LoopCount, LoopNotify
<1>3. CASE SubmitSlot
  <2>1. slot \in Task BY <1>3, CountAssumption, SpawnFacts DEF SubmitSlot, PFType
  <2> QED BY <1>3, <2>1 DEF SubmitSlot, Next
<1>4. ASSUME NEW w \in Worker, TakeSlot(w) \/ FinishSlot(w) PROVE [Next]_poolVars
  BY <1>4 DEF TakeSlot, FinishSlot, Next, WorkerStep
<1>5. CASE PoolOnly BY <1>5 DEF PoolOnly, Next, WorkerStep
<1> QED BY <1>1, <1>2, <1>3, <1>4, <1>5 DEF PFNext, CallerStep

\* The composition starts with its invariant.
LEMMA PFInitInv == PFInit => Both
<1> SUFFICES ASSUME PFInit PROVE Both
  OBVIOUS
<1>1. TypeOK /\ QueueDistinct /\ ClosureAccounting
  BY PoolInit DEF PFInit, Init, QueueDistinct, ClosureAccounting, InQueue
<1>2. cancelled \in BOOLEAN BY Zenon DEF PFInit
<1>3. PFType BY <1>2, SpawnFacts, CountAssumption DEF PFInit, PFType
<1>4. Counted = {} BY DEF Counted, PFInit
<1>5. PFInv BY <1>4, FS_EmptySet, CountAssumption DEF PFInv, PFInit, Init
<1> QED BY <1>1, <1>3, <1>5 DEF Both

\* Every step of the composition keeps the call's state well typed.
LEMMA PFTypeStep == TypeOK /\ PFType /\ [PFNext]_allVars => PFType'
<1> SUFFICES ASSUME TypeOK, PFType, [PFNext]_allVars PROVE PFType'
  OBVIOUS
<1> USE SpawnFacts, CountAssumption DEF PFType
<1>1. CASE Begin BY <1>1 DEF Begin
<1>2. CASE SerialStep
  <2>1. CASE nextIndex < Count /\ ~cancelled
    <3>1. bodies' = [bodies EXCEPT ![nextIndex] = @ + 1] \/ bodies' = bodies
      BY <1>2 DEF SerialStep
    <3>2. bodies' \in [0..(Count - 1) -> Nat] BY <2>1, <3>1
    <3>3. nextIndex' \in Nat /\ caller' \in {"serial", "returned"} BY <1>2 DEF SerialStep
    <3> QED BY <1>2, <3>2, <3>3 DEF SerialStep
  <2>2. CASE ~(nextIndex < Count /\ ~cancelled)
    BY <1>2, <2>2 DEF SerialStep
  <2> QED BY <2>1, <2>2
<1>3. CASE SubmitSlot BY <1>3 DEF SubmitSlot, pfVars
<1>4. CASE RunInline BY <1>4 DEF RunInline
<1>5. CASE NextSlot BY <1>5 DEF NextSlot
<1>6. CASE WaitCheck \/ WaitBlock \/ WaitSpurious BY <1>6 DEF WaitCheck, WaitBlock, WaitSpurious
<1>7. CASE CancelToken
  <2>1. cancelled' \in BOOLEAN BY <1>7, Zenon DEF CancelToken
  <2> QED BY <1>7, <2>1 DEF CancelToken
<1>8. ASSUME NEW s \in Task, LoopStep(s) PROVE PFType'
  <2>1. CASE LoopTake(s)
    <3>1. bodies' \in [0..(Count - 1) -> Nat] BY <2>1 DEF LoopTake
    <3> QED BY <2>1, <3>1 DEF LoopTake
  <2>2. CASE LoopCheck(s) BY <2>2 DEF LoopCheck
  <2>3. CASE BodyEnd(s) BY <2>3 DEF BodyEnd
  <2>4. CASE LoopCount(s) BY <2>4 DEF LoopCount
  <2>5. CASE LoopNotify(s) BY <2>5 DEF LoopNotify
  <2> QED BY <1>8, <2>1, <2>2, <2>3, <2>4, <2>5 DEF LoopStep
<1>9. ASSUME NEW w \in Worker, TakeSlot(w) \/ FinishSlot(w) PROVE PFType'
  BY <1>9 DEF TakeSlot, FinishSlot, pfVars
<1>10. CASE UNCHANGED pfVars BY <1>10 DEF pfVars
<1> QED
  BY <1>1, <1>2, <1>3, <1>4, <1>5, <1>6, <1>7, <1>8, <1>9, <1>10 DEF PFNext, CallerStep, allVars

\* The invariant's last four parts survive a step that leaves the call alone
\* and moves no submission of a call that has not begun or has ended.
LEMMA PFFrame ==
  ASSUME PFInv, pfVars' = pfVars,
         \A s \in Task : runs[s] = 1 \/ spc[s] = "rejected"
                        => (runs[s] = 1 \/ spc[s] = "rejected")',
         caller \in {"idle", "serial", "returned"} => spc' = spc
  PROVE  PFInv'
<1>1. /\ caller' = caller /\ nextIndex' = nextIndex /\ done' = done /\ lpc' = lpc
      /\ cancelled' = cancelled /\ bodies' = bodies
  BY DEF pfVars
<1>2. Counted' = Counted BY <1>1 DEF Counted
<1>3. \A s \in Task : lpc'[s] # "off" => runs'[s] = 1 \/ spc'[s] = "rejected"
  BY <1>1 DEF PFInv
<1>4. caller' \in {"idle", "serial"} => \A s \in Task : spc'[s] = "idle"
  BY <1>1 DEF PFInv
<1>5. caller' = "returned" =>
       /\ cancelled' \/ nextIndex' >= Count
       /\ Counted' = Task \/ \A s \in Task : spc'[s] = "idle"
  BY <1>1, <1>2 DEF PFInv
<1>6. /\ done' = Cardinality(Counted')
      /\ \A i \in 0..(Count - 1) : bodies'[i] = IF i < nextIndex' THEN 1 ELSE 0
      /\ Counted' # {} => cancelled' \/ nextIndex' >= Count
  BY <1>1, <1>2 DEF PFInv
<1> QED BY <1>3, <1>4, <1>5, <1>6, Zenon DEF PFInv

\* Every step of the composition keeps the invariant of the call.
LEMMA PFInvStep == Both /\ [PFNext]_allVars => PFInv'
<1> SUFFICES ASSUME Both, [PFNext]_allVars PROVE PFInv'
  OBVIOUS
<1>0. TypeOK /\ ClosureAccounting /\ PFType /\ PFInv BY DEF Both
<1>c. IsFiniteSet(Counted) /\ Cardinality(Counted) \in Nat
  <2>1. Counted \in SUBSET Task BY DEF Counted
  <2>2. IsFiniteSet(Counted) BY <2>1, SpawnFacts, FS_Subset
  <2> QED BY <2>2, FS_CardinalityType
<1> USE CountAssumption, SpawnFacts
<1>1. CASE Begin
  <2>1. runs' = runs /\ spc' = spc /\ lpc' = lpc /\ done' = done /\ nextIndex' = nextIndex
        /\ bodies' = bodies /\ cancelled' = cancelled
    BY <1>1 DEF Begin, poolVars
  <2>2. Counted' = Counted BY <2>1 DEF Counted
  <2>3. caller = "idle" /\ (caller' = "returned" => Count = 0) BY <1>1 DEF Begin
  <2> QED BY <1>0, <2>1, <2>2, <2>3 DEF PFInv, PFType
<1>2. CASE SerialStep
  <2>1. /\ runs' = runs /\ spc' = spc /\ lpc' = lpc /\ done' = done /\ cancelled' = cancelled
        /\ caller = "serial"
    BY <1>2 DEF SerialStep, poolVars
  <2>2. Counted' = Counted /\ \A s \in Task : spc'[s] = "idle"
    BY <1>0, <2>1 DEF Counted, PFInv
  <2>3. CASE nextIndex < Count /\ ~cancelled
    <3>1. /\ bodies' = [bodies EXCEPT ![nextIndex] = @ + 1] /\ nextIndex' = nextIndex + 1
          /\ caller' = caller
      BY <1>0, <1>2, <2>3 DEF SerialStep, PFType
    <3>2. \A i \in 0..(Count - 1) : bodies'[i] = IF i < nextIndex' THEN 1 ELSE 0
      BY <1>0, <2>3, <3>1 DEF PFInv, PFType
    <3>3. Counted = {} BY <1>0, <2>3 DEF PFInv, PFType
    <3> QED BY <1>0, <2>1, <2>2, <3>1, <3>2, <3>3 DEF PFInv
  <2>4. CASE ~(nextIndex < Count /\ ~cancelled)
    <3>1. bodies' = bodies /\ nextIndex' = nextIndex /\ caller' = "returned"
      BY <1>0, <1>2, <2>4 DEF SerialStep, PFType
    <3>2. cancelled' \/ nextIndex' >= Count
      BY <1>0, <2>1, <2>4, <3>1 DEF PFType
    <3> QED BY <1>0, <2>1, <2>2, <3>1, <3>2 DEF PFInv
  <2> QED BY <2>3, <2>4
<1>3. CASE SubmitSlot
  <2>1. slot \in Task /\ SubmitStep(slot) /\ pfVars' = pfVars /\ caller = "submit"
    BY <1>0, <1>3 DEF SubmitSlot, PFType
  <2>2. \A s \in Task : runs[s] = 1 \/ spc[s] = "rejected" => runs'[s] = 1 \/ spc'[s] = "rejected"
    BY <1>0, <2>1 DEF SubmitStep, SubmitCheck, SubmitPush, SubmitNotify, TypeOK
  <2> QED BY <1>0, <2>1, <2>2, PFFrame
<1>4. CASE RunInline
  <2>1. /\ slot \in Task /\ caller = "submit" /\ caller' = caller
        /\ spc[slot] = "rejected" /\ lpc[slot] = "off"
        /\ lpc' = [lpc EXCEPT ![slot] = "loop"]
        /\ runs' = runs /\ spc' = spc /\ done' = done /\ nextIndex' = nextIndex
        /\ bodies' = bodies /\ cancelled' = cancelled
    BY <1>0, <1>4 DEF RunInline, PFType, poolVars
  <2>2. Counted' = Counted BY <1>0, <2>1 DEF Counted, PFType
  <2> QED BY <1>0, <2>1, <2>2 DEF PFInv, PFType
<1>5. CASE NextSlot \/ WaitBlock \/ WaitSpurious
  <2>1. /\ caller' \in {"submit", "waiting", "woken"} /\ lpc' = lpc
        /\ runs' = runs /\ spc' = spc /\ done' = done /\ nextIndex' = nextIndex
        /\ bodies' = bodies /\ cancelled' = cancelled
    BY <1>5 DEF NextSlot, WaitBlock, WaitSpurious, poolVars
  <2>2. Counted' = Counted BY <2>1 DEF Counted
  <2> QED BY <1>0, <2>1, <2>2 DEF PFInv
<1>6. CASE WaitCheck
  <2>1. /\ caller' \in {"returned", "blocking"} /\ (caller' = "returned" => Enough)
        /\ lpc' = lpc /\ runs' = runs /\ spc' = spc /\ done' = done
        /\ nextIndex' = nextIndex /\ bodies' = bodies /\ cancelled' = cancelled
        /\ caller \in {"submit", "woken"} /\ (slot = Spawn \/ caller = "woken")
    BY <1>6 DEF WaitCheck, poolVars
  <2>2. Counted' = Counted BY <2>1 DEF Counted
  <2>3. ASSUME caller' = "returned"
        PROVE  Counted = Task /\ (cancelled \/ nextIndex >= Count)
    <3>1. Cardinality(Counted) >= Spawn BY <1>0, <2>1, <2>3 DEF Enough, PFInv
    <3>2. Counted \in SUBSET Task BY DEF Counted
    <3>3. Cardinality(Counted) <= Cardinality(Task) BY <3>2, FS_Subset
    <3>4. Cardinality(Counted) = Cardinality(Task) BY <1>c, <3>1, <3>3
    <3>5. Counted = Task BY <3>2, <3>4, FS_Subset
    <3>6. CASE Task = {}
      <4>1. Count = 0
        BY <3>6, PoolAssumption DEF Spawn
      <4> QED BY <1>0, <3>5, <4>1 DEF PFType
    <3>7. CASE Task # {}
      BY <1>0, <3>5, <3>7 DEF PFInv
    <3> QED BY <3>5, <3>6, <3>7
  <2> QED BY <1>0, <2>1, <2>2, <2>3 DEF PFInv
<1>7. CASE CancelToken
  <2>1. /\ caller' = caller /\ lpc' = lpc /\ runs' = runs /\ spc' = spc /\ done' = done
        /\ nextIndex' = nextIndex /\ bodies' = bodies /\ cancelled'
    BY <1>7 DEF CancelToken, poolVars
  <2>2. Counted' = Counted BY <2>1 DEF Counted
  <2> QED BY <1>0, <2>1, <2>2 DEF PFInv
<1>8. ASSUME NEW s \in Task, LoopStep(s) PROVE PFInv'
  <2>0. /\ runs' = runs /\ spc' = spc /\ cancelled' = cancelled
        /\ lpc[s] \in {"loop", "pick", "body", "counted"}
    BY <1>8 DEF LoopStep, LoopCheck, LoopTake, BodyEnd, LoopCount, LoopNotify, poolVars
  <2>1. runs[s] = 1 \/ spc[s] = "rejected"
    BY <1>0, <2>0 DEF PFInv
  <2>2. lpc[s] # "counted" => caller # "returned"
    <3>1. CASE Counted = Task BY <2>0, <3>1 DEF Counted
    <3>2. CASE \A t \in Task : spc[t] = "idle"
      BY <1>0, <2>1, <3>2 DEF ClosureAccounting
    <3> QED BY <1>0, <3>1, <3>2 DEF PFInv
  <2>3. CASE LoopCheck(s) \/ BodyEnd(s)
    <3>1. /\ caller' = caller /\ done' = done /\ nextIndex' = nextIndex /\ bodies' = bodies
          /\ lpc[s] # "counted"
          /\ lpc' = [lpc EXCEPT ![s] = "pick"] \/ lpc' = [lpc EXCEPT ![s] = "loop"]
      BY <2>3 DEF LoopCheck, BodyEnd
    <3>2. Counted' = Counted BY <1>0, <2>0, <3>1 DEF Counted, PFType
    <3> QED BY <1>0, <2>0, <2>1, <2>2, <3>1, <3>2 DEF PFInv, PFType
  <2>4. CASE LoopTake(s)
    <3>1. /\ caller' = caller /\ done' = done /\ nextIndex' = nextIndex + 1
          /\ bodies' = [bodies EXCEPT ![nextIndex] = @ + 1] /\ nextIndex < Count
          /\ lpc[s] = "pick" /\ lpc' = [lpc EXCEPT ![s] = "body"]
      BY <2>4 DEF LoopTake
    <3>2. Counted' = Counted BY <1>0, <3>1 DEF Counted, PFType
    <3>3. \A i \in 0..(Count - 1) : bodies'[i] = IF i < nextIndex' THEN 1 ELSE 0
      BY <1>0, <3>1 DEF PFInv, PFType
    <3>4. Counted # {} => cancelled
      BY <1>0, <3>1 DEF PFInv, PFType
    <3> QED BY <1>0, <2>0, <2>1, <2>2, <3>1, <3>2, <3>3, <3>4 DEF PFInv, PFType
  <2>5. CASE LoopCount(s)
    <3>1. /\ caller' = caller /\ done' = done + 1 /\ bodies' = bodies
          /\ cancelled \/ nextIndex >= Count
          /\ nextIndex' \in {nextIndex, nextIndex + 1}
          /\ nextIndex' # nextIndex => nextIndex >= Count
          /\ lpc[s] \in {"loop", "pick"} /\ lpc' = [lpc EXCEPT ![s] = "counted"]
      BY <2>5 DEF LoopCount
    <3>2. s \notin Counted /\ Counted' = Counted \cup {s}
      BY <1>0, <3>1 DEF Counted, PFType
    <3>3. Cardinality(Counted') = Cardinality(Counted) + 1
      BY <1>c, <3>2, FS_AddElement
    <3>4. \A i \in 0..(Count - 1) : bodies'[i] = IF i < nextIndex' THEN 1 ELSE 0
      BY <1>0, <3>1 DEF PFInv, PFType
    <3>5. cancelled' \/ nextIndex' >= Count
      BY <1>0, <2>0, <3>1 DEF PFType
    <3> QED BY <1>0, <2>0, <2>1, <2>2, <3>1, <3>3, <3>4, <3>5 DEF PFInv, PFType
  <2>6. CASE LoopNotify(s)
    <3>1. /\ caller' \in {caller, "woken"} /\ done' = done /\ bodies' = bodies
          /\ nextIndex' = nextIndex
          /\ lpc[s] = "counted" /\ lpc' = [lpc EXCEPT ![s] = "over"]
      BY <2>6 DEF LoopNotify
    <3>2. Counted' = Counted BY <1>0, <3>1 DEF Counted, PFType
    <3> QED BY <1>0, <2>0, <2>1, <3>1, <3>2 DEF PFInv, PFType
  <2> QED BY <1>8, <2>3, <2>4, <2>5, <2>6 DEF LoopStep
<1>9. ASSUME NEW w \in Worker, TakeSlot(w) PROVE PFInv'
  <2> DEFINE t == Head(queue)
  <2>1. /\ t \in Task /\ InQueue(t) /\ spc' = spc /\ runs' = [runs EXCEPT ![t] = @ + 1]
        /\ lpc' = [lpc EXCEPT ![t] = "loop"]
        /\ caller' = caller /\ done' = done /\ nextIndex' = nextIndex
        /\ bodies' = bodies /\ cancelled' = cancelled
    BY <1>0, <1>9 DEF TakeSlot, Take, TypeOK, InQueue
  <2> HIDE DEF t
  <2>2. runs[t] = 0 /\ spc[t] \in {"notify", "accepted"}
    BY <1>0, <2>1 DEF ClosureAccounting
  <2>3. lpc[t] = "off" BY <1>0, <2>1, <2>2 DEF PFInv
  <2>4. Counted' = Counted /\ t \notin Counted
    BY <1>0, <2>1, <2>3 DEF Counted, PFType
  <2>5. runs'[t] = 1 /\ \A s \in Task : s # t => runs'[s] = runs[s]
    BY <1>0, <2>1, <2>2 DEF TypeOK
  <2>6. \A s \in Task : lpc'[s] # "off" => runs'[s] = 1 \/ spc'[s] = "rejected"
    BY <1>0, <2>1, <2>5 DEF PFInv, PFType
  <2>7. caller # "returned"
    BY <1>0, <2>1, <2>2, <2>4 DEF PFInv
  <2> QED BY <1>0, <2>1, <2>4, <2>6, <2>7 DEF PFInv
<1>10. ASSUME NEW w \in Worker, FinishSlot(w) PROVE PFInv'
  <2>1. pfVars' = pfVars /\ runs' = runs /\ spc' = spc
    BY <1>10 DEF FinishSlot, Finish
  <2> QED BY <1>0, <2>1, PFFrame
<1>11. CASE PoolOnly /\ UNCHANGED pfVars
  <2>1. pfVars' = pfVars /\ runs' = runs /\ spc' = spc
    BY <1>11 DEF PoolOnly, FindNothing, Block, SpuriousWake, FindStopped, Exit, Start, StopFlag,
                 Expire, StopStep, StopNotifyAll, StopDecide, StopJoin, StopClear
  <2> QED BY <1>0, <2>1, PFFrame
<1>12. CASE UNCHANGED allVars
  <2>1. pfVars' = pfVars /\ runs' = runs /\ spc' = spc
    BY <1>12 DEF allVars, poolVars
  <2> QED BY <1>0, <2>1, PFFrame
<1> QED
  BY <1>1, <1>2, <1>3, <1>4, <1>5, <1>6, <1>7, <1>8, <1>9, <1>10, <1>11, <1>12
  DEF PFNext, CallerStep

\* The invariant of the composition is inductive.
LEMMA PFInductive == PFSpec => []Both
<1>1. Both /\ [PFNext]_allVars => Both'
  <2> SUFFICES ASSUME Both, [PFNext]_allVars PROVE Both'
    OBVIOUS
  <2>1. [Next]_poolVars BY PoolSimulation DEF Both
  <2>2. TypeOK' BY <2>1, PoolTypeStep DEF Both
  <2>3. (QueueDistinct /\ ClosureAccounting)' BY <2>1, AccountingStep DEF Both
  <2>4. PFType' BY PFTypeStep DEF Both
  <2>5. PFInv' BY PFInvStep
  <2> QED BY <2>2, <2>3, <2>4, <2>5 DEF Both
<1> QED BY <1>1, PFInitInv, PTL DEF PFSpec

\* parallel_for on the pool is an execution of the pool: what is proved of the
\* pool holds under any call.
THEOREM ParallelForUsesPool == PFSpec => Spec
<1>1. PFInit => Init BY DEF PFInit
<1>2. Both /\ [PFNext]_allVars => [Next]_poolVars
  BY PoolSimulation DEF Both
<1> QED BY <1>1, <1>2, PFInductive, PTL DEF PFSpec, Spec

\* No index is handed to body twice.  (work_queue.cpp:160-162, 172-174)
THEOREM ParallelForAtMostOnce == PFSpec => []EachIndexAtMostOnce
<1>1. Both => EachIndexAtMostOnce
  BY CountAssumption DEF Both, PFInv, PFType, EachIndexAtMostOnce
<1> QED BY <1>1, PFInductive, PTL

\* When parallel_for returns, no body is running and, unless cancelled, every
\* index ran exactly once.  (work_queue.cpp:149-186)
THEOREM ParallelForComplete == PFSpec => []ReturnMeansAllRan
<1>1. Both => ReturnMeansAllRan
  <2> SUFFICES ASSUME Both, caller = "returned"
               PROVE  /\ \A s \in Task : lpc[s] \notin {"loop", "pick", "body"}
                      /\ cancelled \/ \A i \in DOMAIN bodies : bodies[i] = 1
    BY DEF ReturnMeansAllRan
  <2>1. cancelled \/ nextIndex >= Count BY DEF Both, PFInv
  <2>2. nextIndex >= Count => \A i \in DOMAIN bodies : bodies[i] = 1
    BY CountAssumption DEF Both, PFInv, PFType
  <2>3. CASE Counted = Task BY <2>1, <2>2, <2>3 DEF Counted
  <2>4. CASE \A s \in Task : spc[s] = "idle"
    <3>1. \A s \in Task : lpc[s] = "off"
      BY <2>4 DEF Both, PFInv, ClosureAccounting
    <3> QED BY <2>1, <2>2, <3>1
  <2> QED BY <2>3, <2>4 DEF Both, PFInv
<1> QED BY <1>1, PFInductive, PTL

\* The call's own state is well typed; in particular workers_done, on which the
\* caller's return depends, never passes the number of slots.  (work_queue.cpp:176-186)
THEOREM ParallelForTypeCorrect == PFSpec => []PFTypeOK
<1>1. Both => PFTypeOK
  <2> SUFFICES ASSUME Both PROVE PFTypeOK
    OBVIOUS
  <2>1. Counted \in SUBSET Task BY DEF Counted
  <2>2. Cardinality(Counted) <= Spawn BY <2>1, SpawnFacts, FS_Subset
  <2>3. done \in 0..Spawn BY <2>2, SpawnFacts DEF Both, PFInv, PFType
  <2> QED BY <2>3 DEF Both, PFType, PFTypeOK
<1> QED BY <1>1, PFInductive, PTL
=============================================================================
