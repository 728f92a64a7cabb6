-------------------------- MODULE WorkQueueProofs --------------------------
(***************************************************************************)
(* Proofs about the worker pool, for every number of threads and closures. *)
(***************************************************************************)
EXTENDS WorkQueue, FiniteSetTheorems, TLAPS

\* The pool starts in a well-typed state.
LEMMA PoolInit == Init => TypeOK
<1> SUFFICES ASSUME Init PROVE TypeOK
  OBVIOUS
<1>1. stopping \in BOOLEAN /\ expired \in BOOLEAN
  BY Zenon DEF Init
<1> QED BY <1>1, PoolAssumption DEF Init, TypeOK

\* Every step of the pool keeps its state well typed.
LEMMA PoolTypeStep == TypeOK /\ [Next]_poolVars => TypeOK'
<1> SUFFICES ASSUME TypeOK, [Next]_poolVars PROVE TypeOK'
  OBVIOUS
<1> USE PoolAssumption DEF TypeOK, ctlVars
<1>1. ASSUME NEW w \in Worker, WorkerStep(w) \/ SpuriousWake(w) PROVE TypeOK'
  <2>1. CASE Take(w) BY <2>1 DEF Take, PopFront
  <2>2. CASE Finish(w) BY <2>2 DEF Finish
  <2>3. CASE FindNothing(w) \/ Block(w) \/ SpuriousWake(w) \/ FindStopped(w) \/ Exit(w)
    BY <2>3 DEF FindNothing, Block, SpuriousWake, FindStopped, Exit
  <2> QED BY <1>1, <2>1, <2>2, <2>3 DEF WorkerStep
<1>2. ASSUME NEW t \in Task, SubmitStep(t) PROVE TypeOK'
  <2>1. CASE SubmitCheck(t) BY <2>1 DEF SubmitCheck
  <2>2. CASE SubmitPush(t)
    <3>1. CASE Full BY <2>2, <3>1 DEF SubmitPush
    <3>2. CASE ~Full
      <4>1. queue' = Append(queue, t) /\ spc' = [spc EXCEPT ![t] = "notify"]
        BY <2>2, <3>2 DEF SubmitPush
      <4>2. queue' \in Seq(Task) /\ Len(queue') <= QueueCap
        BY <3>2, <4>1 DEF Full
      <4> QED BY <2>2, <4>1, <4>2 DEF SubmitPush
    <3> QED BY <3>1, <3>2
  <2>3. CASE SubmitNotify(t) BY <2>3 DEF SubmitNotify, WakeOne
  <2> QED BY <1>2, <2>1, <2>2, <2>3 DEF SubmitStep
<1>3. CASE Start
  <2>1. PICK fresh \in [1..NumWorkers -> {w \in Worker : wpc[w] = "none"}] :
          workers' = fresh
          /\ wpc' = [w \in Worker |-> IF \E i \in 1..NumWorkers : fresh[i] = w
                                       THEN "ready" ELSE wpc[w]]
    BY <1>3 DEF Start
  <2>2. workers' \in Seq(Worker) BY <2>1
  <2>3. stopping' \in BOOLEAN /\ expired' \in BOOLEAN
    BY <1>3, Zenon DEF Start
  <2> QED BY <1>3, <2>1, <2>2, <2>3 DEF Start
<1>4. CASE StopFlag
  <2>1. stopping' \in BOOLEAN /\ expired' \in BOOLEAN
    BY <1>4, Zenon DEF StopFlag
  <2> QED BY <1>4, <2>1 DEF StopFlag
<1>5. CASE Expire
  <2>1. stopping' \in BOOLEAN /\ expired' \in BOOLEAN
    BY <1>5, Zenon DEF Expire
  <2> QED BY <1>5, <2>1 DEF Expire
<1>6. CASE StopStep
  <2>1. CASE StopNotifyAll BY <2>1 DEF StopNotifyAll
  <2>2. CASE StopDecide
    <3>1. CASE expired
      <4>1. /\ workers # <<>> /\ workers' = Tail(workers)
            /\ detached' = detached \cup {Head(workers)}
            /\ main = "next" /\ main' = main
        BY <2>2, <3>1, Zenon DEF StopDecide
      <4>2. workers' \in Seq(Worker) /\ detached' \subseteq Worker
        BY <4>1
      <4> QED BY <2>2, <4>1, <4>2 DEF StopDecide
    <3>2. CASE ~expired BY <2>2, <3>2 DEF StopDecide
    <3> QED BY <3>1, <3>2
  <2>3. CASE StopJoin BY <2>3 DEF StopJoin
  <2>4. CASE StopClear BY <2>4 DEF StopClear
  <2> QED BY <1>6, <2>1, <2>2, <2>3, <2>4 DEF StopStep
<1>7. CASE UNCHANGED poolVars BY <1>7 DEF poolVars
<1> QED BY <1>1, <1>2, <1>3, <1>4, <1>5, <1>6, <1>7 DEF Next

\* The worker-pool state is well typed and its queue never exceeds the cap
\* that submit() enforces.  (work_queue.cpp:122)
THEOREM PoolTypeCorrect == Spec => []TypeOK
<1>1. Init => TypeOK
  BY PoolInit
<1>2. TypeOK /\ [Next]_poolVars => TypeOK'
  BY PoolTypeStep
<1> QED BY <1>1, <1>2, PTL DEF Spec

\* A worker that holds the mutex on its way to sleep, or out, has seen an empty
\* queue, and nothing can have been pushed since.  (work_queue.cpp:35-40, 121)
BlockingSeesEmpty == (\E w \in Worker : wpc[w] \in {"blocking", "leaving"}) => queue = <<>>

\* Init establishes and every step keeps BlockingSeesEmpty.
LEMMA BlockingStep == TypeOK /\ BlockingSeesEmpty /\ [Next]_poolVars => BlockingSeesEmpty'
<1> SUFFICES ASSUME TypeOK, BlockingSeesEmpty, [Next]_poolVars PROVE BlockingSeesEmpty'
  OBVIOUS
<1> USE DEF TypeOK, BlockingSeesEmpty, ctlVars, MutexFree
<1>1. ASSUME NEW w \in Worker, WorkerStep(w) \/ SpuriousWake(w) PROVE BlockingSeesEmpty'
  <2>1. CASE Take(w) BY <2>1 DEF Take, PopFront
  <2>2. CASE Finish(w) BY <2>2 DEF Finish
  <2>3. CASE FindNothing(w) \/ Block(w) \/ SpuriousWake(w) \/ FindStopped(w) \/ Exit(w)
    BY <2>3 DEF FindNothing, Block, SpuriousWake, FindStopped, Exit
  <2> QED BY <1>1, <2>1, <2>2, <2>3 DEF WorkerStep
<1>2. ASSUME NEW t \in Task, SubmitStep(t) PROVE BlockingSeesEmpty'
  BY <1>2 DEF SubmitStep, SubmitCheck, SubmitPush, SubmitNotify, WakeOne
<1>3. CASE Start BY <1>3 DEF Start
<1>4. CASE StopFlag \/ Expire BY <1>4 DEF StopFlag, Expire
<1>5. CASE StopStep
  BY <1>5 DEF StopStep, StopNotifyAll, StopDecide, StopJoin, StopClear
<1>6. CASE UNCHANGED poolVars BY <1>6 DEF poolVars
<1> QED BY <1>1, <1>2, <1>3, <1>4, <1>5, <1>6 DEF Next

\* The sets that WakeupsSuffice counts are finite.
LEMMA CountsAreNat ==
  ASSUME TypeOK
  PROVE  /\ IsFiniteSet(Ready) /\ IsFiniteSet(Notifying)
         /\ Cardinality(Ready) \in Nat /\ Cardinality(Notifying) \in Nat
<1>1. Ready \in SUBSET Worker /\ Notifying \in SUBSET Task
  BY DEF Ready, Notifying
<1>2. IsFiniteSet(Ready) /\ IsFiniteSet(Notifying)
  BY <1>1, PoolAssumption, FS_Subset
<1> QED BY <1>2, FS_CardinalityType

\* Every step of the pool keeps WakeupsSuffice: a sleeper is added only when
\* the queue is empty, a push comes with a pending notification, a notification
\* is spent on a worker that becomes ready, and a ready worker that leaves the
\* count takes a closure with it.
LEMMA WakeupsStep ==
  TypeOK /\ BlockingSeesEmpty /\ WakeupsSuffice /\ [Next]_poolVars => WakeupsSuffice'
<1> SUFFICES ASSUME TypeOK, BlockingSeesEmpty, WakeupsSuffice, [Next]_poolVars,
                    \E w \in Worker : wpc'[w] = "waiting"
             PROVE  Len(queue') <= Cardinality(Ready') + Cardinality(Notifying')
  BY DEF WakeupsSuffice
<1>0. TypeOK' BY PoolTypeStep
<1>n. /\ Cardinality(Ready) \in Nat /\ Cardinality(Notifying) \in Nat
      /\ IsFiniteSet(Ready) /\ IsFiniteSet(Notifying)
      /\ Cardinality(Ready') \in Nat /\ Cardinality(Notifying') \in Nat
      /\ IsFiniteSet(Ready') /\ IsFiniteSet(Notifying')
      /\ Len(queue) \in Nat /\ Len(queue') \in Nat
  <2>1. Len(queue) \in Nat /\ Len(queue') \in Nat BY <1>0 DEF TypeOK
  <2>2. IsFiniteSet(Ready') /\ IsFiniteSet(Notifying')
    <3>1. Ready' \in SUBSET Worker /\ Notifying' \in SUBSET Task BY DEF Ready, Notifying
    <3> QED BY <3>1, PoolAssumption, FS_Subset
  <2>3. Cardinality(Ready') \in Nat /\ Cardinality(Notifying') \in Nat
    BY <2>2, FS_CardinalityType
  <2> QED BY <2>1, <2>2, <2>3, CountsAreNat
\* A step that only adds ready workers, and changes nothing else that counts.
<1>m. ASSUME Ready \subseteq Ready', Notifying' = Notifying, queue' = queue,
             \E w \in Worker : wpc[w] = "waiting"
      PROVE  Len(queue') <= Cardinality(Ready') + Cardinality(Notifying')
  <2>1. Cardinality(Ready) <= Cardinality(Ready')
    BY <1>n, <1>m, FS_Subset
  <2>2. Len(queue) <= Cardinality(Ready) + Cardinality(Notifying)
    BY <1>m DEF WakeupsSuffice
  <2> QED BY <1>n, <1>m, <2>1, <2>2
<1>e. ASSUME queue' = <<>>
      PROVE  Len(queue') <= Cardinality(Ready') + Cardinality(Notifying')
  BY <1>n, <1>e
<1> USE DEF TypeOK, ctlVars
<1>1. ASSUME NEW w \in Worker, WorkerStep(w) \/ SpuriousWake(w)
      PROVE  Len(queue') <= Cardinality(Ready') + Cardinality(Notifying')
  <2>1. CASE FindNothing(w) \/ FindStopped(w) \/ Exit(w)
    BY <1>e, <2>1 DEF FindNothing, FindStopped, Exit, BlockingSeesEmpty
  <2>2. CASE Block(w)
    BY <1>e, <2>2 DEF Block, BlockingSeesEmpty
  <2>3. CASE SpuriousWake(w) \/ Finish(w)
    <3>1. Ready \subseteq Ready' /\ Notifying' = Notifying /\ queue' = queue
      BY <2>3 DEF SpuriousWake, Finish, Ready, Notifying
    <3>2. \E v \in Worker : wpc[v] = "waiting"
      BY <2>3 DEF SpuriousWake, Finish
    <3> QED BY <1>m, <3>1, <3>2
  <2>4. CASE Take(w)
    <3>1. w \in Ready /\ Ready' = Ready \ {w} /\ Notifying' = Notifying
      BY <2>4 DEF Take, Ready, Notifying
    <3>2. Cardinality(Ready') = Cardinality(Ready) - 1
      BY <1>n, <3>1, FS_RemoveElement
    <3>3. Len(queue') = Len(queue) - 1
      BY <2>4 DEF Take, PopFront
    <3>4. \E v \in Worker : wpc[v] = "waiting"
      BY <2>4 DEF Take
    <3> QED BY <1>n, <3>1, <3>2, <3>3, <3>4 DEF WakeupsSuffice
  <2> QED BY <1>1, <2>1, <2>2, <2>3, <2>4 DEF WorkerStep
<1>2. ASSUME NEW t \in Task, SubmitStep(t)
      PROVE  Len(queue') <= Cardinality(Ready') + Cardinality(Notifying')
  <2>1. CASE SubmitCheck(t)
    <3>1. Ready' = Ready /\ Notifying' = Notifying /\ queue' = queue /\ wpc' = wpc
      BY <2>1 DEF SubmitCheck, Ready, Notifying
    <3> QED BY <1>m, <3>1
  <2>2. CASE SubmitPush(t) /\ Full
    <3>1. Ready' = Ready /\ Notifying' = Notifying /\ queue' = queue /\ wpc' = wpc
      BY <2>2 DEF SubmitPush, Ready, Notifying
    <3> QED BY <1>m, <3>1
  <2>3. CASE SubmitPush(t) /\ ~Full
    <3>1. /\ Ready' = Ready /\ wpc' = wpc
          /\ t \notin Notifying /\ Notifying' = Notifying \cup {t}
      BY <2>3 DEF SubmitPush, Ready, Notifying
    <3>2. Len(queue') = Len(queue) + 1
      BY <2>3 DEF SubmitPush
    <3>3. Cardinality(Notifying') = Cardinality(Notifying) + 1
      BY <1>n, <3>1, FS_AddElement
    <3> QED BY <1>n, <3>1, <3>2, <3>3 DEF WakeupsSuffice
  <2>4. CASE SubmitNotify(t)
    <3>1. PICK w \in Worker : wpc[w] = "waiting" /\ wpc' = [wpc EXCEPT ![w] = "ready"]
      BY <2>4 DEF SubmitNotify, WakeOne
    <3>2. /\ w \notin Ready /\ Ready' = Ready \cup {w} /\ queue' = queue
          /\ t \in Notifying /\ Notifying' = Notifying \ {t}
      BY <2>4, <3>1 DEF SubmitNotify, Ready, Notifying
    <3>3. Cardinality(Ready') = Cardinality(Ready) + 1
      BY <1>n, <3>2, FS_AddElement
    <3>4. Cardinality(Notifying') = Cardinality(Notifying) - 1
      BY <1>n, <3>2, FS_RemoveElement
    <3>5. Len(queue) <= Cardinality(Ready) + Cardinality(Notifying)
      BY <3>1 DEF WakeupsSuffice
    <3> QED BY <1>n, <3>2, <3>3, <3>4, <3>5
  <2> QED BY <1>2, <2>1, <2>2, <2>3, <2>4 DEF SubmitStep
<1>3. CASE Start
  <2>1. Ready \subseteq Ready' /\ Notifying' = Notifying /\ queue' = queue
    BY <1>3 DEF Start, Ready, Notifying
  <2>2. \E v \in Worker : wpc[v] = "waiting"
    BY <1>3 DEF Start
  <2> QED BY <1>m, <2>1, <2>2
<1>4. CASE StopFlag \/ Expire \/ StopDecide \/ StopJoin \/ UNCHANGED poolVars
  <2>1. wpc' = wpc /\ spc' = spc /\ queue' = queue
    BY <1>4 DEF StopFlag, Expire, StopDecide, StopJoin, poolVars
  <2>2. Ready' = Ready /\ Notifying' = Notifying
    BY <2>1 DEF Ready, Notifying
  <2> QED BY <1>m, <2>1, <2>2
<1>5. CASE StopNotifyAll BY <1>5 DEF StopNotifyAll
<1>6. CASE StopClear
  <2>1. queue' = <<>> BY <1>6 DEF StopClear
  <2> QED BY <1>e, <2>1
<1> QED BY <1>1, <1>2, <1>3, <1>4, <1>5, <1>6 DEF Next, StopStep

\* No wake-up is lost by submit(): in every reachable state of every pool, the
\* workers on their way to the queue and the notifications still to come cover
\* the queued closures.  (work_queue.cpp:36-38, 126-128)
THEOREM PoolWakeups == Spec => []WakeupsSuffice
<1>1. Init => TypeOK /\ BlockingSeesEmpty /\ WakeupsSuffice
  <2>1. Init => TypeOK
    BY PoolInit
  <2>2. Init => BlockingSeesEmpty /\ WakeupsSuffice
    BY DEF Init, BlockingSeesEmpty, WakeupsSuffice
  <2> QED BY <2>1, <2>2
<1>2. TypeOK /\ BlockingSeesEmpty /\ WakeupsSuffice /\ [Next]_poolVars
        => (TypeOK /\ BlockingSeesEmpty /\ WakeupsSuffice)'
  BY PoolTypeStep, BlockingStep, WakeupsStep
<1> QED BY <1>1, <1>2, PTL DEF Spec

\* The queue never holds a closure twice.
QueueDistinct == \A i, j \in DOMAIN queue : queue[i] = queue[j] => i = j

\* What Append adds to a queue without repetition.
LEMMA AppendElems ==
  ASSUME NEW S, NEW q \in Seq(S), NEW x \in S,
         \A i, j \in DOMAIN q : q[i] = q[j] => i = j,
         ~ \E i \in DOMAIN q : q[i] = x
  PROVE  /\ \A y : (\E i \in DOMAIN Append(q, x) : Append(q, x)[i] = y)
                     <=> (\E i \in DOMAIN q : q[i] = y) \/ y = x
         /\ \A i, j \in DOMAIN Append(q, x) :
              Append(q, x)[i] = Append(q, x)[j] => i = j
<1> DEFINE r == Append(q, x)
<1>1. /\ DOMAIN q = 1..Len(q) /\ DOMAIN r = 1..(Len(q) + 1) /\ Len(q) \in Nat
      /\ \A i \in DOMAIN q : r[i] = q[i]
      /\ r[Len(q) + 1] = x
  OBVIOUS
<1> HIDE DEF r
<1>2. \A i, j \in DOMAIN r : r[i] = r[j] => i = j
  BY <1>1
<1>3. \A y : (\E i \in DOMAIN r : r[i] = y) <=> (\E i \in DOMAIN q : q[i] = y) \/ y = x
  BY <1>1
<1> QED BY <1>2, <1>3 DEF r

\* What Tail removes from a queue without repetition.
LEMMA TailElems ==
  ASSUME NEW S, NEW q \in Seq(S), q # <<>>,
         \A i, j \in DOMAIN q : q[i] = q[j] => i = j
  PROVE  /\ \A y : (\E i \in DOMAIN Tail(q) : Tail(q)[i] = y)
                     <=> (\E i \in DOMAIN q : q[i] = y) /\ y # Head(q)
         /\ \A i, j \in DOMAIN Tail(q) : Tail(q)[i] = Tail(q)[j] => i = j
<1> DEFINE r == Tail(q)
<1>1. /\ DOMAIN q = 1..Len(q) /\ DOMAIN r = 1..(Len(q) - 1) /\ Len(q) \in Nat \ {0}
      /\ \A i \in DOMAIN r : r[i] = q[i + 1]
      /\ Head(q) = q[1]
  OBVIOUS
<1> HIDE DEF r
<1>2. \A i, j \in DOMAIN r : r[i] = r[j] => i = j
  BY <1>1
<1>3. ASSUME NEW y, NEW i \in DOMAIN q, q[i] = y, y # Head(q)
      PROVE  \E k \in DOMAIN r : r[k] = y
  <2>1. i - 1 \in DOMAIN r /\ r[i - 1] = y BY <1>1, <1>3
  <2> QED BY <2>1
<1>4. ASSUME NEW y, NEW k \in DOMAIN r, r[k] = y
      PROVE  (\E i \in DOMAIN q : q[i] = y) /\ y # Head(q)
  <2>1. k + 1 \in DOMAIN q /\ q[k + 1] = y /\ k + 1 # 1 /\ 1 \in DOMAIN q
    BY <1>1, <1>4
  <2> QED BY <1>1, <2>1
<1> QED BY <1>2, <1>3, <1>4 DEF r

\* The pool steps that neither touch the queue nor any account of a closure.
LEMMA AccountingFrame ==
  ASSUME QueueDistinct, ClosureAccounting,
         queue' = queue, runs' = runs, cleared' = cleared,
         \A t \in Task : spc'[t] \in {"notify", "accepted"} <=> spc[t] \in {"notify", "accepted"}
  PROVE  (QueueDistinct /\ ClosureAccounting)'
BY DEF QueueDistinct, ClosureAccounting, InQueue

\* Every step keeps the account of the closures.
LEMMA AccountingStep ==
  TypeOK /\ QueueDistinct /\ ClosureAccounting /\ [Next]_poolVars
    => (QueueDistinct /\ ClosureAccounting)'
<1> SUFFICES ASSUME TypeOK, QueueDistinct, ClosureAccounting, [Next]_poolVars
             PROVE  (QueueDistinct /\ ClosureAccounting)'
  OBVIOUS
<1> USE DEF ctlVars
<1>1. ASSUME NEW w \in Worker, WorkerStep(w) \/ SpuriousWake(w)
      PROVE  (QueueDistinct /\ ClosureAccounting)'
  <2>1. CASE FindNothing(w) \/ Block(w) \/ SpuriousWake(w) \/ FindStopped(w) \/ Exit(w) \/ Finish(w)
    BY <2>1, AccountingFrame DEF FindNothing, Block, SpuriousWake, FindStopped, Exit, Finish
  <2>2. CASE Take(w)
    <3> DEFINE t == Head(queue)
    <3>1. /\ queue # <<>> /\ queue' = Tail(queue) /\ t \in Task /\ InQueue(t)
          /\ runs' = [runs EXCEPT ![t] = @ + 1] /\ spc' = spc /\ cleared' = cleared
      BY <2>2 DEF Take, PopFront, TypeOK, InQueue
    <3>2. QueueDistinct' /\ \A u : InQueue(u)' <=> InQueue(u) /\ u # t
      <4>1. queue \in Seq(Task) BY DEF TypeOK
      <4>2. /\ \A u : (\E i \in DOMAIN Tail(queue) : Tail(queue)[i] = u)
                        <=> (\E i \in DOMAIN queue : queue[i] = u) /\ u # t
            /\ \A i, j \in DOMAIN Tail(queue) : Tail(queue)[i] = Tail(queue)[j] => i = j
        BY <3>1, <4>1, TailElems, Zenon DEF QueueDistinct
      <4> QED BY <3>1, <4>2, Zenon DEF QueueDistinct, InQueue
    <3> HIDE DEF t
    <3>3. runs[t] = 0 /\ t \notin cleared /\ spc[t] \in {"notify", "accepted"}
      BY <3>1 DEF ClosureAccounting
    <3>4. runs'[t] = 1 /\ \A u \in Task : u # t => runs'[u] = runs[u]
      BY <3>1, <3>3 DEF TypeOK
    <3>5. ClosureAccounting'
      BY <3>1, <3>2, <3>3, <3>4 DEF ClosureAccounting
    <3> QED BY <3>2, <3>5
  <2> QED BY <1>1, <2>1, <2>2 DEF WorkerStep
<1>2. ASSUME NEW t \in Task, SubmitStep(t)
      PROVE  (QueueDistinct /\ ClosureAccounting)'
  <2>1. CASE SubmitCheck(t)
    BY <2>1, AccountingFrame DEF SubmitCheck, TypeOK
  <2>2. CASE SubmitNotify(t)
    BY <2>2, AccountingFrame DEF SubmitNotify, TypeOK
  <2>3. CASE SubmitPush(t) /\ Full
    BY <2>3, AccountingFrame DEF SubmitPush, TypeOK
  <2>4. CASE SubmitPush(t) /\ ~Full
    <3>1. /\ queue' = Append(queue, t) /\ spc[t] = "push"
          /\ spc' = [spc EXCEPT ![t] = "notify"]
          /\ runs' = runs /\ cleared' = cleared
      BY <2>4 DEF SubmitPush
    <3>2. ~InQueue(t) /\ runs[t] = 0 /\ t \notin cleared
      BY <3>1 DEF ClosureAccounting
    <3>3. QueueDistinct' /\ \A u : InQueue(u)' <=> InQueue(u) \/ u = t
      <4>1. queue \in Seq(Task) BY DEF TypeOK
      <4>2. /\ \A u : (\E i \in DOMAIN Append(queue, t) : Append(queue, t)[i] = u)
                        <=> (\E i \in DOMAIN queue : queue[i] = u) \/ u = t
            /\ \A i, j \in DOMAIN Append(queue, t) :
                 Append(queue, t)[i] = Append(queue, t)[j] => i = j
        BY <3>2, <4>1, AppendElems, Zenon DEF QueueDistinct, InQueue
      <4> QED BY <3>1, <4>2, Zenon DEF QueueDistinct, InQueue
    <3>4. spc'[t] = "notify" /\ \A u \in Task : u # t => spc'[u] = spc[u]
      BY <3>1 DEF TypeOK
    <3>5. ClosureAccounting'
      BY <3>1, <3>2, <3>3, <3>4 DEF ClosureAccounting
    <3> QED BY <3>3, <3>5
  <2> QED BY <1>2, <2>1, <2>2, <2>3, <2>4 DEF SubmitStep
<1>3. CASE StopClear
  <2>1. /\ queue' = <<>> /\ runs' = runs /\ spc' = spc
        /\ \A u : u \in cleared' <=> u \in cleared \/ InQueue(u)
    BY <1>3 DEF StopClear, InQueue
  <2>2. QueueDistinct' /\ \A u : ~InQueue(u)'
    BY <2>1 DEF QueueDistinct, InQueue
  <2>3. ClosureAccounting'
    BY <2>1, <2>2 DEF ClosureAccounting
  <2> QED BY <2>2, <2>3
<1>4. CASE Start \/ StopFlag \/ Expire \/ StopNotifyAll \/ StopDecide \/ StopJoin
           \/ UNCHANGED poolVars
  <2>1. queue' = queue /\ runs' = runs /\ cleared' = cleared /\ spc' = spc
    BY <1>4 DEF Start, StopFlag, Expire, StopNotifyAll, StopDecide, StopJoin, poolVars
  <2> QED BY <2>1, AccountingFrame
<1> QED BY <1>1, <1>2, <1>3, <1>4 DEF Next, StopStep

\* Every closure the pool accepts is queued, called exactly once, or thrown away
\* by stop(), and a refused one is never called.  (work_queue.cpp:41-45, 95, 122-126)
THEOREM PoolAccounting == Spec => []ClosureAccounting
<1>1. Init => TypeOK /\ QueueDistinct /\ ClosureAccounting
  <2>1. Init => QueueDistinct /\ ClosureAccounting
    BY DEF Init, QueueDistinct, ClosureAccounting, InQueue
  <2> QED BY <2>1, PoolInit
<1>2. TypeOK /\ QueueDistinct /\ ClosureAccounting /\ [Next]_poolVars
        => (TypeOK /\ QueueDistinct /\ ClosureAccounting)'
  BY PoolTypeStep, AccountingStep
<1> QED BY <1>1, <1>2, PTL DEF Spec

\* Every step keeps NoOrphanThread: only start() brings a thread to life, and it
\* keeps its handle; a handle leaves the vector only with its thread detached or
\* through the join of a thread that has exited.
LEMMA OrphanStep == TypeOK /\ NoOrphanThread /\ [Next]_poolVars => NoOrphanThread'
<1> SUFFICES ASSUME TypeOK, NoOrphanThread, [Next]_poolVars PROVE NoOrphanThread'
  OBVIOUS
<1> USE DEF TypeOK, NoOrphanThread, ctlVars
\* A step that creates no thread and drops no handle.
<1>f. ASSUME workers' = workers, detached' = detached,
             \A w \in Worker : wpc'[w] \notin {"none", "exited"} => wpc[w] \notin {"none", "exited"}
      PROVE  NoOrphanThread'
  BY <1>f
\* A step that takes the first handle away, with a reason to.
<1>t. ASSUME workers # <<>>, workers' = Tail(workers), wpc' = wpc, detached \subseteq detached',
             Head(workers) \in detached' \/ wpc[Head(workers)] = "exited"
      PROVE  NoOrphanThread'
  <2> SUFFICES ASSUME NEW w \in Worker, wpc[w] \notin {"none", "exited"}, w \notin detached'
               PROVE  \E i \in DOMAIN workers' : workers'[i] = w
    BY <1>t
  <2>1. PICK i \in DOMAIN workers : workers[i] = w BY <1>t
  <2>2. w # Head(workers) BY <1>t
  <2>3. i # 1 BY <1>t, <2>1, <2>2
  <2>4. i - 1 \in DOMAIN Tail(workers) /\ Tail(workers)[i - 1] = w
    BY <1>t, <2>1, <2>3
  <2> QED BY <1>t, <2>4
<1>1. ASSUME NEW w \in Worker, WorkerStep(w) \/ SpuriousWake(w) PROVE NoOrphanThread'
  BY <1>1, <1>f
  DEF WorkerStep, Take, Finish, FindNothing, Block, SpuriousWake, FindStopped, Exit
<1>2. ASSUME NEW t \in Task, SubmitStep(t) PROVE NoOrphanThread'
  BY <1>2, <1>f DEF SubmitStep, SubmitCheck, SubmitPush, SubmitNotify, WakeOne
<1>3. CASE Start
  <2>1. PICK fresh \in [1..NumWorkers -> {w \in Worker : wpc[w] = "none"}] :
          workers' = fresh
          /\ wpc' = [w \in Worker |-> IF \E i \in 1..NumWorkers : fresh[i] = w
                                       THEN "ready" ELSE wpc[w]]
    BY <1>3 DEF Start
  <2>2. workers = <<>> /\ detached' = detached BY <1>3 DEF Start
  <2> QED BY <2>1, <2>2
<1>4. CASE StopFlag \/ Expire \/ StopNotifyAll \/ StopClear \/ UNCHANGED poolVars
  BY <1>4, <1>f DEF StopFlag, Expire, StopNotifyAll, StopClear, poolVars
<1>5. CASE StopDecide
  <2>1. CASE expired BY <1>5, <2>1, <1>t, Zenon DEF StopDecide
  <2>2. CASE ~expired BY <1>5, <2>2, <1>f DEF StopDecide
  <2> QED BY <2>1, <2>2
<1>6. CASE StopJoin BY <1>6, <1>t DEF StopJoin
<1> QED BY <1>1, <1>2, <1>3, <1>4, <1>5, <1>6 DEF Next, StopStep

\* Every thread that is alive is one whose handle the pool still holds or one that
\* stop() detached: no join and no restart leaves a thread behind.
\* (work_queue.cpp:84-93)
THEOREM PoolNoOrphan == Spec => []NoOrphanThread
<1>1. Init => TypeOK /\ NoOrphanThread
  BY PoolInit DEF Init, NoOrphanThread
<1>2. TypeOK /\ NoOrphanThread /\ [Next]_poolVars => (TypeOK /\ NoOrphanThread)'
  BY PoolTypeStep, OrphanStep
<1> QED BY <1>1, <1>2, PTL DEF Spec
=============================================================================
