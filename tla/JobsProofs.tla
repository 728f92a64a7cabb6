----------------------------- MODULE JobsProofs -----------------------------
(***************************************************************************)
(* Proofs about the job coordinator, for every set of jobs and every cap:  *)
(* its invariants, and that it implements the board it promises its        *)
(* callers, every step of Jobs being a step of JobBoard or leaving the     *)
(* board as it is.                                                         *)
(***************************************************************************)
EXTENDS Jobs, FiniteSetTheorems, TLAPS

\* How the state of a job, its thread and its submit() go together.  A thread
\* that has not started leaves the job queued, and one inside the body finds it
\* running or failed: this is why starting and failing never undo an outcome.
Lifecycle ==
  \A j \in Job :
    /\ tpc[j] \in {"none", "spawned"} => state[j] = "queued"
    /\ tpc[j] \in {"body", "returned"} => state[j] \in {"running", "failed"}
    /\ call[j] \in {"publish", "accepted"} <=> tpc[j] # "none"

\* shutdown() has joined or detached every job its walk has passed.
Walked ==
  main \in {"down", "down_join"} =>
    \A i \in DOMAIN jobs : i < cursor => jobs[i] \in joined

\* The walks of reap() and shutdown() start at the first entry of the registry
\* and stop at one of its entries.
AtEntry ==
  /\ main \in {"reap_join", "down_join"} => cursor \in DOMAIN jobs
  /\ main \in {"idle", "down_lock"} => cursor = 1

CapInv ==
  /\ LiveWithinCap
  /\ gmu = "submit" => Cardinality(LiveListed) < MaxLive

JInv == TypeOK /\ Lifecycle /\ Walked /\ AtEntry /\ LiveJobReachable /\ ViewIsTruthful

-----------------------------------------------------------------------------
\* Erasing an entry keeps a registry, one shorter, with the other entries.
LEMMA WithoutFacts ==
  ASSUME NEW s \in Seq(Job), NEW i \in DOMAIN s
  PROVE  /\ Without(s, i) \in Seq(Job)
         /\ DOMAIN Without(s, i) = 1..(Len(s) - 1)
         /\ \A k \in DOMAIN Without(s, i) : \E h \in DOMAIN s : Without(s, i)[k] = s[h]
         /\ \A h \in DOMAIN s : s[h] = s[i] \/ \E k \in DOMAIN Without(s, i) : Without(s, i)[k] = s[h]
<1> DEFINE w == Without(s, i)
<1>1. Len(s) \in Nat /\ DOMAIN s = 1..Len(s) /\ Len(s) - 1 \in Nat OBVIOUS
<1>2. DOMAIN w = 1..(Len(s) - 1) /\ \A k \in 1..(Len(s) - 1) : w[k] = s[IF k < i THEN k ELSE k + 1]
  BY DEF Without
<1>3. ASSUME NEW k \in 1..(Len(s) - 1)
      PROVE  (IF k < i THEN k ELSE k + 1) \in DOMAIN s
  BY <1>1, <1>3
<1>4. w \in [1..(Len(s) - 1) -> Job]
  BY <1>1, <1>2, <1>3 DEF Without
<1>5. w \in Seq(Job) BY <1>1, <1>4
<1>6. \A k \in DOMAIN w : \E h \in DOMAIN s : w[k] = s[h] BY <1>2, <1>3
<1>7. ASSUME NEW h \in DOMAIN s
      PROVE  s[h] = s[i] \/ \E k \in DOMAIN w : w[k] = s[h]
  <2>1. CASE h < i
    <3>1. h \in 1..(Len(s) - 1) BY <2>1, <1>1
    <3>2. w[h] = s[h] BY <3>1, <2>1, <1>2
    <3> QED BY <3>1, <3>2, <1>2
  <2>2. CASE h > i
    <3>1. h - 1 \in 1..(Len(s) - 1) /\ ~(h - 1 < i) /\ (h - 1) + 1 = h BY <2>2, <1>1
    <3>2. w[h - 1] = s[h] BY <3>1, <1>2
    <3> QED BY <3>1, <3>2, <1>2
  <2>3. CASE h = i BY <2>3
  <2> QED BY <2>1, <2>2, <2>3, <1>1
<1> QED BY <1>2, <1>5, <1>6, <1>7

\* A snapshot of a registry is a list of entries that say what the jobs say.
LEMMA SnapshotFacts ==
  ASSUME NEW js \in Seq(Job), state \in [Job -> Live \cup Terminal]
  PROVE  /\ Snapshot(js) \in Seq(ViewEntry)
         /\ \A i \in DOMAIN Snapshot(js) :
              /\ Snapshot(js)[i].id \in Job
              /\ Snapshot(js)[i].state = state[Snapshot(js)[i].id]
<1>1. Len(js) \in Nat /\ DOMAIN js = 1..Len(js) /\ \A i \in DOMAIN js : js[i] \in Job OBVIOUS
<1>2. DOMAIN Snapshot(js) = 1..Len(js) BY <1>1 DEF Snapshot
<1>3. ASSUME NEW i \in 1..Len(js)
      PROVE  /\ Snapshot(js)[i] = [id |-> js[i], state |-> state[js[i]]]
             /\ Snapshot(js)[i] \in ViewEntry
  BY <1>1 DEF Snapshot, ViewEntry
<1>4. Snapshot(js) \in [1..Len(js) -> ViewEntry] BY <1>1, <1>3 DEF Snapshot
<1>5. Snapshot(js) \in Seq(ViewEntry) BY <1>1, <1>4
<1> QED BY <1>1, <1>2, <1>3, <1>5

-----------------------------------------------------------------------------
\* The part of TypeOK that types the variables, and the part about the lock.
Typed ==
  /\ jobs \in Seq(Job) /\ view \in Seq(ViewEntry)
  /\ gmu \in {"free", "main", "submit"}
  /\ jmu \subseteq Job /\ cancel \subseteq Job /\ joined \subseteq Job
  /\ state \in [Job -> Live \cup Terminal]
  /\ tpc \in [Job -> {"none", "spawned", "body", "returned", "exited"}]
  /\ call \in [Job -> {"idle", "lock", "publish", "accepted", "rejected"}]
  /\ main \in {"idle", "reap", "reap_join", "down_lock", "down", "down_join"}
  /\ cursor \in Nat \ {0}
Flags == shutting \in BOOLEAN /\ changed \in BOOLEAN /\ expired \in BOOLEAN
Locked ==
  /\ gmu = "main" <=> main \in {"reap", "reap_join", "down", "down_join"}
  /\ gmu = "submit" <=> \E j \in Job : call[j] = "publish"
  /\ \A j, k \in Job : call[j] = "publish" /\ call[k] = "publish" => j = k

LEMMA TypeParts == TypeOK <=> Typed /\ Flags /\ Locked
BY DEF TypeOK, Typed, Flags, Locked

LEMMA JobsInit == Init => JInv /\ CapInv
<1> SUFFICES ASSUME Init PROVE JInv /\ CapInv OBVIOUS
<1>1. shutting \in BOOLEAN /\ changed \in BOOLEAN /\ expired \in BOOLEAN BY Zenon DEF Init
<1>2. Typed BY DEF Init, Typed, Live, Terminal
<1>3. Locked BY DEF Init, Locked
<1>4. TypeOK BY <1>1, <1>2, <1>3, TypeParts DEF Flags
<1>5. Lifecycle /\ Walked /\ AtEntry /\ LiveJobReachable /\ ViewIsTruthful
  BY DEF Init, Lifecycle, Walked, AtEntry, LiveJobReachable, ViewIsTruthful
<1>6. LiveListed = {} BY DEF LiveListed, Listed, Init
<1>7. CapInv
  <2>1. Cardinality(LiveListed) = 0 BY <1>6, FS_EmptySet
  <2> QED BY <2>1, JobsAssumption DEF CapInv, LiveWithinCap, Init
<1> QED BY <1>4, <1>5, <1>7 DEF JInv

\* Every step keeps the flags Boolean.
LEMMA FlagsStep == ASSUME TypeOK, [Next]_vars PROVE Flags'
<1>1. Flags BY Zenon DEF TypeOK, Flags
<1>2. ASSUME NEW j \in Job, ThreadStep(j) \/ SubmitCheck(j) \/ SubmitStep(j) \/ Cancel(j)
      PROVE  Flags'
  BY <1>1, <1>2, Zenon DEF Flags, ThreadStep, ThreadStart, Fail, BodyReturn, ThreadFinish,
     SubmitCheck, SubmitStep, SubmitSpawn, SubmitPublish, Cancel, mainVars
<1>3. CASE ReapBegin \/ ReapStep
  BY <1>1, <1>3, Zenon DEF Flags, ReapBegin, ReapStep, ReapVisit, ReapJoin, ReapTrim, ReapEnd
<1>4. CASE ShutdownFlag \/ Expire \/ ShutdownStep \/ Reset
  BY <1>1, <1>4, Zenon DEF Flags, ShutdownFlag, Expire, ShutdownStep, ShutdownCancel,
     ShutdownVisit, ShutdownJoin, ShutdownClear, Reset, mainVars
<1>5. CASE UNCHANGED vars BY <1>1, <1>5, Zenon DEF Flags, vars, mainVars
<1> QED BY <1>2, <1>3, <1>4, <1>5 DEF Next

\* The snapshot's entries are about jobs.
LEMMA ViewIds == ASSUME Typed PROVE \A i \in DOMAIN view : view[i].id \in Job
<1>1. \A i \in DOMAIN view : view[i] \in ViewEntry BY DEF Typed
<1>2. \A v \in ViewEntry : v.id \in Job BY DEF ViewEntry
<1> QED BY <1>1, <1>2

\* A step of a job's thread keeps the invariant.
LEMMA ThreadKeeps ==
  ASSUME JInv, NEW j \in Job, ThreadStep(j)
  PROVE  Typed' /\ Locked' /\ Lifecycle' /\ Walked' /\ AtEntry' /\ LiveJobReachable' /\ ViewIsTruthful'
<1> USE DEF Live, Terminal, mainVars, threadVars
<1>0. Typed /\ Locked BY TypeParts DEF JInv
<1>1. UNCHANGED <<jobs, gmu, jmu, shutting, view, cancel, joined, call, main, cursor>>
  BY DEF ThreadStep, ThreadStart, Fail, BodyReturn, ThreadFinish
<1>2. /\ state' \in [Job -> Live \cup Terminal]
      /\ tpc' \in [Job -> {"none", "spawned", "body", "returned", "exited"}]
  BY <1>0 DEF Typed, ThreadStep, ThreadStart, Fail, BodyReturn, ThreadFinish, Outcome
<1>3. Typed' /\ Locked' BY <1>0, <1>1, <1>2 DEF Typed, Locked
<1>4. \A k \in Job : k # j => state'[k] = state[k] /\ tpc'[k] = tpc[k]
  BY <1>0 DEF Typed, ThreadStep, ThreadStart, Fail, BodyReturn, ThreadFinish
<1>5. /\ state[j] \in Terminal => state'[j] = state[j]
      /\ state[j] # "queued" => state'[j] # "queued"
      /\ tpc[j] \in {"spawned", "body", "returned"}
      /\ tpc'[j] \in {"body", "returned"} => state'[j] \in {"running", "failed"}
      /\ tpc'[j] \in {"body", "returned", "exited"}
  BY <1>0 DEF JInv, Lifecycle, Typed, ThreadStep, ThreadStart, Fail, BodyReturn, ThreadFinish, Outcome
<1>6. Lifecycle' BY <1>0, <1>1, <1>4, <1>5 DEF JInv, Lifecycle, Typed
<1>7. Walked' /\ AtEntry' BY <1>1 DEF JInv, Walked, AtEntry
<1>8. LiveJobReachable' BY <1>1, <1>4, <1>5 DEF JInv, LiveJobReachable, Listed
<1>9. ViewIsTruthful'
  <2>1. \A i \in DOMAIN view : view[i].id \in Job BY <1>0, ViewIds
  <2> QED BY <2>1, <1>1, <1>4, <1>5 DEF JInv, ViewIsTruthful
<1> QED BY <1>3, <1>6, <1>7, <1>8, <1>9

\* A step that leaves the jobs alone, and the snapshot too or rebuilds it.
LEMMA ViewKeeps ==
  ASSUME Typed, ViewIsTruthful, state' = state,
         view' = view \/ \E js \in Seq(Job) : view' = Snapshot(js)
  PROVE  view' \in Seq(ViewEntry) /\ ViewIsTruthful'
<1>1. state \in [Job -> Live \cup Terminal] BY DEF Typed
<1>2. CASE view' = view BY <1>2 DEF Typed, ViewIsTruthful
<1>3. ASSUME NEW js \in Seq(Job), view' = Snapshot(js)
      PROVE  view' \in Seq(ViewEntry) /\ ViewIsTruthful'
  <2>1. view' \in Seq(ViewEntry) BY <1>1, <1>3, SnapshotFacts
  <2>2. \A i \in DOMAIN view' : view'[i].state = state[view'[i].id]
    BY <1>1, <1>3, SnapshotFacts
  <2>3. "queued" \notin Terminal /\ "running" # "queued" BY DEF Terminal
  <2> QED BY <2>1, <2>2, <2>3 DEF ViewIsTruthful
<1> QED BY <1>2, <1>3

\* The steps of submit() and cancel() keep the invariant.
LEMMA CallKeeps ==
  ASSUME JInv, NEW j \in Job, SubmitCheck(j) \/ SubmitStep(j) \/ Cancel(j)
  PROVE  Typed' /\ Locked' /\ Lifecycle' /\ Walked' /\ AtEntry' /\ LiveJobReachable' /\ ViewIsTruthful'
<1> USE DEF mainVars, threadVars
<1>0. Typed /\ Locked /\ ViewIsTruthful BY TypeParts DEF JInv
<1>1. CASE SubmitCheck(j)
  <2>1. Typed' BY <1>0, <1>1 DEF Typed, SubmitCheck
  <2>2. Locked' BY <1>0, <1>1 DEF Typed, Locked, SubmitCheck
  <2>3. Lifecycle' BY <1>0, <1>1 DEF JInv, Typed, Lifecycle, SubmitCheck
  <2>4. Walked' /\ AtEntry' BY <1>1 DEF JInv, Walked, AtEntry, SubmitCheck
  <2>5. LiveJobReachable' BY <1>0, <1>1 DEF JInv, Typed, LiveJobReachable, Listed, SubmitCheck
  <2>6. ViewIsTruthful' BY <1>0, <1>1 DEF ViewIsTruthful, SubmitCheck
  <2> QED BY <2>1, <2>2, <2>3, <2>4, <2>5, <2>6
<1>2. CASE SubmitSpawn(j)
  <2>1. Typed' BY <1>0, <1>2 DEF Typed, SubmitSpawn
  <2>2. Locked' BY <1>0, <1>2 DEF Typed, Locked, SubmitSpawn
  <2>3. Lifecycle' BY <1>0, <1>2 DEF JInv, Typed, Lifecycle, SubmitSpawn
  <2>4. Walked' /\ AtEntry' BY <1>2 DEF JInv, Walked, AtEntry, SubmitSpawn
  <2>5. LiveJobReachable' BY <1>0, <1>2 DEF JInv, Typed, LiveJobReachable, Listed, SubmitSpawn
  <2>6. ViewIsTruthful' BY <1>0, <1>2 DEF ViewIsTruthful, SubmitSpawn
  <2> QED BY <2>1, <2>2, <2>3, <2>4, <2>5, <2>6
<1>3. CASE SubmitPublish(j)
  <2>0. jobs \in Seq(Job) /\ jobs' = Append(jobs, j) /\ jobs' \in Seq(Job)
    BY <1>0, <1>3 DEF Typed, SubmitPublish
  <2>1. view' \in Seq(ViewEntry) /\ ViewIsTruthful'
    BY <1>0, <1>3, <2>0, ViewKeeps DEF SubmitPublish
  <2>2. Typed' BY <1>0, <1>3, <2>0, <2>1 DEF Typed, SubmitPublish
  <2>3. Locked' BY <1>0, <1>3 DEF Typed, Locked, SubmitPublish
  <2>4. Lifecycle' BY <1>0, <1>3 DEF JInv, Typed, Lifecycle, SubmitPublish
  <2>5. main \notin {"reap", "reap_join", "down", "down_join"}
    BY <1>0, <1>3 DEF Locked, SubmitPublish
  <2>6. Walked' /\ AtEntry' BY <1>3, <2>5 DEF JInv, Walked, AtEntry, SubmitPublish
  <2>7. Listed' = Listed \cup {j}
    BY <2>0 DEF Listed
  <2>8. LiveJobReachable' BY <1>0, <1>3, <2>7 DEF JInv, Typed, LiveJobReachable, SubmitPublish
  <2> QED BY <2>1, <2>2, <2>3, <2>4, <2>6, <2>8
<1>4. CASE Cancel(j)
  <2>1. Typed' BY <1>0, <1>4 DEF Typed, Cancel
  <2>2. Locked' BY <1>0, <1>4 DEF Locked, Cancel
  <2>3. Lifecycle' /\ Walked' /\ AtEntry' BY <1>4 DEF JInv, Lifecycle, Walked, AtEntry, Cancel
  <2>4. LiveJobReachable' BY <1>4 DEF JInv, LiveJobReachable, Listed, Cancel
  <2>5. ViewIsTruthful' BY <1>0, <1>4 DEF ViewIsTruthful, Cancel
  <2> QED BY <2>1, <2>2, <2>3, <2>4, <2>5
<1> QED BY <1>1, <1>2, <1>3, <1>4 DEF SubmitStep

\* The steps of reap() keep the invariant.
LEMMA ReapKeeps ==
  ASSUME JInv, ReapBegin \/ ReapStep
  PROVE  Typed' /\ Locked' /\ Lifecycle' /\ Walked' /\ AtEntry' /\ LiveJobReachable' /\ ViewIsTruthful'
<1> USE DEF threadVars
<1>0. Typed /\ Locked /\ ViewIsTruthful /\ cursor \in Nat BY TypeParts DEF JInv, Typed
<1>1. state' = state /\ tpc' = tpc /\ call' = call
  BY DEF ReapBegin, ReapStep, ReapVisit, ReapJoin, ReapTrim, ReapEnd
<1>2. Lifecycle' BY <1>1 DEF JInv, Lifecycle
<1>3. CASE ReapBegin
  <2>1. Typed' /\ Locked' BY <1>0, <1>3 DEF Typed, Locked, ReapBegin
  <2>2. Walked' /\ AtEntry' BY <1>3 DEF Walked, AtEntry, ReapBegin
  <2>3. LiveJobReachable' /\ ViewIsTruthful'
    BY <1>3 DEF JInv, LiveJobReachable, ViewIsTruthful, Listed, ReapBegin
  <2> QED BY <1>2, <2>1, <2>2, <2>3
<1>4. CASE ReapVisit
  <2>0. jobs[cursor] \in Job BY <1>0, <1>4 DEF Typed, ReapVisit
  <2>1. Typed' BY <1>0, <1>4, <2>0 DEF Typed, ReapVisit
  <2>2. Locked' BY <1>0, <1>4 DEF Locked, ReapVisit
  <2>3. Walked' /\ AtEntry' BY <1>4 DEF Walked, AtEntry, ReapVisit
  <2>4. LiveJobReachable' /\ ViewIsTruthful'
    BY <1>4 DEF JInv, LiveJobReachable, ViewIsTruthful, Listed, ReapVisit
  <2> QED BY <1>2, <2>1, <2>2, <2>3, <2>4
<1>5. CASE ReapJoin
  <2>0. jobs[cursor] \in Job BY <1>0, <1>5 DEF JInv, AtEntry, Typed, ReapJoin
  <2>1. Typed' BY <1>0, <1>5, <2>0 DEF Typed, ReapJoin
  <2>2. Locked' BY <1>0, <1>5 DEF Locked, ReapJoin
  <2>3. Walked' /\ AtEntry' BY <1>5 DEF Walked, AtEntry, ReapJoin
  <2>4. LiveJobReachable' /\ ViewIsTruthful'
    BY <1>5 DEF JInv, LiveJobReachable, ViewIsTruthful, Listed, ReapJoin
  <2> QED BY <1>2, <2>1, <2>2, <2>3, <2>4
<1>6. CASE ReapTrim
  <2>1. PICK i \in DOMAIN jobs : Erasable(i) /\ jobs' = Without(jobs, i) BY <1>6 DEF ReapTrim
  <2>2. jobs \in Seq(Job) BY <1>0 DEF Typed
  <2>3. /\ jobs' \in Seq(Job)
        /\ \A h \in DOMAIN jobs : jobs[h] = jobs[i] \/ \E k \in DOMAIN jobs' : jobs'[k] = jobs[h]
    BY <2>1, <2>2, WithoutFacts
  <2>4. Typed' BY <1>0, <1>6, <2>3 DEF Typed, ReapTrim
  <2>5. Locked' BY <1>0, <1>6 DEF Locked, ReapTrim
  <2>6. Walked' /\ AtEntry' BY <1>6 DEF Walked, AtEntry, ReapTrim
  <2>7. jobs[i] \in joined BY <2>1 DEF Erasable
  <2>8. LiveJobReachable'
    BY <1>1, <1>6, <2>3, <2>7 DEF JInv, LiveJobReachable, Listed, ReapTrim
  <2>9. ViewIsTruthful' BY <1>6 DEF JInv, ViewIsTruthful, ReapTrim
  <2> QED BY <1>2, <2>4, <2>5, <2>6, <2>8, <2>9
<1>7. CASE ReapEnd
  <2>1. jobs \in Seq(Job) BY <1>0 DEF Typed
  <2>2. view' \in Seq(ViewEntry) /\ ViewIsTruthful'
    BY <1>0, <1>1, <1>7, <2>1, ViewKeeps DEF ReapEnd
  <2>3. Typed' BY <1>0, <1>7, <2>2 DEF Typed, ReapEnd
  <2>4. Locked' BY <1>0, <1>7 DEF Locked, ReapEnd
  <2>5. Walked' /\ AtEntry' BY <1>7 DEF Walked, AtEntry, ReapEnd
  <2>6. LiveJobReachable' BY <1>1, <1>7 DEF JInv, LiveJobReachable, Listed, ReapEnd
  <2> QED BY <1>2, <2>2, <2>3, <2>4, <2>5, <2>6
<1> QED BY <1>3, <1>4, <1>5, <1>6, <1>7 DEF ReapStep

\* The steps of shutdown(), its deadline and reset() keep the invariant.
LEMMA ShutdownKeeps ==
  ASSUME JInv, ShutdownFlag \/ Expire \/ ShutdownStep \/ Reset
  PROVE  Typed' /\ Locked' /\ Lifecycle' /\ Walked' /\ AtEntry' /\ LiveJobReachable' /\ ViewIsTruthful'
<1> USE DEF threadVars, mainVars
<1>0. Typed /\ Locked /\ ViewIsTruthful /\ cursor \in Nat BY TypeParts DEF JInv, Typed
<1>1. state' = state /\ tpc' = tpc /\ call' = call /\ view' = view
  BY DEF ShutdownFlag, Expire, ShutdownStep, ShutdownCancel, ShutdownVisit, ShutdownJoin,
         ShutdownClear, Reset
<1>2. Lifecycle' /\ ViewIsTruthful' BY <1>1 DEF JInv, Lifecycle, ViewIsTruthful
<1>3. CASE ShutdownFlag \/ Expire \/ Reset
  <2>1. Typed' BY <1>0, <1>3 DEF Typed, ShutdownFlag, Expire, Reset
  <2>2. Locked' BY <1>0, <1>3 DEF Locked, ShutdownFlag, Expire, Reset
  <2>3. Walked' /\ AtEntry' /\ LiveJobReachable'
    BY <1>3 DEF JInv, Walked, AtEntry, LiveJobReachable, Listed, ShutdownFlag, Expire, Reset
  <2> QED BY <1>2, <2>1, <2>2, <2>3
<1>4. CASE ShutdownCancel
  <2>1. Listed \subseteq Job BY <1>0 DEF Typed, Listed
  <2>2. Typed' BY <1>0, <1>4, <2>1 DEF Typed, ShutdownCancel
  <2>3. Locked' BY <1>0, <1>4 DEF Locked, ShutdownCancel
  <2>4. cursor = 1 BY <1>4 DEF JInv, ShutdownCancel, AtEntry
  <2>5. Walked'
    <3>1. \A i \in DOMAIN jobs : ~(i < 1) BY <1>0 DEF Typed
    <3> QED BY <1>4, <2>4, <3>1 DEF Walked, ShutdownCancel
  <2>6. AtEntry' /\ LiveJobReachable'
    BY <1>4 DEF JInv, AtEntry, LiveJobReachable, Listed, ShutdownCancel
  <2> QED BY <1>2, <2>2, <2>3, <2>5, <2>6
<1>5. CASE ShutdownVisit
  <2>0. jobs[cursor] \in Job /\ DOMAIN jobs \subseteq Nat BY <1>0, <1>5 DEF Typed, ShutdownVisit
  <2>1. Typed' BY <1>0, <1>5, <2>0 DEF Typed, ShutdownVisit
  <2>2. Locked' BY <1>0, <1>5 DEF Locked, ShutdownVisit
  <2>3. Walked'
    <3>1. \A i \in DOMAIN jobs : i < cursor + 1 => i < cursor \/ i = cursor BY <1>0, <2>0
    <3> QED BY <1>5, <3>1 DEF JInv, Walked, ShutdownVisit
  <2>4. AtEntry' BY <1>5 DEF AtEntry, ShutdownVisit
  <2>5. LiveJobReachable' BY <1>5 DEF JInv, LiveJobReachable, Listed, ShutdownVisit
  <2> QED BY <1>2, <2>1, <2>2, <2>3, <2>4, <2>5
<1>6. CASE ShutdownJoin
  <2>0. jobs[cursor] \in Job /\ DOMAIN jobs \subseteq Nat
    BY <1>0, <1>6 DEF JInv, AtEntry, Typed, ShutdownJoin
  <2>1. Typed' BY <1>0, <1>6, <2>0 DEF Typed, ShutdownJoin
  <2>2. Locked' BY <1>0, <1>6 DEF Locked, ShutdownJoin
  <2>3. Walked'
    <3>1. \A i \in DOMAIN jobs : i < cursor + 1 => i < cursor \/ i = cursor BY <1>0, <2>0
    <3> QED BY <1>6, <3>1 DEF JInv, Walked, ShutdownJoin
  <2>4. AtEntry' BY <1>6 DEF AtEntry, ShutdownJoin
  <2>5. LiveJobReachable' BY <1>6 DEF JInv, LiveJobReachable, Listed, ShutdownJoin
  <2> QED BY <1>2, <2>1, <2>2, <2>3, <2>4, <2>5
<1>7. CASE ShutdownClear
  <2>1. Typed' BY <1>0, <1>7 DEF Typed, ShutdownClear
  <2>2. Locked' BY <1>0, <1>7 DEF Locked, ShutdownClear
  <2>3. Walked' /\ AtEntry' BY <1>7 DEF Walked, AtEntry, ShutdownClear
  <2>4. \A i \in DOMAIN jobs : i < cursor
    BY <1>0, <1>7 DEF Typed, ShutdownClear
  <2>5. Listed \subseteq joined BY <1>7, <2>4 DEF JInv, Walked, Listed, ShutdownClear
  <2>6. LiveJobReachable' BY <1>1, <1>7, <2>5 DEF JInv, LiveJobReachable, ShutdownClear
  <2> QED BY <1>2, <2>1, <2>2, <2>3, <2>6
<1> QED BY <1>3, <1>4, <1>5, <1>6, <1>7 DEF ShutdownStep

\* The invariant is inductive.
LEMMA JobsStep == JInv /\ [Next]_vars => JInv'
<1> SUFFICES ASSUME JInv, [Next]_vars PROVE JInv' OBVIOUS
<1> DEFINE Keep == /\ Typed' /\ Locked' /\ Lifecycle' /\ Walked' /\ AtEntry'
                   /\ LiveJobReachable' /\ ViewIsTruthful'
<1>1. Flags' BY FlagsStep DEF JInv
<1>6. Keep
  <2>2. ASSUME NEW j \in Job, ThreadStep(j) \/ SubmitCheck(j) \/ SubmitStep(j) \/ Cancel(j)
        PROVE  Keep
    BY <2>2, ThreadKeeps, CallKeeps
  <2>3. CASE ReapBegin \/ ReapStep BY <2>3, ReapKeeps
  <2>4. CASE ShutdownFlag \/ Expire \/ ShutdownStep \/ Reset BY <2>4, ShutdownKeeps
  <2>5. CASE UNCHANGED vars
    <3>1. Typed /\ Locked BY TypeParts DEF JInv
    <3>2. Typed' /\ Locked'
      BY <2>5, <3>1 DEF Typed, Locked, vars, mainVars, threadVars
    <3>3. Lifecycle' /\ Walked' /\ AtEntry' /\ LiveJobReachable' /\ ViewIsTruthful'
      BY <2>5 DEF JInv, Lifecycle, Walked, AtEntry, LiveJobReachable, ViewIsTruthful, Listed,
                  vars, mainVars, threadVars
    <3> QED BY <3>2, <3>3
  <2> QED BY <2>2, <2>3, <2>4, <2>5 DEF Next
<1>7. TypeOK'
  BY <1>1, <1>6 DEF TypeOK, Typed, Flags, Locked
<1> QED BY <1>6, <1>7 DEF JInv

\* No step turns an outcome into something else, or makes a job live again.
LEMMA OutcomeStep ==
  ASSUME JInv, [Next]_vars
  PROVE  \A j \in Job : /\ state[j] \in Terminal => state'[j] = state[j]
                        /\ state'[j] \in Live => state[j] \in Live
<1> USE DEF threadVars, mainVars, Live, Terminal
<1>0. Typed BY TypeParts DEF JInv
<1>1. ASSUME NEW j \in Job, ThreadStep(j)
      PROVE  \A k \in Job : /\ state[k] \in Terminal => state'[k] = state[k]
                            /\ state'[k] \in Live => state[k] \in Live
  <2>1. \A k \in Job : k # j => state'[k] = state[k]
    BY <1>0, <1>1 DEF Typed, ThreadStep, ThreadStart, Fail, BodyReturn, ThreadFinish
  <2>2. /\ state[j] \in Terminal => state'[j] = state[j]
        /\ state'[j] \in Live => state[j] \in Live
    BY <1>0, <1>1 DEF JInv, Lifecycle, Typed, ThreadStep, ThreadStart, Fail, BodyReturn,
                      ThreadFinish, Outcome
  <2> QED BY <2>1, <2>2
<1>2. ASSUME NEW j \in Job, SubmitCheck(j) \/ SubmitStep(j) \/ Cancel(j) PROVE state' = state
  BY <1>2 DEF SubmitCheck, SubmitStep, SubmitSpawn, SubmitPublish, Cancel
<1>3. ReapBegin \/ ReapStep => state' = state
  BY DEF ReapBegin, ReapStep, ReapVisit, ReapJoin, ReapTrim, ReapEnd
<1>4. ShutdownFlag \/ Expire \/ ShutdownStep \/ Reset \/ UNCHANGED vars => state' = state
  BY DEF ShutdownFlag, Expire, ShutdownStep, ShutdownCancel, ShutdownVisit, ShutdownJoin,
         ShutdownClear, Reset, vars
<1> QED BY <1>1, <1>2, <1>3, <1>4 DEF Next

\* What a step adds to the registry: at most the job that submit() publishes.
LEMMA ListedStep ==
  ASSUME JInv, [Next]_vars
  PROVE  \/ Listed' \subseteq Listed
         \/ /\ gmu = "submit" /\ gmu' = "free"
            /\ \E j \in Job : Listed' \subseteq Listed \cup {j}
<1> USE DEF threadVars, mainVars
<1>0. Typed /\ Locked BY TypeParts DEF JInv
<1>1. ASSUME NEW j \in Job, SubmitPublish(j)
      PROVE  /\ gmu = "submit" /\ gmu' = "free"
             /\ Listed' \subseteq Listed \cup {j}
  <2>1. jobs \in Seq(Job) /\ jobs' = Append(jobs, j) BY <1>0, <1>1 DEF Typed, SubmitPublish
  <2>2. Listed' = Listed \cup {j} BY <2>1 DEF Listed
  <2> QED BY <1>0, <1>1, <2>2 DEF Locked, SubmitPublish
<1>2. ASSUME ReapTrim PROVE Listed' \subseteq Listed
  <2>1. PICK i \in DOMAIN jobs : jobs' = Without(jobs, i) BY <1>2 DEF ReapTrim
  <2>2. jobs \in Seq(Job) BY <1>0 DEF Typed
  <2>3. \A k \in DOMAIN jobs' : \E h \in DOMAIN jobs : jobs'[k] = jobs[h]
    BY <2>1, <2>2, WithoutFacts
  <2> QED BY <2>3 DEF Listed
<1>3. ASSUME ShutdownClear PROVE Listed' \subseteq Listed BY <1>3 DEF Listed, ShutdownClear
<1>4. ASSUME NEW j \in Job, ThreadStep(j) \/ SubmitCheck(j) \/ SubmitSpawn(j) \/ Cancel(j)
      PROVE  jobs' = jobs
  BY <1>4 DEF ThreadStep, ThreadStart, Fail, BodyReturn, ThreadFinish, SubmitCheck,
              SubmitSpawn, Cancel
<1>5. ReapBegin \/ ReapVisit \/ ReapJoin \/ ReapEnd => jobs' = jobs
  BY DEF ReapBegin, ReapVisit, ReapJoin, ReapEnd
<1>6. ShutdownFlag \/ Expire \/ ShutdownCancel \/ ShutdownVisit \/ ShutdownJoin \/ Reset
        \/ UNCHANGED vars => jobs' = jobs
  BY DEF ShutdownFlag, Expire, ShutdownCancel, ShutdownVisit, ShutdownJoin, Reset, vars
<1>7. jobs' = jobs => Listed' \subseteq Listed BY DEF Listed
<1> QED BY <1>1, <1>2, <1>3, <1>4, <1>5, <1>6, <1>7 DEF Next, SubmitStep, ReapStep, ShutdownStep

\* The cap is kept: the count and the publication of a job are one critical
\* section, and no other step makes a registered job live.
LEMMA CapStep == JInv /\ CapInv /\ [Next]_vars => CapInv'
<1> SUFFICES ASSUME JInv, CapInv, [Next]_vars PROVE CapInv' OBVIOUS
<1>0. Typed /\ Locked BY TypeParts DEF JInv
<1>1. /\ LiveListed \subseteq Job /\ IsFiniteSet(LiveListed)
      /\ Cardinality(LiveListed) \in Nat
  <2>1. LiveListed \subseteq Job BY <1>0 DEF Typed, LiveListed, Listed
  <2>2. IsFiniteSet(LiveListed) BY <2>1, JobsAssumption, FS_Subset
  <2> QED BY <2>1, <2>2, FS_CardinalityType
<1>2. MaxLive \in Nat BY JobsAssumption
<1>3. JInv' BY JobsStep
<1>4. CASE Listed' \subseteq Listed
  <2>1. Listed \subseteq Job BY <1>0 DEF Typed, Listed
  <2>2. LiveListed' \subseteq LiveListed BY <1>4, <2>1, OutcomeStep DEF LiveListed
  <2>3. Cardinality(LiveListed') <= Cardinality(LiveListed) /\ Cardinality(LiveListed') \in Nat
    BY <1>1, <2>2, FS_Subset, FS_CardinalityType
  <2>4. gmu' = "submit" => Cardinality(LiveListed) < MaxLive
    <3>1. CASE gmu = "submit" BY <3>1 DEF CapInv
    <3>2. CASE gmu # "submit" /\ gmu' = "submit"
      <4>1. PICK j \in Job : SubmitSpawn(j)
        BY <3>2 DEF Next, vars, ThreadStep, ThreadStart, Fail, BodyReturn, ThreadFinish,
           SubmitCheck, SubmitStep, SubmitPublish, Cancel, ReapBegin, ReapStep, ReapVisit,
           ReapJoin, ReapTrim, ReapEnd, ShutdownFlag, Expire, ShutdownStep, ShutdownCancel,
           ShutdownVisit, ShutdownJoin, ShutdownClear, Reset
      <4>2. ~AtCap BY <3>2, <4>1 DEF SubmitSpawn
      <4> QED BY <4>2, <1>1, <1>2 DEF AtCap
    <3> QED BY <3>1, <3>2
  <2> QED BY <1>1, <1>2, <2>3, <2>4 DEF CapInv, LiveWithinCap
<1>5. ASSUME gmu = "submit", gmu' = "free", NEW j \in Job, Listed' \subseteq Listed \cup {j}
      PROVE  CapInv'
  <2>1. Listed \subseteq Job BY <1>0 DEF Typed, Listed
  <2>2. LiveListed' \subseteq LiveListed \cup {j} BY <1>5, <2>1, OutcomeStep DEF LiveListed
  <2>3. /\ IsFiniteSet(LiveListed \cup {j})
        /\ Cardinality(LiveListed \cup {j}) <= Cardinality(LiveListed) + 1
    BY <1>1, FS_AddElement
  <2>4. /\ Cardinality(LiveListed') <= Cardinality(LiveListed \cup {j})
        /\ Cardinality(LiveListed') \in Nat /\ Cardinality(LiveListed \cup {j}) \in Nat
    BY <2>2, <2>3, FS_Subset, FS_CardinalityType
  <2>5. Cardinality(LiveListed) < MaxLive BY <1>5 DEF CapInv
  <2> QED BY <1>1, <1>2, <1>5, <2>3, <2>4, <2>5 DEF CapInv, LiveWithinCap
<1> QED BY <1>4, <1>5, ListedStep

-----------------------------------------------------------------------------
\* The coordinator's state stays well typed and its registry lock has one holder
\* at a time, for every set of jobs.
THEOREM JobsTypeCorrect == Spec => []TypeOK
<1>1. JInv => TypeOK BY DEF JInv
<1> QED BY <1>1, JobsInit, JobsStep, PTL DEF Spec

\* A job whose thread runs is never lost: reap() erases only jobs it joined and
\* shutdown() drops the registry only after joining or detaching every job.
THEOREM JobsReachable == Spec => []LiveJobReachable
<1>1. JInv => LiveJobReachable BY DEF JInv
<1> QED BY <1>1, JobsInit, JobsStep, PTL DEF Spec

\* What readers see is never ahead of a job and never a wrong outcome.
THEOREM JobsViewTruthful == Spec => []ViewIsTruthful
<1>1. JInv => ViewIsTruthful BY DEF JInv
<1> QED BY <1>1, JobsInit, JobsStep, PTL DEF Spec

\* The registry never holds more live jobs than max_live_jobs.
THEOREM JobsWithinCap == Spec => []LiveWithinCap
<1>1. JInv /\ CapInv /\ [Next]_vars => (JInv /\ CapInv)' BY JobsStep, CapStep
<1>2. CapInv => LiveWithinCap BY DEF CapInv
<1> QED BY <1>1, <1>2, JobsInit, PTL DEF Spec

\* A finished job keeps its outcome.
THEOREM JobsOutcomeFinal == Spec => OutcomeIsFinal
<1>1. JInv /\ [Next]_vars
        => [\A j \in Job : state[j] \in Terminal => state'[j] = state[j]]_vars
  BY OutcomeStep
<1> QED BY <1>1, JobsInit, JobsStep, PTL DEF Spec, OutcomeIsFinal

-----------------------------------------------------------------------------
(* The board *)

\* A thread that is over has left an outcome.
OverHasOutcome == \A j \in Job : tpc[j] = "exited" => state[j] \in Terminal

\* What was ever registered, joined or cancelled came out of submit().
CameFromSubmit == \A j \in Listed \cup joined \cup cancel : call[j] = "accepted"

\* Outside shutdown() a joined entry of the registry is one whose thread is over:
\* trimming it away takes nothing off the board.
JoinedIsOver ==
  main \notin {"down", "down_join"} =>
    \A j \in Listed : j \in joined => tpc[j] = "exited"

\* shutdown() asked every registered job to stop before it walks the registry.
AllAsked == main \in {"down", "down_join"} => Listed \subseteq cancel

BoardInv == OverHasOutcome /\ CameFromSubmit /\ JoinedIsOver /\ AllAsked

-----------------------------------------------------------------------------
LEMMA BoardInvInit == Init => BoardInv
BY DEF Init, BoardInv, OverHasOutcome, CameFromSubmit, JoinedIsOver, AllAsked, Listed

LEMMA ListedAreJobs == ASSUME Typed PROVE Listed \subseteq Job
BY DEF Typed, Listed

\* A step of a job's thread keeps BoardInv.
LEMMA ThreadKeepsBoardInv ==
  ASSUME JInv, BoardInv, NEW j \in Job, ThreadStep(j)
  PROVE  BoardInv'
<1> USE DEF Live, Terminal, mainVars, threadVars
<1>0. Typed /\ Listed \subseteq Job BY TypeParts, ListedAreJobs DEF JInv
<1>1. UNCHANGED <<jobs, cancel, joined, call, main>> /\ Listed' = Listed
  BY DEF ThreadStep, ThreadStart, Fail, BodyReturn, ThreadFinish, Listed
<1>2. \A k \in Job : k # j => state'[k] = state[k] /\ tpc'[k] = tpc[k]
  BY <1>0 DEF Typed, ThreadStep, ThreadStart, Fail, BodyReturn, ThreadFinish
<1>3. tpc[j] # "exited" /\ (tpc'[j] = "exited" => state'[j] \in Terminal)
  BY <1>0 DEF JInv, Lifecycle, Typed, ThreadStep, ThreadStart, Fail, BodyReturn, ThreadFinish, Outcome
<1>4. OverHasOutcome' BY <1>2, <1>3 DEF BoardInv, OverHasOutcome
<1>5. CameFromSubmit' /\ AllAsked' BY <1>1 DEF BoardInv, CameFromSubmit, AllAsked
<1>6. JoinedIsOver' BY <1>0, <1>1, <1>2, <1>3 DEF BoardInv, JoinedIsOver
<1> QED BY <1>4, <1>5, <1>6 DEF BoardInv

\* The steps of submit() and cancel() keep BoardInv.
LEMMA CallKeepsBoardInv ==
  ASSUME JInv, BoardInv, NEW j \in Job, SubmitCheck(j) \/ SubmitStep(j) \/ Cancel(j)
  PROVE  BoardInv'
<1> USE DEF mainVars, threadVars
<1>0. Typed /\ Locked /\ Listed \subseteq Job /\ joined \subseteq Job /\ cancel \subseteq Job
  BY TypeParts, ListedAreJobs DEF JInv, Typed
<1>1. CASE SubmitCheck(j) \/ SubmitSpawn(j)
  <2>1. UNCHANGED <<jobs, cancel, joined, state, main>> /\ Listed' = Listed
    BY <1>1 DEF SubmitCheck, SubmitSpawn, Listed
  <2>2. \A k \in Job : call[k] = "accepted" => call'[k] = "accepted" /\ tpc'[k] = tpc[k]
    BY <1>0, <1>1 DEF Typed, SubmitCheck, SubmitSpawn
  <2>3. \A k \in Job : tpc'[k] = "exited" => tpc[k] = "exited"
    BY <1>0, <1>1 DEF Typed, SubmitCheck, SubmitSpawn
  <2>4. OverHasOutcome' BY <2>1, <2>3 DEF BoardInv, OverHasOutcome
  <2>5. CameFromSubmit' BY <1>0, <2>1, <2>2 DEF BoardInv, CameFromSubmit
  <2>6. JoinedIsOver' /\ AllAsked'
    BY <1>0, <2>1, <2>2 DEF BoardInv, CameFromSubmit, JoinedIsOver, AllAsked
  <2> QED BY <2>4, <2>5, <2>6 DEF BoardInv
<1>2. CASE SubmitPublish(j)
  <2>1. jobs \in Seq(Job) /\ jobs' = Append(jobs, j) BY <1>0, <1>2 DEF Typed, SubmitPublish
  <2>2. Listed' = Listed \cup {j} BY <2>1 DEF Listed
  <2>3. UNCHANGED <<cancel, joined, state, tpc, main>> BY <1>2 DEF SubmitPublish
  <2>4. /\ \A k \in Job : call[k] = "accepted" => call'[k] = "accepted"
        /\ call[j] = "publish" /\ call'[j] = "accepted"
    BY <1>0, <1>2 DEF Typed, SubmitPublish
  <2>5. main \notin {"down", "down_join"} BY <1>0, <2>4 DEF Locked
  <2>6. j \notin joined BY <2>4 DEF BoardInv, CameFromSubmit
  <2>7. OverHasOutcome' BY <2>3 DEF BoardInv, OverHasOutcome
  <2>8. CameFromSubmit' BY <1>0, <2>2, <2>3, <2>4 DEF BoardInv, CameFromSubmit
  <2>9. JoinedIsOver' /\ AllAsked' BY <2>2, <2>3, <2>5, <2>6 DEF BoardInv, JoinedIsOver, AllAsked
  <2> QED BY <2>7, <2>8, <2>9 DEF BoardInv
<1>3. CASE Cancel(j)
  <2>1. UNCHANGED <<jobs, joined, state, tpc, call, main>> /\ Listed' = Listed
        /\ cancel' = cancel \cup {j} /\ j \in Listed
    BY <1>3 DEF Cancel, Listed
  <2> QED BY <2>1 DEF BoardInv, OverHasOutcome, CameFromSubmit, JoinedIsOver, AllAsked
<1> QED BY <1>1, <1>2, <1>3 DEF SubmitStep

\* The steps of reap() keep BoardInv.
LEMMA ReapKeepsBoardInv ==
  ASSUME JInv, BoardInv, ReapBegin \/ ReapStep
  PROVE  BoardInv'
<1> USE DEF threadVars
<1>0. Typed BY TypeParts DEF JInv
<1>1. /\ UNCHANGED <<state, tpc, call, cancel>>
      /\ main \notin {"down", "down_join"} /\ main' \notin {"down", "down_join"}
  BY DEF ReapBegin, ReapStep, ReapVisit, ReapJoin, ReapTrim, ReapEnd
<1>2. Listed' \subseteq Listed
  <2>1. CASE ReapTrim
    <3>1. PICK i \in DOMAIN jobs : jobs' = Without(jobs, i) BY <2>1 DEF ReapTrim
    <3>2. jobs \in Seq(Job) BY <1>0 DEF Typed
    <3>3. \A k \in DOMAIN jobs' : \E h \in DOMAIN jobs : jobs'[k] = jobs[h]
      BY <3>1, <3>2, WithoutFacts
    <3> QED BY <3>3 DEF Listed
  <2>2. CASE ReapBegin \/ ReapVisit \/ ReapJoin \/ ReapEnd
    BY <2>2 DEF Listed, ReapBegin, ReapVisit, ReapJoin, ReapEnd
  <2> QED BY <2>1, <2>2 DEF ReapStep
<1>3. \A k \in joined' : k \in joined \/ (k \in Listed /\ tpc[k] = "exited")
  <2>1. CASE ReapJoin
    <3>1. jobs[cursor] \in Listed BY <2>1 DEF JInv, AtEntry, Listed, ReapJoin
    <3> QED BY <2>1, <3>1 DEF ReapJoin
  <2>2. CASE ReapBegin \/ ReapVisit \/ ReapTrim \/ ReapEnd
    BY <2>2 DEF ReapBegin, ReapVisit, ReapTrim, ReapEnd
  <2> QED BY <2>1, <2>2 DEF ReapStep
<1>4. OverHasOutcome' BY <1>1 DEF BoardInv, OverHasOutcome
<1>5. CameFromSubmit' BY <1>1, <1>2, <1>3 DEF BoardInv, CameFromSubmit
<1>6. JoinedIsOver' /\ AllAsked' BY <1>1, <1>2, <1>3 DEF BoardInv, JoinedIsOver, AllAsked
<1> QED BY <1>4, <1>5, <1>6 DEF BoardInv

\* The steps of shutdown(), its deadline and reset() keep BoardInv.
LEMMA ShutdownKeepsBoardInv ==
  ASSUME JInv, BoardInv, ShutdownFlag \/ Expire \/ ShutdownStep \/ Reset
  PROVE  BoardInv'
<1> USE DEF threadVars, mainVars
<1>1. UNCHANGED <<state, tpc, call>>
  BY DEF ShutdownFlag, Expire, ShutdownStep, ShutdownCancel, ShutdownVisit, ShutdownJoin,
         ShutdownClear, Reset
<1>2. OverHasOutcome' BY <1>1 DEF BoardInv, OverHasOutcome
<1>3. CASE ShutdownFlag \/ Expire \/ Reset
  <2>1. UNCHANGED <<jobs, joined, cancel>> /\ Listed' = Listed
        /\ (main' \in {"down", "down_join"} <=> main \in {"down", "down_join"})
    BY <1>3 DEF ShutdownFlag, Expire, Reset, Listed
  <2> QED BY <1>1, <1>2, <2>1 DEF BoardInv, CameFromSubmit, JoinedIsOver, AllAsked
<1>4. CASE ShutdownCancel
  <2>1. joined' = joined /\ Listed' = Listed /\ cancel' = cancel \cup Listed /\ main' = "down"
    BY <1>4 DEF ShutdownCancel, Listed
  <2> QED BY <1>1, <1>2, <2>1 DEF BoardInv, CameFromSubmit, JoinedIsOver, AllAsked
<1>5. CASE ShutdownVisit \/ ShutdownJoin
  <2>1. /\ cancel' = cancel /\ Listed' = Listed
        /\ main \in {"down", "down_join"} /\ main' \in {"down", "down_join"}
    BY <1>5 DEF ShutdownVisit, ShutdownJoin, Listed
  <2>2. jobs[cursor] \in Listed
    BY <1>5 DEF JInv, AtEntry, Listed, ShutdownVisit, ShutdownJoin
  <2>3. joined' \subseteq joined \cup {jobs[cursor]} BY <1>5 DEF ShutdownVisit, ShutdownJoin
  <2> QED BY <1>1, <1>2, <2>1, <2>2, <2>3 DEF BoardInv, CameFromSubmit, JoinedIsOver, AllAsked
<1>6. CASE ShutdownClear
  <2>1. Listed' = {} /\ joined' = joined /\ cancel' = cancel /\ main' = "idle"
    BY <1>6 DEF ShutdownClear, Listed
  <2> QED BY <1>1, <1>2, <2>1 DEF BoardInv, CameFromSubmit, JoinedIsOver, AllAsked
<1> QED BY <1>3, <1>4, <1>5, <1>6 DEF ShutdownStep

\* BoardInv is inductive beside JInv.
LEMMA BoardInvStep == JInv /\ BoardInv /\ [Next]_vars => BoardInv'
<1> SUFFICES ASSUME JInv, BoardInv, [Next]_vars PROVE BoardInv' OBVIOUS
<1>1. ASSUME NEW j \in Job, ThreadStep(j) \/ SubmitCheck(j) \/ SubmitStep(j) \/ Cancel(j)
      PROVE  BoardInv'
  BY <1>1, ThreadKeepsBoardInv, CallKeepsBoardInv
<1>2. CASE ReapBegin \/ ReapStep BY <1>2, ReapKeepsBoardInv
<1>3. CASE ShutdownFlag \/ Expire \/ ShutdownStep \/ Reset BY <1>3, ShutdownKeepsBoardInv
<1>4. CASE UNCHANGED vars
  BY <1>4 DEF BoardInv, OverHasOutcome, CameFromSubmit, JoinedIsOver, AllAsked, Listed,
              vars, mainVars, threadVars
<1> QED BY <1>1, <1>2, <1>3, <1>4 DEF Next
-----------------------------------------------------------------------------
\* A job is on the board exactly while submit() or the registry has it live.
LEMMA BoardFacts ==
  ASSUME JInv, BoardInv
  PROVE  \A j \in Job :
           /\ OnTheBoard(j) = "none" <=> tpc[j] = "none" /\ call[j] # "rejected"
           /\ OnTheBoard(j) = "live" <=> /\ tpc[j] # "none" /\ state[j] \in Live
                                         /\ j \in Listed \/ call[j] = "publish"
<1>1. Typed BY TypeParts DEF JInv
<1>2. \A j \in Job : tpc[j] # "none" => call[j] # "rejected" BY DEF JInv, Lifecycle
<1> QED BY <1>1, <1>2 DEF OnTheBoard, Typed, Live, Terminal

\* A step that changes what the board shows of one job only.
LEMMA OneEntry ==
  ASSUME NEW j \in Job, NEW v, OnTheBoard(j)' = v,
         \A k \in Job : k # j => OnTheBoard(k)' = OnTheBoard(k)
  PROVE  [k \in Job |-> OnTheBoard(k)]' = [[k \in Job |-> OnTheBoard(k)] EXCEPT ![j] = v]
OBVIOUS

\* A step that changes nothing a job's place on the board depends on.
LEMMA SameEntry ==
  ASSUME NEW j \in Job, call'[j] = call[j], tpc'[j] = tpc[j], state'[j] = state[j],
         state[j] \in Terminal \/ (j \in Listed' <=> j \in Listed)
  PROVE  OnTheBoard(j)' = OnTheBoard(j)
BY DEF OnTheBoard

\* A step of a job's thread gives the job its outcome, or shows nothing.
LEMMA ThreadOnBoard ==
  ASSUME JInv, BoardInv, NEW j \in Job, ThreadStep(j)
  PROVE  [Board!BoardNext]_(Board!boardVars)
<1> USE DEF mainVars, threadVars
<1>0. Typed BY TypeParts DEF JInv
<1>1. UNCHANGED <<jobs, cancel, call>> /\ Listed' = Listed
  BY DEF ThreadStep, ThreadStart, Fail, BodyReturn, ThreadFinish, Listed
<1>2. \A k \in Job : k # j => state'[k] = state[k] /\ tpc'[k] = tpc[k]
  BY <1>0 DEF Typed, ThreadStep, ThreadStart, Fail, BodyReturn, ThreadFinish
<1>3. \A k \in Job : k # j => OnTheBoard(k)' = OnTheBoard(k) BY <1>1, <1>2, SameEntry
<1>4. call[j] # "rejected" /\ tpc[j] # "none" /\ tpc'[j] # "none"
  BY <1>0 DEF JInv, Lifecycle, Typed, ThreadStep, ThreadStart, Fail, BodyReturn, ThreadFinish
<1>5. \/ OnTheBoard(j)' = OnTheBoard(j)
      \/ \E o \in Terminal : /\ OnTheBoard(j) \in {"live", "dropped"} /\ OnTheBoard(j)' = o
                             /\ o = "cancelled" => j \in cancel
                             /\ o = "failed" => j \in Failing
  <2>1. CASE state[j] \in Terminal
    <3>1. state'[j] = state[j] BY <2>1, OutcomeStep DEF Next
    <3> QED BY <1>1, <1>4, <2>1, <3>1 DEF OnTheBoard
  <2>2. CASE state[j] \in Live /\ state'[j] \in Live
    BY <1>1, <1>4, <2>2 DEF OnTheBoard, Live, Terminal
  <2>3. CASE state[j] \in Live /\ state'[j] \in Terminal
    <3>1. OnTheBoard(j) \in {"live", "dropped"} BY <1>4, <2>3 DEF OnTheBoard, Live, Terminal
    <3>2. OnTheBoard(j)' = state'[j] BY <1>1, <1>4, <2>3 DEF OnTheBoard
    <3>3. /\ state'[j] = "cancelled" => j \in cancel
          /\ state'[j] = "failed" => j \in Failing
      BY <1>0, <2>3 DEF JInv, Lifecycle, Typed, ThreadStep, ThreadStart, Fail, BodyReturn,
                        ThreadFinish, Outcome, Live, Terminal
    <3> QED BY <2>3, <3>1, <3>2, <3>3
  <2>4. state[j] \in Live \cup Terminal /\ state'[j] \in Live \cup Terminal
    BY <1>0, ThreadKeeps DEF Typed
  <2> QED BY <2>1, <2>2, <2>3, <2>4
<1>6. CASE OnTheBoard(j)' = OnTheBoard(j)
  BY <1>1, <1>3, <1>6 DEF Board!boardVars
<1>7. ASSUME NEW o \in Terminal, OnTheBoard(j) \in {"live", "dropped"}, OnTheBoard(j)' = o,
             o = "cancelled" => j \in cancel, o = "failed" => j \in Failing
      PROVE  Board!BoardNext
  <2>1. [k \in Job |-> OnTheBoard(k)]' = [[k \in Job |-> OnTheBoard(k)] EXCEPT ![j] = o]
    BY <1>3, <1>7, OneEntry
  <2>2. Board!End(j, o) BY <1>1, <1>7, <2>1 DEF Board!End
  <2> QED BY <2>2 DEF Board!BoardNext, Board!Outcomes, Terminal
<1> QED BY <1>5, <1>6, <1>7

\* submit() puts a job on the board or refuses it; publishing it and asking it
\* to stop leave the board as it is.
LEMMA CallOnBoard ==
  ASSUME JInv, BoardInv, NEW j \in Job, SubmitCheck(j) \/ SubmitStep(j) \/ Cancel(j)
  PROVE  [Board!BoardNext]_(Board!boardVars)
<1> USE DEF mainVars, threadVars
<1>0. Typed /\ Locked /\ Listed \subseteq Job BY TypeParts, ListedAreJobs DEF JInv
<1>1. ASSUME SubmitCheck(j) \/ SubmitSpawn(j)
      PROVE  /\ UNCHANGED <<jobs, cancel, state>> /\ Listed' = Listed
             /\ \A k \in Job : k # j => OnTheBoard(k)' = OnTheBoard(k)
             /\ OnTheBoard(j) = "none"
             /\ call'[j] = "rejected" => OnTheBoard(j)' = "refused"
  <2>1. UNCHANGED <<jobs, cancel, state>> /\ Listed' = Listed
    BY <1>1 DEF SubmitCheck, SubmitSpawn, Listed
  <2>2. \A k \in Job : k # j => call'[k] = call[k] /\ tpc'[k] = tpc[k]
    BY <1>0, <1>1 DEF Typed, SubmitCheck, SubmitSpawn
  <2>3. call[j] \in {"idle", "lock"} /\ tpc[j] = "none"
    BY <1>1 DEF JInv, Lifecycle, SubmitCheck, SubmitSpawn
  <2> QED BY <2>1, <2>2, <2>3, SameEntry DEF OnTheBoard
<1>2. ASSUME SubmitCheck(j) \/ SubmitSpawn(j), call'[j] = "rejected"
      PROVE  Board!BoardNext
  <2>1. Board!Refuse(j) BY <1>1, <1>2, OneEntry DEF Board!Refuse
  <2> QED BY <2>1 DEF Board!BoardNext
<1>3. CASE SubmitCheck(j) /\ call'[j] # "rejected"
  <2>1. OnTheBoard(j)' = OnTheBoard(j)
    BY <1>0, <1>3 DEF JInv, Lifecycle, Typed, SubmitCheck, OnTheBoard
  <2> QED BY <1>1, <1>3, <2>1 DEF Board!boardVars
<1>4. CASE SubmitSpawn(j) /\ call'[j] # "rejected"
  <2>1. /\ ~AtCap /\ gmu = "free" /\ call'[j] = "publish" /\ tpc'[j] = "spawned"
        /\ state'[j] = "queued"
    BY <1>0, <1>4 DEF JInv, Lifecycle, Typed, SubmitSpawn
  <2>2. OnTheBoard(j)' = "live" BY <2>1 DEF OnTheBoard, Terminal
  <2>3. Board!OnBoard = LiveListed
    <3>1. \A k \in Job : call[k] # "publish" BY <1>0, <2>1 DEF Locked
    <3>2. \A k \in Listed : tpc[k] # "none"
      BY <1>0 DEF BoardInv, CameFromSubmit, JInv, Lifecycle
    <3> QED BY <1>0, <3>1, <3>2, BoardFacts DEF Board!OnBoard, LiveListed
  <2>4. Cardinality(LiveListed) < MaxLive
    <3>1. IsFiniteSet(LiveListed) BY <1>0, JobsAssumption, FS_Subset DEF LiveListed
    <3> QED BY <2>1, <3>1, FS_CardinalityType, JobsAssumption DEF AtCap
  <2>5. Board!Cardinality(LiveListed) = Cardinality(LiveListed)
    BY DEF Board!Cardinality, Cardinality
  <2>6. Board!Accept(j) BY <1>1, <1>4, <2>2, <2>3, <2>4, <2>5, OneEntry DEF Board!Accept
  <2> QED BY <2>6 DEF Board!BoardNext
<1>5. CASE SubmitPublish(j)
  <2>1. jobs \in Seq(Job) /\ jobs' = Append(jobs, j) BY <1>0, <1>5 DEF Typed, SubmitPublish
  <2>2. Listed' = Listed \cup {j} BY <2>1 DEF Listed
  <2>3. UNCHANGED <<state, tpc, cancel>> BY <1>5 DEF SubmitPublish
  <2>4. \A k \in Job : k # j => OnTheBoard(k)' = OnTheBoard(k)
    BY <1>0, <1>5, <2>2, <2>3, SameEntry DEF Typed, SubmitPublish
  <2>5. OnTheBoard(j)' = OnTheBoard(j)
    BY <1>0, <1>5, <2>2, <2>3 DEF Typed, SubmitPublish, OnTheBoard
  <2> QED BY <2>3, <2>4, <2>5 DEF Board!boardVars
<1>6. CASE Cancel(j)
  <2>1. UNCHANGED <<jobs, state, tpc, call>> /\ Listed' = Listed
    BY <1>6 DEF Cancel, Listed
  <2>2. \A k \in Job : OnTheBoard(k)' = OnTheBoard(k) BY <2>1, SameEntry
  <2>3. \A k \in cancel' : k \in Job /\ OnTheBoard(k) # "none"
    BY <1>0, <1>6, BoardFacts DEF Cancel, BoardInv, CameFromSubmit, JInv, Lifecycle, Typed
  <2>4. Board!AskToStop BY <1>6, <2>2, <2>3 DEF Board!AskToStop, Cancel
  <2> QED BY <2>4 DEF Board!BoardNext
<1> QED BY <1>2, <1>3, <1>4, <1>5, <1>6 DEF SubmitStep

\* reap() leaves the board as it is: what it trims has an outcome.
LEMMA ReapOnBoard ==
  ASSUME JInv, BoardInv, ReapBegin \/ ReapStep
  PROVE  UNCHANGED Board!boardVars
<1> USE DEF threadVars
<1>0. Typed BY TypeParts DEF JInv
<1>1. UNCHANGED <<state, tpc, call, cancel>>
  BY DEF ReapBegin, ReapStep, ReapVisit, ReapJoin, ReapTrim, ReapEnd
<1>2. \A k \in Job : state[k] \in Terminal \/ (k \in Listed' <=> k \in Listed)
  <2>1. CASE ReapTrim
    <3>1. PICK i \in DOMAIN jobs : Erasable(i) /\ jobs' = Without(jobs, i) BY <2>1 DEF ReapTrim
    <3>2. jobs \in Seq(Job) BY <1>0 DEF Typed
    <3>3. /\ \A k \in DOMAIN jobs' : \E h \in DOMAIN jobs : jobs'[k] = jobs[h]
          /\ \A h \in DOMAIN jobs : jobs[h] = jobs[i] \/ \E k \in DOMAIN jobs' : jobs'[k] = jobs[h]
      BY <3>1, <3>2, WithoutFacts
    <3>4. Listed' \subseteq Listed /\ Listed \subseteq Listed' \cup {jobs[i]} BY <3>3 DEF Listed
    <3>5. jobs[i] \in Job /\ jobs[i] \in Listed /\ jobs[i] \in joined
      BY <3>1, <3>2 DEF Erasable, Listed
    <3>6. state[jobs[i]] \in Terminal
      BY <2>1, <3>5 DEF BoardInv, JoinedIsOver, OverHasOutcome, ReapTrim
    <3> QED BY <3>4, <3>6
  <2>2. CASE ReapBegin \/ ReapVisit \/ ReapJoin \/ ReapEnd
    BY <2>2 DEF Listed, ReapBegin, ReapVisit, ReapJoin, ReapEnd
  <2> QED BY <2>1, <2>2 DEF ReapStep
<1>3. \A k \in Job : OnTheBoard(k)' = OnTheBoard(k) BY <1>1, <1>2, SameEntry
<1> QED BY <1>1, <1>3 DEF Board!boardVars

\* shutdown() asks every job to stop, and later drops those that still run.
LEMMA ShutdownOnBoard ==
  ASSUME JInv, BoardInv, ShutdownFlag \/ Expire \/ ShutdownStep \/ Reset
  PROVE  [Board!BoardNext]_(Board!boardVars)
<1> USE DEF threadVars, mainVars
<1>0. Typed /\ Locked /\ Listed \subseteq Job BY TypeParts, ListedAreJobs DEF JInv
<1>1. UNCHANGED <<state, tpc, call>>
  BY DEF ShutdownFlag, Expire, ShutdownStep, ShutdownCancel, ShutdownVisit, ShutdownJoin,
         ShutdownClear, Reset
<1>2. Listed' = Listed => \A k \in Job : OnTheBoard(k)' = OnTheBoard(k) BY <1>1, SameEntry
<1>3. CASE ShutdownFlag \/ Expire \/ Reset \/ ShutdownVisit \/ ShutdownJoin
  <2>1. Listed' = Listed /\ cancel' = cancel
    BY <1>3 DEF ShutdownFlag, Expire, Reset, ShutdownVisit, ShutdownJoin, Listed
  <2> QED BY <1>2, <2>1 DEF Board!boardVars
<1>4. CASE ShutdownCancel
  <2>1. Listed' = Listed /\ cancel' = cancel \cup Listed BY <1>4 DEF ShutdownCancel, Listed
  <2>2. \A k \in cancel' : k \in Job /\ OnTheBoard(k) # "none"
    BY <1>0, <2>1, BoardFacts DEF BoardInv, CameFromSubmit, JInv, Lifecycle, Typed
  <2>3. Board!AskToStop BY <1>2, <2>1, <2>2 DEF Board!AskToStop
  <2> QED BY <2>3 DEF Board!BoardNext
<1>5. CASE ShutdownClear
  <2>1. Listed' = {} /\ cancel' = cancel /\ gmu = "main" /\ main = "down"
    BY <1>0, <1>5 DEF ShutdownClear, Listed, Locked
  <2>2. \A k \in Job : call[k] # "publish" BY <1>0, <2>1 DEF Locked
  <2>3. \A k \in Job : OnTheBoard(k) = "live" => k \in cancel
    BY <2>1, <2>2, BoardFacts DEF BoardInv, AllAsked
  <2>4. ASSUME NEW k \in Job
        PROVE  OnTheBoard(k)' = IF OnTheBoard(k) = "live" THEN "dropped" ELSE OnTheBoard(k)
    BY <1>1, <2>1, <2>2 DEF OnTheBoard, Terminal
  <2>5. Board!Drop BY <2>1, <2>3, <2>4 DEF Board!Drop, Board!OnBoard
  <2> QED BY <2>5 DEF Board!BoardNext
<1> QED BY <1>3, <1>4, <1>5 DEF ShutdownStep

\* Every step of the coordinator is a step of the board or leaves it alone.
LEMMA BoardStep == JInv /\ BoardInv /\ [Next]_vars => [Board!BoardNext]_(Board!boardVars)
<1> SUFFICES ASSUME JInv, BoardInv, [Next]_vars
             PROVE  [Board!BoardNext]_(Board!boardVars)
  OBVIOUS
<1>1. ASSUME NEW j \in Job, ThreadStep(j) \/ SubmitCheck(j) \/ SubmitStep(j) \/ Cancel(j)
      PROVE  [Board!BoardNext]_(Board!boardVars)
  BY <1>1, ThreadOnBoard, CallOnBoard
<1>2. CASE ReapBegin \/ ReapStep BY <1>2, ReapOnBoard
<1>3. CASE ShutdownFlag \/ Expire \/ ShutdownStep \/ Reset BY <1>3, ShutdownOnBoard
<1>4. CASE UNCHANGED vars
  BY <1>4 DEF Board!boardVars, OnTheBoard, Listed, vars, threadVars
<1> QED BY <1>1, <1>2, <1>3, <1>4 DEF Next

\* The coordinator implements the board, for every set of jobs and every cap:
\* one outcome per job, never more live jobs than the cap, no cancellation
\* nobody asked for, and a shutdown that drops only what it asked to stop.
THEOREM JobsImplementBoard == Spec => ImplementsBoard
<1>1. Init => Board!BoardInit
  BY DEF Init, Board!BoardInit, OnTheBoard
<1>2. JInv /\ BoardInv /\ [Next]_vars => (JInv /\ BoardInv)' BY JobsStep, BoardInvStep
<1>3. Init => JInv /\ BoardInv BY JobsInit, BoardInvInit
<1> QED BY <1>1, <1>2, <1>3, BoardStep, PTL DEF Spec, ImplementsBoard, Board!BoardSpec
=============================================================================
