-------------------------------- MODULE Jobs --------------------------------
(***************************************************************************)
(* The job coordinator of core/infra/jobs.cpp: one thread per long job, a  *)
(* registry under g_mu, a published snapshot of it for readers, reap()     *)
(* from the engine's tick and shutdown() from its teardown.                *)
(*                                                                         *)
(* A critical section that cannot wait is one step.  reap() and shutdown() *)
(* wait inside theirs, so g_mu and the job mutex reap() holds are state.   *)
(***************************************************************************)
EXTENDS Integers, Sequences, FiniteSets

CONSTANTS
  Job,           \* the jobs callers may submit; the value is the job's id
  Cancellable,   \* those submitted with cancellable = true
  Failing,       \* those whose body may call ctx.fail()
  MaxLive,       \* limits::max_live_jobs
  KeepJobs,      \* reap() trims the registry to this many entries (32)
  CanShutdown    \* whether the engine shuts down in this instance

ASSUME JobsAssumption ==
  /\ IsFiniteSet(Job) /\ Cancellable \subseteq Job /\ Failing \subseteq Job
  /\ MaxLive \in Nat \ {0} /\ KeepJobs \in Nat
  /\ CanShutdown \in BOOLEAN

VARIABLES
  jobs,       \* g_jobs
  gmu,        \* who holds g_mu: nobody ("free"), the main thread, or a submit()
  jmu,        \* the jobs whose mutex reap() holds while it joins them
  shutting,   \* g_shutting_down
  view,       \* g_published: <<[id, state]>>
  state,      \* impl_t::state, per job
  tpc,        \* where the job's thread is
  cancel,     \* the jobs whose cancel source has fired
  joined,     \* the jobs with impl_t::joined set
  call,       \* how far submit() of each job has come
  main,       \* what the engine's main thread is doing
  cursor,     \* its position in g_jobs, 1 outside a walk
  changed,    \* reap()'s local
  expired     \* the running shutdown() is past its deadline

threadVars == <<state, tpc>>
mainVars == <<main, cursor, changed, expired>>
vars == <<jobs, gmu, jmu, shutting, view, threadVars, cancel, joined, call, mainVars>>

LiveIsQueued == {"queued"}
Live == {"queued", "running"}
Terminal == {"succeeded", "cancelled", "failed"}

Init ==
  /\ jobs = <<>> /\ gmu = "free" /\ jmu = {} /\ shutting = FALSE /\ view = <<>>
  /\ state = [j \in Job |-> "queued"] /\ tpc = [j \in Job |-> "none"]
  /\ cancel = {} /\ joined = {}
  /\ call = [j \in Job |-> "idle"]
  /\ main = "idle" /\ cursor = 1 /\ changed = FALSE /\ expired = FALSE

Listed == {jobs[i] : i \in DOMAIN jobs}

SnapshotEager(js) ==
  [i \in DOMAIN js |->
     [id |-> js[i], state |-> IF js[i] \in cancel THEN "cancelled" ELSE state[js[i]]]]

\* rebuild_snapshot() over the registry js.
Snapshot(js) == [i \in DOMAIN js |-> [id |-> js[i], state |-> state[js[i]]]]

-----------------------------------------------------------------------------
(* The job's thread *)

ThreadStart(j) ==
  /\ tpc[j] = "spawned"
  /\ tpc' = [tpc EXCEPT ![j] = "body"]
  /\ state' = [state EXCEPT ![j] = "running"]
  /\ UNCHANGED <<jobs, gmu, jmu, shutting, view, cancel, joined, call, mainVars>>

\* ctx.fail(): the job counts as failed from here on, though its thread runs on.
Fail(j) ==
  /\ tpc[j] = "body" /\ j \in Failing /\ j \notin jmu
  /\ state' = [state EXCEPT ![j] = "failed"]
  /\ UNCHANGED <<jobs, gmu, jmu, shutting, view, tpc, cancel, joined, call, mainVars>>

BodyReturn(j) ==
  /\ tpc[j] = "body"
  /\ tpc' = [tpc EXCEPT ![j] = "returned"]
  /\ UNCHANGED <<jobs, gmu, jmu, shutting, view, state, cancel, joined, call, mainVars>>

OutcomeAlways(j) == IF j \in cancel THEN "cancelled" ELSE "succeeded"
Outcome(j) ==
  IF state[j] # "running" THEN state[j]
  ELSE IF j \in cancel THEN "cancelled" ELSE "succeeded"

\* The last block of the thread, under the job's mutex.
ThreadFinish(j) ==
  /\ tpc[j] = "returned" /\ j \notin jmu
  /\ tpc' = [tpc EXCEPT ![j] = "exited"]
  /\ state' = [state EXCEPT ![j] = Outcome(j)]
  /\ UNCHANGED <<jobs, gmu, jmu, shutting, view, cancel, joined, call, mainVars>>

-----------------------------------------------------------------------------
(* submit() and cancel() *)

SubmitCheck(j) ==
  /\ call[j] = "idle"
  /\ \/ shutting /\ call' = [call EXCEPT ![j] = "rejected"]
     \/ ~shutting /\ call' = [call EXCEPT ![j] = "lock"]
  /\ UNCHANGED <<jobs, gmu, jmu, shutting, view, threadVars, cancel, joined, mainVars>>

LiveListed == {j \in Listed : state[j] \in Live}
AtCapOffByOne == Cardinality(LiveListed) > MaxLive
AtCap == Cardinality(LiveListed) >= MaxLive

\* The live jobs are counted and, below the cap, the thread is created.
SubmitSpawn(j) ==
  /\ call[j] = "lock" /\ gmu = "free"
  /\ \/ /\ AtCap
        /\ call' = [call EXCEPT ![j] = "rejected"]
        /\ UNCHANGED <<gmu, tpc>>
     \/ /\ ~AtCap
        /\ call' = [call EXCEPT ![j] = "publish"]
        /\ gmu' = "submit"
        /\ tpc' = [tpc EXCEPT ![j] = "spawned"]
  /\ UNCHANGED <<jobs, jmu, shutting, view, state, cancel, joined, mainVars>>

SubmitPublish(j) ==
  /\ call[j] = "publish"
  /\ jobs' = Append(jobs, j)
  /\ view' = Snapshot(jobs')
  /\ gmu' = "free"
  /\ call' = [call EXCEPT ![j] = "accepted"]
  /\ UNCHANGED <<jmu, shutting, threadVars, cancel, joined, mainVars>>

Cancel(j) ==
  /\ gmu = "free"
  /\ j \in Listed \cap Cancellable
  /\ cancel' = cancel \cup {j}
  /\ UNCHANGED <<jobs, gmu, jmu, shutting, view, threadVars, joined, call, mainVars>>

-----------------------------------------------------------------------------
(* reap() *)

ReapBeginUnlocked ==
  /\ main = "idle"
  /\ main' = "reap"
  /\ UNCHANGED <<jobs, gmu, jmu, shutting, view, threadVars, cancel, joined, call, cursor, changed, expired>>

ReapBegin ==
  /\ main = "idle" /\ gmu = "free"
  /\ main' = "reap" /\ gmu' = "main"
  /\ UNCHANGED <<jobs, jmu, shutting, view, threadVars, cancel, joined, call, cursor, changed, expired>>

\* reap() looks at the next entry: it passes over a job that is already joined
\* or still live, and takes the mutex of a finished one to join it.
ReapVisit ==
  /\ main = "reap" /\ cursor \in DOMAIN jobs
  /\ LET j == jobs[cursor] IN
       \/ /\ j \in joined \/ state[j] \in Live
          /\ cursor' = cursor + 1
          /\ UNCHANGED <<main, jmu>>
       \/ /\ j \notin joined /\ state[j] \notin Live
          /\ main' = "reap_join" /\ jmu' = {j}
          /\ UNCHANGED cursor
  /\ UNCHANGED <<jobs, gmu, shutting, view, threadVars, cancel, joined, call, changed, expired>>

ReapJoinQuiet ==
  /\ main = "reap_join" /\ tpc[jobs[cursor]] = "exited"
  /\ joined' = joined \cup {jobs[cursor]}
  /\ main' = "reap" /\ jmu' = {}
  /\ cursor' = cursor + 1
  /\ UNCHANGED <<jobs, gmu, shutting, view, threadVars, cancel, call, changed, expired>>

\* std::thread::join, with g_mu and the job's own mutex held.
ReapJoin ==
  /\ main = "reap_join" /\ tpc[jobs[cursor]] = "exited"
  /\ joined' = joined \cup {jobs[cursor]}
  /\ main' = "reap" /\ jmu' = {}
  /\ cursor' = cursor + 1 /\ changed' = TRUE
  /\ UNCHANGED <<jobs, gmu, shutting, view, threadVars, cancel, call, expired>>

Without(s, i) == [k \in 1..(Len(s) - 1) |-> s[IF k < i THEN k ELSE k + 1]]

ErasableAny(i) == i = 1
\* The first joined entry, which is what std::find_if finds.
Erasable(i) == jobs[i] \in joined /\ \A k \in 1..(i - 1) : jobs[k] \notin joined

\* One turn of the trimming loop.
ReapTrim ==
  /\ main = "reap" /\ cursor \notin DOMAIN jobs
  /\ Len(jobs) > KeepJobs
  /\ \E i \in DOMAIN jobs : Erasable(i) /\ jobs' = Without(jobs, i)
  /\ changed' = TRUE
  /\ UNCHANGED <<gmu, jmu, shutting, view, threadVars, cancel, joined, call, main, cursor, expired>>

ReapEnd ==
  /\ main = "reap" /\ cursor \notin DOMAIN jobs
  /\ Len(jobs) <= KeepJobs \/ \A i \in DOMAIN jobs : jobs[i] \notin joined
  /\ \/ changed /\ view' = Snapshot(jobs)
     \/ ~changed /\ view' = view
  /\ main' = "idle" /\ gmu' = "free"
  /\ cursor' = 1 /\ changed' = FALSE
  /\ UNCHANGED <<jobs, jmu, shutting, threadVars, cancel, joined, call, expired>>

-----------------------------------------------------------------------------
(* shutdown() *)

ShutdownFlag ==
  /\ CanShutdown /\ main = "idle" /\ ~shutting
  /\ shutting' = TRUE
  /\ main' = "down_lock"
  /\ UNCHANGED <<jobs, gmu, jmu, view, threadVars, cancel, joined, call, cursor, changed, expired>>

ShutdownCancel ==
  /\ main = "down_lock" /\ gmu = "free"
  /\ cancel' = cancel \cup Listed
  /\ main' = "down" /\ gmu' = "main"
  /\ UNCHANGED <<jobs, jmu, shutting, view, threadVars, joined, call, cursor, changed, expired>>

Expire ==
  /\ main \in {"down", "down_join"} /\ ~expired
  /\ expired' = TRUE
  /\ UNCHANGED <<jobs, gmu, jmu, shutting, view, threadVars, cancel, joined, call, main, cursor, changed>>

\* Join, skip or detach the next job; the deadline does not bound the join.
ShutdownVisit ==
  /\ main = "down" /\ cursor \in DOMAIN jobs
  /\ LET j == jobs[cursor] IN
       \/ /\ j \in joined \/ expired
          /\ joined' = joined \cup {j}
          /\ cursor' = cursor + 1
          /\ UNCHANGED main
       \/ /\ j \notin joined /\ ~expired
          /\ main' = "down_join"
          /\ UNCHANGED <<joined, cursor>>
  /\ UNCHANGED <<jobs, gmu, jmu, shutting, view, threadVars, cancel, call, changed, expired>>

ShutdownJoin ==
  /\ main = "down_join" /\ tpc[jobs[cursor]] = "exited"
  /\ joined' = joined \cup {jobs[cursor]}
  /\ main' = "down" /\ cursor' = cursor + 1
  /\ UNCHANGED <<jobs, gmu, jmu, shutting, view, threadVars, cancel, call, changed, expired>>

\* The registry is dropped; the published snapshot is not rebuilt.
ShutdownClear ==
  /\ main = "down" /\ cursor \notin DOMAIN jobs
  /\ jobs' = <<>>
  /\ main' = "idle" /\ gmu' = "free"
  /\ cursor' = 1 /\ expired' = FALSE
  /\ UNCHANGED <<jmu, shutting, view, threadVars, cancel, joined, call, changed>>

\* reset(): "let tests reuse the coordinator".
Reset ==
  /\ main = "idle" /\ shutting
  /\ shutting' = FALSE
  /\ UNCHANGED <<jobs, gmu, jmu, view, threadVars, cancel, joined, call, mainVars>>

-----------------------------------------------------------------------------
ThreadStep(j) == ThreadStart(j) \/ Fail(j) \/ BodyReturn(j) \/ ThreadFinish(j)
SubmitStep(j) == SubmitSpawn(j) \/ SubmitPublish(j)
ReapStep == ReapVisit \/ ReapJoin \/ ReapTrim \/ ReapEnd
ShutdownStep == ShutdownCancel \/ ShutdownVisit \/ ShutdownJoin \/ ShutdownClear

Next ==
  \/ \E j \in Job : ThreadStep(j) \/ SubmitCheck(j) \/ SubmitStep(j) \/ Cancel(j)
  \/ ReapBegin \/ ReapStep
  \/ ShutdownFlag \/ Expire \/ ShutdownStep \/ Reset

Spec == Init /\ [][Next]_vars

\* Bodies return and threads run; the tick keeps calling reap(), whose wait for
\* g_mu is not starved by submitters.  Nobody is obliged to submit or cancel.
FairSpec ==
  /\ Spec
  /\ \A j \in Job : WF_vars(ThreadStart(j) \/ BodyReturn(j) \/ ThreadFinish(j))
  /\ \A j \in Job : WF_vars(SubmitStep(j))
  /\ SF_vars(ReapBegin) /\ WF_vars(ReapStep)
  /\ SF_vars(ShutdownStep)

-----------------------------------------------------------------------------
ViewEntry == [id : Job, state : Live \cup Terminal]

TypeOK ==
  /\ jobs \in Seq(Job) /\ view \in Seq(ViewEntry)
  /\ gmu \in {"free", "main", "submit"}
  /\ jmu \subseteq Job /\ cancel \subseteq Job /\ joined \subseteq Job
  /\ shutting \in BOOLEAN /\ changed \in BOOLEAN /\ expired \in BOOLEAN
  /\ state \in [Job -> Live \cup Terminal]
  /\ tpc \in [Job -> {"none", "spawned", "body", "returned", "exited"}]
  /\ call \in [Job -> {"idle", "lock", "publish", "accepted", "rejected"}]
  /\ main \in {"idle", "reap", "reap_join", "down_lock", "down", "down_join"}
  /\ cursor \in Nat \ {0}
  /\ gmu = "main" <=> main \in {"reap", "reap_join", "down", "down_join"}
  /\ gmu = "submit" <=> \E j \in Job : call[j] = "publish"
  /\ \A j, k \in Job : call[j] = "publish" /\ call[k] = "publish" => j = k

\* A job whose thread still runs can be found: it is in the registry, it is just
\* being added, or shutdown() detached it.  The trimming of reap() never makes a
\* running job unreachable for cancel().  (jobs.cpp:182-187)
LiveJobReachable ==
  \A j \in Job : tpc[j] \in {"spawned", "body", "returned"} =>
    j \in Listed \/ call[j] = "publish" \/ j \in joined

\* The cap on concurrent jobs holds in the registry.  (jobs.cpp:101-108)
LiveWithinCap == Cardinality(LiveListed) <= MaxLive

\* A finished job keeps its outcome: neither a late cancel nor the end of the
\* thread turns a failure into something else.  (jobs.cpp:54-58, 127-133)
OutcomeIsFinal ==
  [][\A j \in Job : state[j] \in Terminal => state'[j] = state[j]]_vars

\* The snapshot readers poll never runs ahead of the jobs and never reports an
\* outcome that is not the job's outcome.  (jobs.cpp:72-93)
ViewIsTruthful ==
  \A i \in DOMAIN view :
    LET v == view[i] IN
      /\ v.state \in Terminal => state[v.id] = v.state
      /\ v.state = "running" => state[v.id] # "queued"

\* The coordinator seen as its callers see it.  A job is on the board from the
\* creation of its thread, inside the lock that counted the live jobs, until it
\* has an outcome or shutdown() clears the registry.
OnTheBoard(j) ==
  IF call[j] = "rejected" THEN "refused"
  ELSE IF tpc[j] = "none" THEN "none"
  ELSE IF state[j] \in Terminal THEN state[j]
  ELSE IF j \in Listed \/ call[j] = "publish" THEN "live"
  ELSE "dropped"

Board == INSTANCE JobBoard WITH board <- [j \in Job |-> OnTheBoard(j)], asked <- cancel

\* The coordinator implements the board: one outcome per job, the cap, no
\* cancellation nobody asked for, nothing dropped unasked.  (jobs.hpp:40-80)
ImplementsBoard == Board!BoardSpec

\* "call once a frame to join finished jobs" (jobs.hpp:65): a call of reap()
\* comes to an end.
ReapReturns == (main = "reap") ~> (main = "idle")

\* A job's end reaches the readers: once its thread has ended, the snapshot comes
\* to show its outcome, unless it has left the registry, or a job that called
\* ctx.fail() is in reap()'s way (see ReapReturns).  (jobs.cpp:168-189)
EndIsPublished ==
  \A j \in Job :
    (tpc[j] = "exited") ~>
      \/ j \notin Listed
      \/ \E k \in Job : state[k] = "failed"
      \/ \A i \in DOMAIN view : view[i].id = j => view[i].state \in Terminal
=============================================================================
