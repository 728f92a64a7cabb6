------------------------------ MODULE DiffJobs ------------------------------
(***************************************************************************)
(* The asynchronous binary diff of core/mcp/mcp_tools.cpp (analyze tool,   *)
(* actions diff_start, diff_job, diff_cancel), composed with the job       *)
(* coordinator it submits to.  A diff's record lives in g_diff_jobs under  *)
(* g_diff_mu; the request thread inserts it after submit() has returned    *)
(* and the job's body, already running, looks it up by id.                 *)
(***************************************************************************)
EXTENDS Jobs

CONSTANT MaxRecords   \* kMaxDiffJobs

\* A job's id is its place in the order of submission (g_next_id).
ASSUME DiffAssumption == Job \subseteq Nat /\ MaxRecords \in Nat \ {0}

VARIABLES
  started,   \* per job, what its diff_start has done since submit(): "no", "id", "replied"
  body,      \* where the job's body is: "wait", "noid", "diff", "over"
  rec        \* g_diff_jobs: "none", or the record's "queued", "done", "error"

diffVars == <<started, body, rec>>
allVars == <<vars, diffVars>>

DiffInit ==
  /\ Init
  /\ started = [j \in Job |-> "no"] /\ body = [j \in Job |-> "wait"]
  /\ rec = [j \in Job |-> "none"]

Records == {j \in Job : rec[j] # "none"}
Smallest(S, k) == {j \in S : Cardinality({h \in S : h <= j}) <= k}

-----------------------------------------------------------------------------
(* diff_start, after jobs::submit() returned *)

StoreId(j) ==
  /\ call[j] = "accepted" /\ started[j] = "no"
  /\ started' = [started EXCEPT ![j] = "id"]
  /\ UNCHANGED <<vars, body, rec>>

EvictedLate(S) == Smallest(S, Cardinality(S) - MaxRecords - 1)
Evicted(S) == Smallest(S, Cardinality(S) - MaxRecords)

\* The record is created and the records with the smallest ids make room.
InsertRecord(j) ==
  /\ started[j] = "id"
  /\ started' = [started EXCEPT ![j] = "replied"]
  /\ rec' = [k \in Job |-> IF k \in Evicted(Records \cup {j}) THEN "none"
                           ELSE IF k = j THEN "queued" ELSE rec[k]]
  /\ UNCHANGED <<vars, body>>

-----------------------------------------------------------------------------
(* The body of the job *)

GotId(j) ==
  /\ tpc[j] = "body" /\ body[j] = "wait" /\ started[j] # "no"
  /\ body' = [body EXCEPT ![j] = "diff"]
  /\ UNCHANGED <<vars, started, rec>>

\* The loop is left with id 0: the last of its 5000 loads came before the store, or
\* the cancel token fired before the next load, whatever diff_start has done since.
GiveUp(j) ==
  /\ tpc[j] = "body" /\ body[j] = "wait" /\ j \in Failing
  /\ started[j] = "no" \/ j \in cancel
  /\ body' = [body EXCEPT ![j] = "noid"]
  /\ UNCHANGED <<vars, started, rec>>

\* "diff job id never assigned": the body fails and leaves its record alone.
NoId(j) ==
  /\ body[j] = "noid"
  /\ Fail(j)
  /\ body' = [body EXCEPT ![j] = "over"]
  /\ UNCHANGED <<started, rec>>

Store(j, what) == rec' = IF rec[j] = "none" THEN rec ELSE [rec EXCEPT ![j] = what]

\* The diff succeeded (or stopped early with a partial result).
DiffDone(j) ==
  /\ tpc[j] = "body" /\ body[j] = "diff"
  /\ Store(j, "done")
  /\ body' = [body EXCEPT ![j] = "over"]
  /\ UNCHANGED <<vars, started>>

DiffErrorUnrecorded(j) ==
  /\ body[j] = "diff"
  /\ Fail(j)
  /\ body' = [body EXCEPT ![j] = "over"]
  /\ UNCHANGED <<started, rec>>

\* The diff threw: the error goes to the record and to ctx.fail().
DiffError(j) ==
  /\ body[j] = "diff"
  /\ Store(j, "error")
  /\ Fail(j)
  /\ body' = [body EXCEPT ![j] = "over"]
  /\ UNCHANGED <<started>>

-----------------------------------------------------------------------------
(* diff_cancel *)

\* diff_cancel of an id diff_start has answered with: whatever jobs::cancel says,
\* the record is left to the body.
DiffCancel(j) ==
  /\ started[j] = "replied"
  /\ Cancel(j)
  /\ UNCHANGED diffVars

-----------------------------------------------------------------------------
InOrder(j) == \A k \in Job : k < j => call[k] \notin {"idle", "lock"}

\* The steps of the coordinator that a diff does not refine.
JobsOnly ==
  \/ \E j \in Job :
       \/ ThreadStart(j) \/ ThreadFinish(j) \/ SubmitCheck(j) \/ SubmitPublish(j)
       \/ InOrder(j) /\ SubmitSpawn(j)
       \/ body[j] = "over" /\ BodyReturn(j)
  \/ ReapBegin \/ ReapStep
  \/ ShutdownFlag \/ Expire \/ ShutdownStep \/ Reset

DiffNext ==
  \/ JobsOnly /\ UNCHANGED diffVars
  \/ \E j \in Job : StoreId(j) \/ InsertRecord(j) \/ GotId(j) \/ GiveUp(j)
                    \/ NoId(j) \/ DiffDone(j) \/ DiffError(j) \/ DiffCancel(j)

DiffSpec == DiffInit /\ [][DiffNext]_allVars

\* As in Jobs, and a diff comes to an end one way or the other.
DiffFairSpec ==
  /\ DiffSpec
  /\ \A j \in Job :
       /\ WF_allVars((ThreadStart(j) \/ ThreadFinish(j) \/ SubmitStep(j)) /\ UNCHANGED diffVars)
       /\ WF_allVars(StoreId(j) \/ InsertRecord(j))
       /\ WF_allVars(GotId(j) \/ GiveUp(j) \/ NoId(j) \/ DiffDone(j) \/ DiffError(j))
       /\ WF_allVars(body[j] = "over" /\ BodyReturn(j) /\ UNCHANGED diffVars)
  /\ SF_allVars(ReapBegin /\ UNCHANGED diffVars)
  /\ WF_allVars(ReapStep /\ UNCHANGED diffVars)
  /\ SF_allVars(ShutdownStep /\ UNCHANGED diffVars)

-----------------------------------------------------------------------------
\* A record never outlives its bound, and one that holds a result or an error
\* belongs to a body that is past its diff.  (mcp_tools.cpp:4671-4688, 4699)
RecordsWithinBound ==
  /\ Cardinality(Records) <= MaxRecords
  /\ \A j \in Records : rec[j] # "queued" => body[j] = "over"

\* A diff that finds its record answers it: a record that is there while its body,
\* having loaded its id, runs the diff comes to hold a result or an error, cancelled
\* or not, or is evicted.  (A body that left the wait without its id answers nothing:
\* PollingEnds.)  (mcp_tools.cpp:4667-4688)
FoundRecordIsAnswered ==
  \A j \in Job :
    (rec[j] = "queued" /\ body[j] = "diff") ~> (rec[j] \in {"done", "error", "none"})

\* "poll analyze.diff_job(id) for stage/progress" (mcp_tools.cpp:4703): polling a
\* job that diff_start returned comes to an end.
PollingEnds ==
  \A j \in Job : (started[j] = "replied") ~> (rec[j] \in {"done", "error", "none"})
=============================================================================
