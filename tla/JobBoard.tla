------------------------------ MODULE JobBoard ------------------------------
(***************************************************************************)
(* What the job coordinator promises its callers (core/infra/jobs.hpp),    *)
(* without threads, locks or snapshots: a board on which every job has one *)
(* outcome, at most MaxLive jobs run, only a job somebody asked to stop    *)
(* ends as cancelled, and a shutdown drops what still runs.                *)
(***************************************************************************)
EXTENDS Integers, FiniteSets

CONSTANTS Job,       \* jobs callers may submit
          Failing,   \* those whose body may fail
          MaxLive    \* limits::max_live_jobs

VARIABLES board,     \* per job: "none", "refused", "live", "dropped" or its outcome
          asked      \* the jobs somebody asked to stop

boardVars == <<board, asked>>
Outcomes == {"succeeded", "cancelled", "failed"}
OnBoard == {j \in Job : board[j] = "live"}

BoardInit == board = [j \in Job |-> "none"] /\ asked = {}

Refuse(j) ==
    /\ board[j] = "none"
    /\ board' = [board EXCEPT ![j] = "refused"] /\ UNCHANGED asked
Accept(j) ==
    /\ board[j] = "none" /\ Cardinality(OnBoard) < MaxLive
    /\ board' = [board EXCEPT ![j] = "live"] /\ UNCHANGED asked
End(j, outcome) ==
    /\ board[j] \in {"live", "dropped"}
    /\ outcome = "cancelled" => j \in asked
    /\ outcome = "failed" => j \in Failing
    /\ board' = [board EXCEPT ![j] = outcome] /\ UNCHANGED asked
AskToStop ==
    /\ asked \subseteq asked' /\ asked' \subseteq {j \in Job : board[j] # "none"}
    /\ UNCHANGED board
Drop ==
    /\ OnBoard \subseteq asked
    /\ board' = [j \in Job |-> IF j \in OnBoard THEN "dropped" ELSE board[j]]
    /\ UNCHANGED asked

BoardNext ==
    \/ \E j \in Job : Refuse(j) \/ Accept(j) \/ \E o \in Outcomes : End(j, o)
    \/ AskToStop \/ Drop

BoardSpec == BoardInit /\ [][BoardNext]_boardVars
=============================================================================
