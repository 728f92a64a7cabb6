----------------------------- MODULE MCServices -----------------------------
(***************************************************************************)
(* The four services that tool calls share with threads of their own: the  *)
(* debugger, the attached target with its watch list, the memory scanner   *)
(* and the open image.  They keep no state in common, so a behaviour of    *)
(* the run follows one of them, chosen at the start.                       *)
(***************************************************************************)
EXTENDS Debugger, TargetWatch, Scanner, OpenImage

VARIABLE focus
servicesVars == <<focus, debuggerVars, watchVars, scanVars, imageVars>>

ScanRegions == << [base |-> 0, size |-> 4], [base |-> 4, size |-> 2] >>
ScanImages == { [b \in Space |-> IF b \in {0, 3} THEN 0 ELSE 1],
                [b \in Space |-> IF b \in {2, 5} THEN 0 ELSE 1] }

\* Whoever is not followed starts from one of its initial states, whichever.
Quiet ==
    /\ focus # "scanner" => bytes = (CHOOSE m \in Images : TRUE) /\ readable = {}
    /\ focus # "watch" => backend = "user" /\ mem = [p \in Pids |-> CHOOSE v \in Values : TRUE]
    /\ focus # "debugger" => paused_tid = cur

ServicesInit ==
    /\ focus \in {"debugger", "watch", "scanner", "image"}
    /\ DebuggerInit /\ WatchInit /\ ScanInit /\ ImageInit /\ Quiet

ServicesNext ==
    \/ focus = "debugger" /\ DebuggerNext /\ UNCHANGED <<focus, watchVars, scanVars, imageVars>>
    \/ focus = "watch" /\ WatchNext /\ UNCHANGED <<focus, debuggerVars, scanVars, imageVars>>
    \/ focus = "scanner" /\ ScanNext /\ UNCHANGED <<focus, debuggerVars, watchVars, imageVars>>
    \/ focus = "image" /\ ImageNext /\ UNCHANGED <<focus, debuggerVars, watchVars, scanVars>>

\* The fairness of each service, where it is followed: DebuggerFairness,
\* WatchFairness and ImageFairness.
ServicesFairness ==
    /\ WF_debuggerVars(focus = "debugger" /\ DebugWorker)
    /\ WF_debuggerVars(focus = "debugger" /\ (DetachQuit \/ DetachEnd))
    /\ WF_watchVars(focus = "watch" /\ MainLoop)
    /\ SF_watchVars(focus = "watch" /\ tick_snapshot)
    /\ SF_watchVars(focus = "watch" /\ target_dropped)
    /\ WF_imageVars(focus = "image" /\ AnalysisThread)
    /\ WF_imageVars(focus = "image" /\ CallEnds)

ServicesSpec == ServicesInit /\ [][ServicesNext]_servicesVars /\ ServicesFairness

\* The four services' variables hold what the code's declarations allow, the
\* thread suspensions of the debugger and the rows of a scan within their bounds.
ServicesTypeOK == DebuggerTypeOK /\ WatchTypeOK /\ ScanTypeOK /\ ImageTypeOK
=============================================================================
