------------------------------ MODULE Lifecycle ------------------------------
(***************************************************************************)
(* Engine processes and the shells that start them: boot and teardown of   *)
(* core/infra/lifecycle.cpp, the main loop of engine/engine_main.cpp, the  *)
(* endpoint file the engines share, and the supervisor of                  *)
(* app/src-tauri/src/lib.rs.                                               *)
(*                                                                         *)
(* Each engine process may have a shell of its own.  An endpoint is the    *)
(* process that serves it; port and token play no part.  The file holds    *)
(* the process that wrote it last, is missing ("none"), or is cut short    *)
(* by a writer that has truncated it ("torn").                             *)
(***************************************************************************)
EXTENDS Integers, FiniteSets

CONSTANTS
  Proc,        \* the engine processes
  ByShell,     \* those a shell spawns; the others are started on a console
  WithDriver,  \* those started without --no-driver
  MaxCrashes   \* bound: engines that crash

ASSUME LifecycleAssumption ==
  /\ ByShell \subseteq Proc /\ WithDriver \subseteq Proc
  /\ MaxCrashes \in Nat
  /\ "none" \notin Proc /\ "torn" \notin Proc

VARIABLES
  pc,         \* where the main thread of each engine is
  kpc,        \* where its kernel thread is
  quit,       \* the engines with g_quit set
  listening,  \* the engines whose server accepts requests
  file,       \* engine.json
  driver,     \* the driver: "absent", "loaded", or "quiesced" (armed for its unload)
  mishaps,    \* history: what went wrong: a "death", a "write" cut short, an "unload"
  crashes,    \* crashes so far
  line,       \* the handshake line on each engine's stdout
  shell,      \* each supervisor
  adopted,    \* the engines in a kill-on-close job object
  watching    \* the engines that hold a handle of their parent

engineVars == <<pc, kpc, quit, listening, file, driver, mishaps, crashes>>
shellVars == <<line, shell, adopted, watching>>
vars == <<engineVars, shellVars>>

Init ==
  /\ pc = [p \in Proc |-> "unborn"] /\ kpc = [p \in Proc |-> "off"]
  /\ quit = {} /\ listening = {} /\ file = "none" /\ driver = "absent"
  /\ mishaps = {} /\ crashes = 0
  /\ line = [p \in Proc |-> "none"]
  /\ shell = [p \in Proc |-> IF p \in ByShell THEN "idle" ELSE "console"]
  /\ adopted = {} /\ watching = {}

Ended == {"exited", "crashed", "killed"}
Alive(p) == pc[p] \notin Ended \cup {"unborn"}

\* read_endpoint(), once the paths are known: a process that is alive, or nothing.
Advertised == {p \in Proc : file = p /\ Alive(p)}

To(p, where) == pc' = [pc EXCEPT ![p] = where]

-----------------------------------------------------------------------------
(* Boot *)

\* main() up to the return of begin().  The look for a live endpoint to hand over
\* comes before paths::init(), so endpoint_file() is empty, read_endpoint() is false
\* whatever the file says, and the engine boots.
CheckEndpoint(p) ==
  /\ pc[p] = "check"
  /\ To(p, "boot")
  /\ kpc' = [kpc EXCEPT ![p] = IF p \in WithDriver THEN "probe" ELSE "done"]
  /\ watching' = IF shell[p] \in {"console", "gone"} THEN watching ELSE watching \cup {p}
  /\ UNCHANGED <<quit, listening, file, driver, mishaps, crashes, line, shell, adopted>>

\* ensure_loaded_real() probes the device.  A driver left quiesced by a session
\* that ended badly is unloaded first, if it can be.  A device that is there is
\* looked at again later; where it is not, the mapper runs.
IfPresent == [probe |-> "again", again |-> "done", last |-> "done"]
IfAbsent == [probe |-> "map", again |-> "remap", last |-> "map"]

KernelProbe(p) ==
  /\ Alive(p) /\ kpc[p] \in {"probe", "again", "last"}
  /\ \/ /\ driver # "absent"
        /\ kpc' = [kpc EXCEPT ![p] = IfPresent[kpc[p]]]
        /\ UNCHANGED driver
     \/ /\ driver # "loaded"
        /\ kpc' = [kpc EXCEPT ![p] = IfAbsent[kpc[p]]]
        /\ driver' = "absent"
  /\ UNCHANGED <<pc, quit, listening, file, mishaps, crashes, shellVars>>

\* The mapper ran, and the driver is there or it is not.
KernelMap(p) ==
  /\ Alive(p) /\ kpc[p] \in {"map", "remap"}
  /\ kpc' = [kpc EXCEPT ![p] = IF kpc[p] = "map" THEN "done" ELSE "last"]
  /\ driver' \in {driver, "loaded"}
  /\ UNCHANGED <<pc, quit, listening, file, mishaps, crashes, shellVars>>

\* The loop head: a booting or serving engine leaves when it is asked to quit.
Leave(p) ==
  /\ pc[p] \in {"boot", "serve"} /\ p \in quit
  /\ To(p, "join")
  /\ UNCHANGED <<kpc, quit, listening, file, driver, mishaps, crashes, shellVars>>

\* advance() passes the kernel stage.
Advance(p) ==
  /\ pc[p] = "boot" /\ p \notin quit /\ kpc[p] = "done"
  /\ To(p, "bind")
  /\ UNCHANGED <<kpc, quit, listening, file, driver, mishaps, crashes, shellVars>>

\* start_mcp() binds its port or an ephemeral one, or neither.
Bind(p) ==
  /\ pc[p] = "bind"
  /\ \/ listening' = listening \cup {p} /\ To(p, "write")
     \/ UNCHANGED listening /\ To(p, "sorry")
  /\ UNCHANGED <<kpc, quit, file, driver, mishaps, crashes, shellVars>>

\* write_endpoint() opens the file, which empties it, or cannot.
OpenFile(p) ==
  /\ pc[p] = "write"
  /\ \/ file' = "torn" /\ To(p, "writing")
     \/ UNCHANGED file /\ To(p, "announce")
  /\ UNCHANGED <<kpc, quit, listening, driver, mishaps, crashes, shellVars>>

WriteFile(p) ==
  /\ pc[p] = "writing"
  /\ file' = p
  /\ To(p, "announce")
  /\ UNCHANGED <<kpc, quit, listening, driver, mishaps, crashes, shellVars>>

Announce(p) ==
  /\ \/ /\ pc[p] = "announce"
        /\ line' = [line EXCEPT ![p] = "ready"]
        /\ UNCHANGED quit
     \/ /\ pc[p] = "sorry"
        /\ line' = [line EXCEPT ![p] = "failed"]
        /\ quit' = quit \cup {p}
  /\ To(p, "serve")
  /\ UNCHANGED <<kpc, listening, file, driver, mishaps, crashes, shell, adopted, watching>>

-----------------------------------------------------------------------------
(* Teardown *)

\* A tool call, a console signal.
RequestQuit(p) ==
  /\ Alive(p) /\ pc[p] # "check" /\ p \notin quit
  /\ quit' = quit \cup {p}
  /\ UNCHANGED <<pc, kpc, listening, file, driver, mishaps, crashes, shellVars>>

ParentGoneBooting(p) ==
  /\ pc[p] = "boot" /\ p \in watching /\ shell[p] = "gone"
  /\ p \notin quit
  /\ quit' = quit \cup {p}
  /\ UNCHANGED <<pc, kpc, listening, file, driver, mishaps, crashes, shellVars>>

\* The loop finds the parent's handle signalled.
ParentGone(p) ==
  /\ pc[p] \in {"boot", "serve"} /\ p \in watching /\ shell[p] = "gone"
  /\ p \notin quit
  /\ quit' = quit \cup {p}
  /\ UNCHANGED <<pc, kpc, listening, file, driver, mishaps, crashes, shellVars>>

JoinNot(p) ==
  /\ pc[p] = "join"
  /\ To(p, "rmcheck")
  /\ UNCHANGED <<kpc, quit, listening, file, driver, mishaps, crashes, shellVars>>

\* shutdown() waits for the kernel thread first.
Join(p) ==
  /\ pc[p] = "join" /\ kpc[p] = "done"
  /\ To(p, "rmcheck")
  /\ UNCHANGED <<kpc, quit, listening, file, driver, mishaps, crashes, shellVars>>

NeverOurs(p) == FALSE
Ours(p) == Advertised \subseteq {p}

\* remove_endpoint(): "only delete the file if it is still ours".
CheckFile(p) ==
  /\ pc[p] = "rmcheck"
  /\ To(p, IF Ours(p) THEN "remove" ELSE "stop")
  /\ UNCHANGED <<kpc, quit, listening, file, driver, mishaps, crashes, shellVars>>

\* A file another engine has open for writing cannot be removed.
RemoveFile(p) ==
  /\ pc[p] = "remove"
  /\ file' = IF \E q \in Proc : pc[q] = "writing" THEN file ELSE "none"
  /\ To(p, "stop")
  /\ UNCHANGED <<kpc, quit, listening, driver, mishaps, crashes, shellVars>>

StopServicesOpen(p) ==
  /\ pc[p] = "stop"
  /\ To(p, "unload")
  /\ UNCHANGED <<kpc, quit, listening, file, driver, mishaps, crashes, shellVars>>

\* mcp::stop(), then jobs, pool, watch list, targets and settings.
StopServices(p) ==
  /\ pc[p] = "stop"
  /\ listening' = listening \ {p}
  /\ To(p, "unload")
  /\ UNCHANGED <<kpc, quit, file, driver, mishaps, crashes, shellVars>>

\* request_driver_unload() arms the driver, by an engine that was started to load it.
Arm(p) ==
  /\ pc[p] = "unload"
  /\ \/ p \in WithDriver /\ driver # "absent" /\ driver' = "quiesced" /\ To(p, "unloading")
     \/ p \in WithDriver /\ driver # "absent" /\ UNCHANGED driver /\ To(p, "unloading")
     \/ (p \notin WithDriver \/ driver = "absent") /\ UNCHANGED driver /\ To(p, "leaving")
  /\ UNCHANGED <<kpc, quit, listening, file, mishaps, crashes, shellVars>>

\* NtUnloadDriver, which ends an armed driver, or fails.
Unload(p) ==
  /\ pc[p] = "unloading"
  /\ \/ driver = "quiesced" /\ driver' = "absent" /\ UNCHANGED mishaps
     \/ mishaps' = mishaps \cup {"unload"} /\ UNCHANGED driver
  /\ To(p, "leaving")
  /\ UNCHANGED <<kpc, quit, listening, file, crashes, shellVars>>

Exit(p) ==
  /\ pc[p] = "leaving"
  /\ To(p, "exited")
  /\ UNCHANGED <<kpc, quit, listening, file, driver, mishaps, crashes, shellVars>>

\* The process ends where it is, which may leave the driver quiesced.
Die(p, how) ==
  /\ Alive(p)
  /\ To(p, how)
  /\ listening' = listening \ {p}
  /\ mishaps' = mishaps \cup (IF pc[p] = "writing" THEN {"death", "write"} ELSE {"death"})
  /\ \/ UNCHANGED driver
     \/ p \in WithDriver /\ driver = "loaded" /\ driver' = "quiesced"
  /\ UNCHANGED <<kpc, quit, file, shellVars>>

Crash(p) == crashes < MaxCrashes /\ crashes' = crashes + 1 /\ Die(p, "crashed")

-----------------------------------------------------------------------------
(* The supervisor *)

\* spawn_engine() starts the process, or fails.
Spawn(p) ==
  /\ pc[p] = "unborn" /\ shell[p] \in {"idle", "console"}
  /\ \/ To(p, "check")
        /\ shell' = [shell EXCEPT ![p] = IF @ = "idle" THEN "adopting" ELSE @]
     \/ shell[p] = "idle" /\ shell' = [shell EXCEPT ![p] = "failed"] /\ UNCHANGED pc
  /\ UNCHANGED <<kpc, quit, listening, file, driver, mishaps, crashes, line, adopted, watching>>

\* job::adopt(), which may fail.
Adopt(p) ==
  /\ shell[p] = "adopting"
  /\ shell' = [shell EXCEPT ![p] = "waiting"]
  /\ adopted' \in {adopted, adopted \cup {p}}
  /\ UNCHANGED <<engineVars, line, watching>>

\* The reader thread gets a handshake line: publish() or fail().
ReadLine(p) ==
  /\ shell[p] = "waiting" /\ line[p] \in {"ready", "failed"}
  /\ shell' = [shell EXCEPT ![p] = IF line[p] = "ready" THEN "endpoint" ELSE "failed"]
  /\ line' = [line EXCEPT ![p] = "read"]
  /\ UNCHANGED <<engineVars, adopted, watching>>

ReadEofQuiet(p) == FALSE /\ UNCHANGED vars

\* stdout is closed and no line came.
ReadEof(p) ==
  /\ shell[p] = "waiting" /\ pc[p] \in Ended /\ line[p] = "none"
  /\ shell' = [shell EXCEPT ![p] = "failed"]
  /\ UNCHANGED <<engineVars, line, adopted, watching>>

\* The window is destroyed: the shell waits a while for its child, and exits.
CloseWindow(p) ==
  /\ shell[p] \in {"waiting", "endpoint", "failed"}
  /\ shell' = [shell EXCEPT ![p] = "closing"]
  /\ UNCHANGED <<engineVars, line, adopted, watching>>

ShellExit(p) ==
  /\ shell[p] = "closing"
  /\ shell' = [shell EXCEPT ![p] = "gone"]
  /\ UNCHANGED <<engineVars, line, adopted, watching>>

ShellCrash(p) ==
  /\ shell[p] \in {"adopting", "waiting", "endpoint", "failed"} /\ crashes < MaxCrashes
  /\ crashes' = crashes + 1
  /\ shell' = [shell EXCEPT ![p] = "gone"]
  /\ UNCHANGED <<pc, kpc, quit, listening, file, driver, mishaps, line, adopted, watching>>

\* The end of the shell closes the job object.
Kill(p) ==
  /\ p \in adopted /\ shell[p] = "gone"
  /\ Die(p, "killed")
  /\ UNCHANGED crashes

-----------------------------------------------------------------------------
BootStep(p) ==
  CheckEndpoint(p) \/ Leave(p) \/ Advance(p) \/ Bind(p) \/ OpenFile(p) \/ WriteFile(p) \/ Announce(p)
KernelStep(p) == KernelProbe(p) \/ KernelMap(p)
TeardownStep(p) ==
  Join(p) \/ CheckFile(p) \/ RemoveFile(p) \/ StopServices(p) \/ Arm(p) \/ Unload(p) \/ Exit(p)
ReaderStep(p) == ReadLine(p) \/ ReadEof(p)
ShellStep(p) ==
  Spawn(p) \/ Adopt(p) \/ ReaderStep(p) \/ CloseWindow(p) \/ ShellExit(p) \/ ShellCrash(p)

Next ==
  \E p \in Proc :
    \/ BootStep(p) \/ KernelStep(p) \/ TeardownStep(p)
    \/ RequestQuit(p) \/ ParentGone(p) \/ Crash(p) \/ Kill(p)
    \/ ShellStep(p)

Spec == Init /\ [][Next]_vars

\* Threads run, the mapper and the services' stops return, the reader reads, and
\* a parent's end is noticed.  Nobody is obliged to start, quit, close or crash.
FairSpec ==
  /\ Spec
  /\ \A p \in Proc :
       /\ WF_vars(BootStep(p)) /\ WF_vars(KernelStep(p)) /\ WF_vars(TeardownStep(p))
       /\ WF_vars(ParentGone(p)) /\ WF_vars(Kill(p))
       /\ WF_vars(Adopt(p)) /\ WF_vars(ReaderStep(p))

-----------------------------------------------------------------------------
BootAt == {"boot", "bind", "write", "writing", "announce", "sorry", "serve"}
TeardownAt == {"join", "rmcheck", "remove", "stop", "unload", "unloading", "leaving"}

ServingAt == {"write", "writing", "announce", "serve", "join", "rmcheck", "remove", "stop"}

TypeOK ==
  /\ pc \in [Proc -> {"unborn", "check"} \cup BootAt \cup TeardownAt \cup Ended]
  /\ kpc \in [Proc -> {"off", "probe", "again", "map", "remap", "last", "done"}]
  /\ quit \subseteq Proc
  /\ listening \subseteq {p \in Proc : pc[p] \in ServingAt}
  /\ file \in Proc \cup {"none", "torn"}
  /\ driver \in {"absent", "loaded", "quiesced"} /\ mishaps \subseteq {"death", "write", "unload"}
  /\ crashes \in 0..MaxCrashes
  /\ line \in [Proc -> {"none", "ready", "failed", "read"}]
  /\ shell \in [Proc -> {"console", "idle", "adopting", "waiting", "endpoint", "failed",
                         "closing", "gone"}]
  /\ adopted \subseteq ByShell /\ watching \subseteq ByShell

\* engine.json is a "live engine PID/port/token advertisement" (README.md:859), there
\* "so a front end can find it" (lifecycle.hpp:70): with any number of engines booting
\* over each other's file, quitting and crashing, a file that names a living process
\* names one that accepts requests, unless another engine is writing it, or died
\* writing it.  (lifecycle.cpp:61-80, 349-352, 390-416)
EndpointIsServed ==
  "write" \notin mishaps /\ (\A q \in Proc : pc[q] # "writing") => Advertised \subseteq listening

\* "exits clean ... so the driver never gets stranded" (engine_main.cpp:4): as long
\* as no engine dies and no unload fails, a loaded driver has an engine that will
\* still unload it, with several engines loading and unloading it in any order.
DriverNotStranded ==
  driver # "absent" =>
    \/ mishaps \cap {"death", "unload"} # {}
    \/ \E p \in WithDriver : pc[p] \in BootAt \cup (TeardownAt \ {"leaving"})

\* "stop the UI waiting on a handshake that will not arrive" (lib.rs:216-217): a
\* shell that waits for its engine gets an endpoint or a failure without having to
\* rely on its timeout, whatever becomes of the engine.
HandshakeResolves ==
  \A p \in Proc : (shell[p] = "waiting") ~> (shell[p] # "waiting")

\* An engine does not outlive its shell, be it by its parent watch or by the job
\* object.  (engine_main.cpp:97-104, 146-147; lib.rs:123-124)
EngineFollowsShell ==
  \A p \in ByShell :
    (shell[p] = "gone" /\ p \in adopted \cup watching) ~> (pc[p] \in Ended)

\* "lets it perform clean shutdown when the UI exits" (README.md:372): the job
\* object ends an engine that has announced itself only after it was asked to quit.
KillIsBackstop ==
  \A p \in Proc : pc[p] = "killed" /\ line[p] # "none" => p \in quit
=============================================================================
