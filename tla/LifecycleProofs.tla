--------------------------- MODULE LifecycleProofs ---------------------------
(***************************************************************************)
(* Proofs about the engine processes, for every number of them.            *)
(***************************************************************************)
EXTENDS Lifecycle, TLAPS

\* Only an engine with a shell has one in any other state than "console".
Consoles == \A p \in Proc : shell[p] # "console" => p \in ByShell

\* Who the endpoint file names.  The engine that wrote it listens until it stops
\* its server, and at that point the file names it only if it could not be removed
\* because another engine has it open, or died with the file open.
FileOwner ==
  \A p \in Proc :
    /\ pc[p] \in {"write", "writing", "announce"} => p \in listening
    /\ file = p => pc[p] \notin {"unborn", "check", "boot", "bind", "write", "sorry"}
    /\ file = p /\ pc[p] \in ServingAt => p \in listening
    /\ file = p /\ pc[p] \in {"stop", "unload", "unloading", "leaving"} =>
         "write" \in mishaps \/ \E q \in Proc : pc[q] = "writing"

\* A kernel thread that is still at work belongs to an engine that was started to
\* load the driver and that has not got past the join of its teardown.
KernelThread ==
  \A p \in Proc :
    kpc[p] \notin {"off", "done"} =>
      p \in WithDriver /\ pc[p] \in BootAt \cup {"join"} \cup Ended

LInv == TypeOK /\ Consoles /\ FileOwner /\ KernelThread

-----------------------------------------------------------------------------
\* The first state.
LEMMA LInit == Init => LInv /\ DriverNotStranded
BY LifecycleAssumption
   DEF Init, LInv, TypeOK, Consoles, FileOwner, KernelThread, DriverNotStranded

-----------------------------------------------------------------------------
\* Boot keeps the invariant.
LEMMA BootKeeps ==
  ASSUME LInv, NEW p \in Proc, BootStep(p) PROVE LInv'
<1> USE LifecycleAssumption
    DEF LInv, TypeOK, Consoles, FileOwner, KernelThread, BootAt, TeardownAt, ServingAt, Ended,
        To, shellVars
<1>1. CASE CheckEndpoint(p) BY <1>1 DEF CheckEndpoint
<1>2. CASE Leave(p) BY <1>2 DEF Leave
<1>3. CASE Advance(p) BY <1>3 DEF Advance
<1>4. CASE Bind(p) BY <1>4 DEF Bind
<1>5. CASE OpenFile(p) BY <1>5 DEF OpenFile
<1>6. CASE WriteFile(p) BY <1>6 DEF WriteFile
<1>7. CASE Announce(p) BY <1>7 DEF Announce
<1> QED BY <1>1, <1>2, <1>3, <1>4, <1>5, <1>6, <1>7 DEF BootStep

\* So do the kernel thread and the requests to quit,
LEMMA KernelKeeps ==
  ASSUME LInv, NEW p \in Proc, KernelStep(p) \/ RequestQuit(p) \/ ParentGone(p) PROVE LInv'
<1> USE LifecycleAssumption
    DEF LInv, TypeOK, Consoles, FileOwner, KernelThread, shellVars
<1>1. CASE KernelProbe(p)
  <2>1. PICK k \in {"again", "map", "done", "remap"} : kpc' = [kpc EXCEPT ![p] = k]
    BY <1>1 DEF KernelProbe, IfPresent, IfAbsent
  <2>2. kpc[p] \notin {"off", "done"} BY <1>1 DEF KernelProbe
  <2>3. /\ UNCHANGED <<pc, quit, listening, file, mishaps, crashes, line, shell, adopted, watching>>
        /\ driver' \in {driver, "absent"}
    BY <1>1 DEF KernelProbe
  <2> QED BY <2>1, <2>2, <2>3
<1>2. CASE KernelMap(p)
  <2>1. PICK k \in {"done", "last"} : kpc' = [kpc EXCEPT ![p] = k]
    BY <1>2 DEF KernelMap
  <2>2. kpc[p] \notin {"off", "done"} BY <1>2 DEF KernelMap
  <2>3. /\ UNCHANGED <<pc, quit, listening, file, mishaps, crashes, line, shell, adopted, watching>>
        /\ driver' \in {driver, "loaded"}
    BY <1>2 DEF KernelMap
  <2> QED BY <2>1, <2>2, <2>3
<1>3. CASE RequestQuit(p) BY <1>3 DEF RequestQuit
<1>4. CASE ParentGone(p) BY <1>4 DEF ParentGone
<1> QED BY <1>1, <1>2, <1>3, <1>4 DEF KernelStep

\* the teardown, which is where the endpoint file and the server part ways,
LEMMA TeardownKeeps ==
  ASSUME LInv, NEW p \in Proc, TeardownStep(p) PROVE LInv'
<1> USE LifecycleAssumption
    DEF LInv, TypeOK, Consoles, FileOwner, KernelThread, BootAt, TeardownAt, ServingAt, Ended,
        To, shellVars
<1>1. CASE Join(p) BY <1>1 DEF Join
<1>2. CASE CheckFile(p) BY <1>2 DEF CheckFile, Ours, Advertised, Alive
<1>3. CASE RemoveFile(p) BY <1>3 DEF RemoveFile
<1>4. CASE StopServices(p) BY <1>4 DEF StopServices
<1>5. CASE Arm(p) BY <1>5 DEF Arm
<1>6. CASE Unload(p) BY <1>6 DEF Unload
<1>7. CASE Exit(p) BY <1>7 DEF Exit
<1> QED BY <1>1, <1>2, <1>3, <1>4, <1>5, <1>6, <1>7 DEF TeardownStep

\* the end of a process,
LEMMA DeathKeeps ==
  ASSUME LInv, NEW p \in Proc, Crash(p) \/ Kill(p) PROVE LInv'
<1> USE LifecycleAssumption
    DEF LInv, TypeOK, Consoles, FileOwner, KernelThread, BootAt, TeardownAt, ServingAt, Ended,
        To, shellVars
<1>1. CASE Crash(p) BY <1>1 DEF Crash, Die, Alive
<1>2. CASE Kill(p) BY <1>2 DEF Kill, Die, Alive
<1> QED BY <1>1, <1>2

\* and the supervisors.
LEMMA ShellKeeps ==
  ASSUME LInv, NEW p \in Proc, ShellStep(p) PROVE LInv'
<1> USE LifecycleAssumption
    DEF LInv, TypeOK, Consoles, FileOwner, KernelThread, BootAt, TeardownAt, ServingAt, Ended,
        To, engineVars
<1>1. CASE Spawn(p) BY <1>1 DEF Spawn
<1>2. CASE Adopt(p) BY <1>2 DEF Adopt
<1>3. CASE ReadLine(p) BY <1>3 DEF ReadLine
<1>4. CASE ReadEof(p) BY <1>4 DEF ReadEof
<1>5. CASE CloseWindow(p) BY <1>5 DEF CloseWindow
<1>6. CASE ShellExit(p) BY <1>6 DEF ShellExit
<1>7. CASE ShellCrash(p) BY <1>7 DEF ShellCrash
<1> QED BY <1>1, <1>2, <1>3, <1>4, <1>5, <1>6, <1>7 DEF ShellStep, ReaderStep

\* Every step keeps the invariant.
LEMMA LStep == LInv /\ [Next]_vars => LInv'
<1> SUFFICES ASSUME LInv, [Next]_vars PROVE LInv'
  OBVIOUS
<1>1. CASE UNCHANGED vars
  BY <1>1 DEF vars, engineVars, shellVars, LInv, TypeOK, Consoles, FileOwner, KernelThread
<1>2. CASE Next
  <2>1. PICK p \in Proc :
          \/ BootStep(p) \/ KernelStep(p) \/ TeardownStep(p)
          \/ RequestQuit(p) \/ ParentGone(p) \/ Crash(p) \/ Kill(p)
          \/ ShellStep(p)
    BY <1>2, Zenon DEF Next
  <2> QED BY <2>1, BootKeeps, KernelKeeps, TeardownKeeps, DeathKeeps, ShellKeeps, Zenon
<1> QED BY <1>1, <1>2

-----------------------------------------------------------------------------
\* The engines that will still unload the driver.
Keeper(p) == pc[p] \in BootAt \cup (TeardownAt \ {"leaving"})

\* Where no engine stops being a keeper and the driver is not loaded anew, a
\* loaded driver keeps its keeper.
LEMMA DriverFrame ==
  ASSUME DriverNotStranded,
         driver' # "absent" => driver # "absent", mishaps \subseteq mishaps',
         \A q \in WithDriver : Keeper(q) => Keeper(q)'
  PROVE  DriverNotStranded'
BY DEF DriverNotStranded, Keeper

\* A loaded driver never loses the engine that will unload it.
LEMMA DriverStep == LInv /\ DriverNotStranded /\ [Next]_vars => DriverNotStranded'
<1> SUFFICES ASSUME LInv, DriverNotStranded, [Next]_vars PROVE DriverNotStranded'
  OBVIOUS
<1> USE LifecycleAssumption DEF LInv, TypeOK, BootAt, TeardownAt, Ended, To
<1>1. ASSUME NEW p \in Proc, BootStep(p) PROVE DriverNotStranded'
  <2>1. \A q \in WithDriver : Keeper(q) => Keeper(q)'
    BY <1>1 DEF Keeper, BootStep, CheckEndpoint, Leave, Advance, Bind, OpenFile, WriteFile, Announce
  <2>2. driver' = driver /\ mishaps' = mishaps
    BY <1>1, Zenon DEF BootStep, CheckEndpoint, Leave, Advance, Bind, OpenFile, WriteFile, Announce
  <2> QED BY <2>1, <2>2, DriverFrame
<1>2. ASSUME NEW p \in Proc, KernelStep(p) PROVE DriverNotStranded'
  <2>1. p \in WithDriver /\ Keeper(p)'
    <3>1. kpc[p] \notin {"off", "done"} /\ Alive(p) /\ pc' = pc
      BY <1>2 DEF KernelStep, KernelProbe, KernelMap
    <3> QED BY <3>1 DEF KernelThread, Alive, Keeper
  <2> QED BY <2>1, Zenon DEF DriverNotStranded, Keeper
<1>3. ASSUME NEW p \in Proc, TeardownStep(p) PROVE DriverNotStranded'
  <2>1. CASE Unload(p)
    <3>1. driver' = "absent" \/ mishaps' \cap {"death", "unload"} # {} BY <2>1 DEF Unload
    <3> QED BY <3>1 DEF DriverNotStranded
  <2>3. CASE Arm(p)
    <3>1. CASE driver = "absent" BY <2>3, <3>1 DEF Arm, DriverNotStranded
    <3>2. CASE driver # "absent"
      <4>1. \A q \in WithDriver : Keeper(q) => Keeper(q)' BY <2>3, <3>2 DEF Arm, Keeper
      <4>2. mishaps' = mishaps BY <2>3 DEF Arm
      <4> QED BY <3>2, <4>1, <4>2, DriverFrame
    <3> QED BY <3>1, <3>2
  <2>2. CASE Join(p) \/ CheckFile(p) \/ RemoveFile(p) \/ StopServices(p) \/ Exit(p)
    <3>1. \A q \in WithDriver : Keeper(q) => Keeper(q)'
      BY <2>2 DEF Keeper, Join, CheckFile, RemoveFile, StopServices, Exit
    <3>2. driver' = driver /\ mishaps' = mishaps
      BY <2>2, Zenon DEF Join, CheckFile, RemoveFile, StopServices, Exit
    <3> QED BY <3>1, <3>2, DriverFrame
  <2> QED BY <1>3, <2>1, <2>2, <2>3 DEF TeardownStep
<1>4. ASSUME NEW p \in Proc, Crash(p) \/ Kill(p) PROVE DriverNotStranded'
  <2>1. mishaps' \cap {"death", "unload"} # {} BY <1>4 DEF Crash, Kill, Die
  <2> QED BY <2>1, Zenon DEF DriverNotStranded
<1>5. ASSUME NEW p \in Proc, RequestQuit(p) \/ ParentGone(p) \/ ShellStep(p)
      PROVE  DriverNotStranded'
  <2>1. \A q \in WithDriver : Keeper(q) => Keeper(q)'
    BY <1>5 DEF Keeper, RequestQuit, ParentGone, ShellStep, ReaderStep, Spawn, Adopt, ReadLine,
                ReadEof, CloseWindow, ShellExit, ShellCrash, engineVars
  <2>2. driver' = driver /\ mishaps' = mishaps
    BY <1>5, Zenon DEF RequestQuit, ParentGone, ShellStep, ReaderStep, Spawn, Adopt, ReadLine,
                ReadEof, CloseWindow, ShellExit, ShellCrash, engineVars
  <2> QED BY <2>1, <2>2, DriverFrame
<1>6. CASE UNCHANGED vars
  <2>1. driver' = driver /\ mishaps' = mishaps /\ pc' = pc BY <1>6, Zenon DEF vars, engineVars
  <2> QED BY <2>1, DriverFrame DEF Keeper
<1> QED BY <1>1, <1>2, <1>3, <1>4, <1>5, <1>6, Zenon DEF Next

-----------------------------------------------------------------------------
\* Both invariants hold in every behaviour.
LEMMA LInductive == Spec => [](LInv /\ DriverNotStranded)
BY LInit, LStep, DriverStep, PTL DEF Spec

\* The state of the engines and their shells stays well typed, and only an engine
\* between its bind and its stop listens.  (lifecycle.cpp, engine_main.cpp, lib.rs)
THEOREM EnginesTypeCorrect == Spec => []TypeOK
<1>1. LInv => TypeOK BY DEF LInv
<1> QED BY <1>1, LInductive, PTL

\* The engine that engine.json names accepts requests as long as it lives, with any
\* number of engines writing and removing the file: remove_endpoint() comes before
\* mcp::stop(), and an engine that leaves the file behind leaves it to another.
\* (lifecycle.cpp:71-80, 349-352)
THEOREM EndpointServed == Spec => []EndpointIsServed
<1>1. LInv => EndpointIsServed
  <2> SUFFICES ASSUME LInv, "write" \notin mishaps, \A q \in Proc : pc[q] # "writing",
                      NEW p \in Proc, file = p, Alive(p)
               PROVE  p \in listening
    BY Zenon DEF EndpointIsServed, Advertised
  <2> QED
    BY DEF LInv, TypeOK, FileOwner, Alive, Ended, BootAt, TeardownAt, ServingAt
<1> QED BY <1>1, LInductive, PTL

\* A loaded driver has an engine that will unload it, for every number of engines
\* that load and unload it.  (lifecycle.cpp:228-258, 345-380)
THEOREM DriverKept == Spec => []DriverNotStranded
BY LInductive, PTL
=============================================================================
