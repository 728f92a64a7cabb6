------------------------------ MODULE Debugger ------------------------------
(***************************************************************************)
(* The debugger engine (src/core/debugger/debugger.cpp) behind the         *)
(* debugger tool: the tool's thread, the worker thread of the session and  *)
(* the target they share.  A session runs the Win32 debug loop ("user") or *)
(* polls the slots of the injected exception handler ("stealth"); the two  *)
(* loops are one state machine here, with the differences spelled out.     *)
(* Code is a cycle of addresses, each holding its own byte or an int3.     *)
(***************************************************************************)
EXTENDS Integers, FiniteSets

CONSTANTS Threads,      \* threads of the target
          NAddrs,       \* instructions of the target, at 1 .. NAddrs
          BpAddrs,      \* where the client sets breakpoints
          CallSites,    \* instructions that are calls
          RetAddr,      \* the return address step_out reads off the stack
          HwSlots,      \* debug registers
          Modes,        \* session kinds: "user", "stealth"
          MaxEdits, MaxResumes, MaxSessions    \* bounds on the client

Addrs == 1 .. NAddrs
Succ(a) == IF a = NAddrs THEN 1 ELSE a + 1

ASSUME DebuggerConstants ==
    /\ NAddrs \in Nat \ {0}
    /\ BpAddrs \subseteq Addrs /\ CallSites \subseteq Addrs /\ RetAddr \in Addrs
    /\ HwSlots \subseteq Nat \ {0} /\ Modes \subseteq {"user", "stealth"}
    /\ {MaxEdits, MaxResumes, MaxSessions} \subseteq Nat

VARIABLES
    \* the target
    code,        \* the first byte of every instruction
    dr,          \* debug registers, the same in every thread
    at, tf,      \* instruction pointer and trap flag of every thread
    trap, site,  \* the exception a thread is stopped on, and where
    susp,        \* suspend counts
    alive,
    \* debugger_t
    dbg, mode, bps, hit, resume, plan, paused_tid, quit, frozen,
    paused_at,       \* the pointer in paused_ctx_, 0 before the first pause
    mu, wpc, cur,    \* the engine's mutex; the worker and the event it handles
    tool,            \* where the tool's thread is in detach()
    \* history
    held,            \* the client suspended the threads itself
    dangling,        \* a breakpoint_t* outlived a change of the vector it points into
    leftover,        \* the int3s that were there when the session began
    edits, resumes, sessions

targetVars == <<code, dr, at, tf, trap, site, susp, alive>>
engineVars == <<dbg, mode, bps, hit, resume, plan, paused_tid, paused_at, quit, frozen>>
actorVars == <<mu, wpc, cur, tool>>
debuggerHistory == <<held, dangling, leftover, edits, resumes, sessions>>
debuggerVars == <<targetVars, engineVars, actorVars, debuggerHistory>>

\* A breakpoint stops the thread, stops it under a condition, or logs and goes on.
Kinds == {"stop", "cond", "trace"}
Bp(kind, hw, orig, armed) ==
    [kind |-> kind, once |-> FALSE, hw |-> hw, orig |-> orig, armed |-> armed]
NoBp == Bp("none", 0, "orig", FALSE)
BpRecords == [kind : Kinds \cup {"none", "temp"}, once : BOOLEAN, hw : {0} \cup HwSlots,
            orig : {"orig", "cc"}, armed : BOOLEAN]
Plan(kind, addr) == [kind |-> kind, addr |-> addr]
PlanType == [kind : {"none", "trap_flag", "temp_breakpoint"}, addr : {0} \cup Addrs]

Known(a) == a # 0 /\ bps[a].kind # "none"
Stealth == mode = "stealth"

DebuggerInit ==
    /\ code = [a \in Addrs |-> "orig"]
    /\ dr = [s \in HwSlots |-> 0]
    /\ at = [t \in Threads |-> 1] /\ tf = [t \in Threads |-> FALSE]
    /\ trap = [t \in Threads |-> "no"] /\ site = [t \in Threads |-> 0]
    /\ susp = [t \in Threads |-> 0] /\ alive = TRUE
    /\ dbg = "idle" /\ mode = "idle" /\ bps = [a \in Addrs |-> NoBp] /\ hit = 0
    /\ resume = "none" /\ plan = Plan("none", 0)
    /\ paused_tid \in Threads /\ paused_at = 0 /\ quit = FALSE /\ frozen = FALSE
    /\ mu = "free" /\ wpc = "none" /\ cur \in Threads /\ tool = "rest"
    /\ held = FALSE /\ dangling = FALSE /\ leftover = {}
    /\ edits = 0 /\ resumes = 0 /\ sessions = 0

-----------------------------------------------------------------------------
(* The target and its operating system (external).                         *)

\* In a Win32 session an exception stops the whole process; the injected
\* handler parks only the thread that raised it.
CanRun(t) ==
    /\ alive /\ trap[t] = "no" /\ susp[t] = 0
    /\ mode = "user" => \A u \in Threads : trap[u] = "no"

\* Exceptions reach the session from the attach to the end of the worker
\* (Win32) or of the injected handler, which kdetach removes last.
Watched == Stealth \/ (mode = "user" /\ wpc \notin {"none", "done"})

\* The trap of a step or of a debug register is 0x80000004, which the injected
\* handler does not filter in: only the Win32 loop is told.  The target's own
\* handlers take it, or the process ends.
Told(stepped) == IF stepped /\ Watched /\ ~Stealth THEN "step" ELSE "no"

Execute(t) ==
    /\ CanRun(t) /\ code[at[t]] = "orig"
    /\ at' = [at EXCEPT ![t] = Succ(at[t])]
    /\ trap' = [trap EXCEPT ![t] = Told(tf[t])]
    /\ tf' = [tf EXCEPT ![t] = FALSE]
    /\ UNCHANGED <<code, dr, site, susp, alive, engineVars, actorVars, debuggerHistory>>

\* An int3 traps.  The injected handler sees the pointer rewound to it; the
\* Win32 loop finds it past it, and takes the byte before the reported address
\* for the site, which names no record (0) if that address was the int3's own.
ExecuteInt3(t) ==
    /\ CanRun(t) /\ code[at[t]] = "cc" /\ Watched
    /\ trap' = [trap EXCEPT ![t] = "bp"]
    /\ \E s \in IF Stealth THEN {at[t]} ELSE {0, at[t]} : site' = [site EXCEPT ![t] = s]
    /\ at' = IF Stealth THEN at ELSE [at EXCEPT ![t] = Succ(at[t])]
    /\ UNCHANGED <<code, dr, tf, susp, alive, engineVars, actorVars, debuggerHistory>>

DebugRegisterHit(t) ==
    /\ CanRun(t) /\ Watched /\ \E s \in HwSlots : dr[s] = at[t]
    /\ trap' = [trap EXCEPT ![t] = Told(TRUE)]
    /\ at' = [at EXCEPT ![t] = Succ(at[t])] /\ tf' = [tf EXCEPT ![t] = FALSE]
    /\ UNCHANGED <<code, dr, site, susp, alive, engineVars, actorVars, debuggerHistory>>

\* The process ends, by itself or on an exception nobody handles.
Die ==
    /\ alive
    /\ alive' = FALSE
    /\ UNCHANGED <<code, dr, at, tf, trap, site, susp, engineVars, actorVars, debuggerHistory>>

-----------------------------------------------------------------------------
(* Breakpoint bytes, the freeze of the target's threads, releasing one.    *)

\* arm_bp: stash what the byte is now, plant the int3.
Armed(b, c) == [b EXCEPT !.orig = c, !.armed = TRUE]

\* disarm_bp: put the stashed byte back, if this record says it is armed.
Disarm(S) == [a \in Addrs |-> IF a \in S /\ bps[a].armed THEN bps[a].orig ELSE code[a]]
Disarmed(S) == [a \in Addrs |-> IF a \in S THEN [bps[a] EXCEPT !.armed = FALSE] ELSE bps[a]]

\* kfreeze_world does nothing when the flag says frozen or without the
\* private device; kunfreeze_world resumes every thread.
kfreeze_world_again(except) ==
    IF Stealth
    THEN /\ frozen' = TRUE
         /\ susp' = [t \in Threads |-> IF t \in except THEN susp[t] ELSE susp[t] + 1]
    ELSE UNCHANGED <<frozen, susp>>
kfreeze_world(except) ==
    IF Stealth /\ ~frozen
    THEN /\ frozen' = TRUE
         /\ susp' = [t \in Threads |-> IF t \in except THEN susp[t] ELSE susp[t] + 1]
    ELSE UNCHANGED <<frozen, susp>>
Resumed(s) == [t \in Threads |-> IF s[t] > 0 THEN s[t] - 1 ELSE 0]
kunfreeze_world ==
    IF frozen THEN frozen' = FALSE /\ susp' = Resumed(susp) ELSE UNCHANGED <<frozen, susp>>

\* The worker freezes without the mutex.  While the tool is between its own
\* freeze and its thaw, the test of the flag may come before the tool's store.
WorkerFreeze(except) ==
    \/ kfreeze_world(except)
    \/ /\ Stealth /\ mu = "tool"
       /\ frozen' = TRUE
       /\ susp' = [t \in Threads |-> IF t \in except THEN susp[t] ELSE susp[t] + 1]

Release(t) == trap' = [trap EXCEPT ![t] = "no"]

\* Put the breakpoint the thread sat on back, or drop it when it was one-shot.
\* The two operators are the code and the records after it.
RehitCode == IF hit # 0 /\ ~bps[hit].once /\ ~bps[hit].armed
             THEN [code EXCEPT ![hit] = "cc"] ELSE code
RehitBps == IF hit = 0 THEN bps
            ELSE IF bps[hit].once THEN [bps EXCEPT ![hit] = NoBp]
            ELSE IF bps[hit].armed THEN bps
            ELSE [bps EXCEPT ![hit] = Armed(@, code[hit])]
Rehit == code' = RehitCode /\ bps' = RehitBps

-----------------------------------------------------------------------------
(* The worker: loop() and kloop() with handle_veh_slot().                  *)

Polling(t) == wpc = "poll" /\ ~quit /\ alive /\ ~dangling /\ trap[t] # "no"

\* A breakpoint of ours: the record is looked up under the mutex and used
\* after it was released.
FindHit(t) ==
    /\ Polling(t) /\ trap[t] = "bp" /\ mu = "free"
    /\ Known(site[t]) /\ bps[site[t]].armed
    /\ cur' = t /\ wpc' = "hit"
    /\ UNCHANGED <<targetVars, engineVars, mu, tool, debuggerHistory>>

\* A tracepoint, or a condition that is false: reveal the byte and step over it.
\* The pass that is to put it back waits for 0x40000006, which nobody raises.
HitTrace ==
    /\ wpc = "hit" /\ mu = "free" /\ ~dangling
    /\ bps[site[cur]].kind \in {"cond", "trace"}
    /\ hit' = site[cur] /\ resume' = "step_rearm"
    /\ wpc' = "tracing"
    /\ UNCHANGED <<targetVars, dbg, mode, bps, plan, paused_tid, paused_at, quit, frozen, mu, cur,
                   tool, debuggerHistory>>
TraceRelease ==
    /\ wpc = "tracing" /\ ~dangling
    /\ WorkerFreeze({cur})
    /\ code' = Disarm({site[cur]}) /\ bps' = Disarmed({site[cur]})
    /\ tf' = [tf EXCEPT ![cur] = TRUE] /\ Release(cur)
    /\ wpc' = "poll"
    /\ UNCHANGED <<dr, at, site, alive, dbg, mode, hit, resume, plan, paused_tid, paused_at, quit,
                   mu, cur, tool, debuggerHistory>>

HitStop ==
    /\ wpc = "hit" /\ ~dangling
    /\ bps[site[cur]].kind # "trace"
    /\ hit' = site[cur]
    /\ WorkerFreeze({})
    /\ code' = Disarm({site[cur]}) /\ bps' = Disarmed({site[cur]})
    /\ wpc' = "pausing"
    /\ UNCHANGED <<dr, at, tf, trap, site, alive, dbg, mode, resume, plan, paused_tid, paused_at,
                   quit, mu, cur, tool, debuggerHistory>>

IsTemp(t) == resume = "apply_plan" /\ plan = Plan("temp_breakpoint", site[t])

\* The temporary breakpoint of a step: its record was never marked armed, so
\* disarm_bp leaves the byte alone.
TempLanding(t) ==
    /\ Polling(t) /\ trap[t] = "bp" /\ mu = "free"
    /\ ~(Known(site[t]) /\ bps[site[t]].armed) /\ IsTemp(t)
    /\ kfreeze_world({})
    /\ bps' = [bps EXCEPT ![site[t]] = NoBp] /\ code' = Disarm({site[t]})
    /\ cur' = t /\ wpc' = "pausing"
    /\ UNCHANGED <<dr, at, tf, trap, site, alive, dbg, mode, hit, resume, plan, paused_tid,
                   paused_at, quit, mu, tool, debuggerHistory>>

\* Somebody else's int3, the one of the attach included.
ForeignInt3(t) ==
    /\ Polling(t) /\ trap[t] = "bp" /\ mu = "free"
    /\ ~(Known(site[t]) /\ bps[site[t]].armed) /\ ~IsTemp(t)
    /\ cur' = t /\ wpc' = "pausing"
    /\ UNCHANGED <<targetVars, engineVars, mu, tool, debuggerHistory>>

\* Any other exception of a Win32 session: a step or a debug register, told
\* for the first time or, when the target's handlers declined it, the last.
OtherException(t) ==
    /\ Polling(t) /\ trap[t] \in {"step", "last"} /\ mu = "free"
    /\ cur' = t /\ wpc' = "pausing"
    /\ UNCHANGED <<targetVars, engineVars, mu, tool, debuggerHistory>>

\* Publish the stop.  The injected handler's loop freezes the other threads
\* after it let go of the mutex.
Pause ==
    /\ wpc = "pausing" /\ mu = "free" /\ ~dangling
    /\ dbg' = "paused" /\ paused_tid' = cur /\ paused_at' = at[cur] /\ resume' = "none"
    /\ wpc' = IF Stealth THEN "freezing" ELSE "paused"
    /\ UNCHANGED <<targetVars, mode, bps, hit, plan, quit, frozen, mu, cur, tool, debuggerHistory>>

PauseFreeze ==
    /\ wpc = "freezing" /\ ~dangling
    /\ WorkerFreeze({}) /\ wpc' = "paused"
    /\ UNCHANGED <<code, dr, at, tf, trap, site, alive, dbg, mode, bps, hit, resume, plan,
                   paused_tid, paused_at, quit, mu, cur, tool, debuggerHistory>>

\* cv_.wait: the predicate is evaluated with the mutex held, then the thread sleeps.
EvalWait ==
    /\ wpc = "paused" /\ mu = "free" /\ ~quit /\ resume = "none"
    /\ wpc' = "eval" /\ mu' = "worker"
    /\ UNCHANGED <<targetVars, engineVars, cur, tool, debuggerHistory>>
Sleep ==
    /\ wpc = "eval"
    /\ wpc' = "asleep" /\ mu' = "free"
    /\ UNCHANGED <<targetVars, engineVars, cur, tool, debuggerHistory>>
\* cv_.wait_for, in the stealth loop only.
NoTimeout == FALSE
TimedWait == Stealth
WaitTimeout ==
    /\ wpc = "asleep" /\ TimedWait
    /\ wpc' = "paused"
    /\ UNCHANGED <<targetVars, engineVars, mu, cur, tool, debuggerHistory>>

\* The thread that raised the exception goes on: an int3 counts as handled, a
\* step goes to the target's own handlers, and what they declined ends it.
PassOn == /\ \E e \in IF trap[cur] = "step" THEN {"no", "last"} ELSE {"no"} :
                 trap' = [trap EXCEPT ![cur] = e]
          /\ alive' = (alive /\ trap[cur] # "last")
LetGoQuietly == PassOn /\ UNCHANGED dbg
LetGo == PassOn /\ dbg' = "running"

Resume ==
    /\ wpc = "paused" /\ mu = "free" /\ ~quit /\ resume # "none" /\ ~dangling
    /\ \/ /\ plan.kind = "trap_flag"
          /\ tf' = [tf EXCEPT ![cur] = TRUE]
          /\ resume' = IF hit # 0 THEN "step_rearm" ELSE "none"
          /\ UNCHANGED <<code, bps, hit, dangling>>
       \* bps_.add may move the vector hit_bp_ points into
       \/ /\ plan.kind = "temp_breakpoint"
          /\ bps' = IF Known(plan.addr) THEN RehitBps
                    ELSE [RehitBps EXCEPT ![plan.addr] = Bp("temp", 0, code[plan.addr], FALSE)]
          /\ code' = [RehitCode EXCEPT ![plan.addr] = "cc"]
          /\ dangling' \in IF hit # 0 /\ ~Known(plan.addr) THEN BOOLEAN ELSE {FALSE}
          /\ hit' = 0 /\ resume' = "none" /\ UNCHANGED tf
       \/ /\ plan.kind = "none"
          /\ Rehit /\ hit' = 0 /\ resume' = "none" /\ UNCHANGED <<tf, dangling>>
    /\ LetGo /\ wpc' = IF Stealth THEN "thawing" ELSE "poll"
    /\ UNCHANGED <<dr, at, site, susp, mode, frozen, plan, paused_tid, paused_at, quit, mu, cur,
                   tool, held, leftover, edits, resumes, sessions>>

\* The thaw comes after the mutex was released.
Thaw ==
    /\ wpc = "thawing" /\ kunfreeze_world /\ wpc' = "poll"
    /\ UNCHANGED <<code, dr, at, tf, trap, site, alive, dbg, mode, bps, hit, resume, plan,
                   paused_tid, paused_at, quit, mu, cur, tool, debuggerHistory>>

\* The loops end on quit.  The Win32 loop lets the event go and stops
\* debugging, which lets everything else go.
WorkerQuit ==
    /\ wpc \in {"poll", "paused"} /\ quit /\ (wpc = "paused" => mu = "free")
    /\ wpc' = "done"
    /\ trap' = IF Stealth THEN trap ELSE [t \in Threads |-> "no"]
    /\ resume' = IF wpc = "paused" /\ ~Stealth THEN "none" ELSE resume
    /\ alive' = (alive /\ ~(wpc = "paused" /\ trap[cur] = "last"))
    /\ UNCHANGED <<code, dr, at, tf, site, susp, dbg, mode, bps, hit, plan, paused_tid, paused_at,
                   frozen, quit, mu, cur, tool, debuggerHistory>>

\* EXIT_PROCESS_DEBUG_EVENT, or the watchdog of the stealth loop.
TargetExited ==
    /\ wpc = "poll" /\ ~quit /\ ~alive
    /\ dbg' = "idle" /\ wpc' = "done" /\ quit' = (quit \/ ~Stealth)
    /\ UNCHANGED <<targetVars, mode, bps, hit, resume, plan, paused_tid, paused_at, frozen, mu, cur,
                   tool, debuggerHistory>>

DebugWorker ==
    \/ \E t \in Threads : \/ FindHit(t) \/ TempLanding(t) \/ ForeignInt3(t)
                          \/ OtherException(t)
    \/ HitTrace \/ TraceRelease \/ HitStop \/ Pause \/ PauseFreeze \/ EvalWait \/ Sleep \/ WaitTimeout
    \/ Resume \/ Thaw \/ WorkerQuit \/ TargetExited

-----------------------------------------------------------------------------
(* The tool's thread, one call at a time.                                  *)

\* attach() over an idle engine whose last worker was joined.  The operating
\* system stops a Win32 target on a breakpoint of its own.
Attach(m) ==
    /\ tool = "rest" /\ dbg = "idle" /\ wpc = "none" /\ alive
    /\ sessions < MaxSessions /\ sessions' = sessions + 1
    /\ mode' = m /\ dbg' = "running" /\ quit' = FALSE /\ wpc' = "poll"
    /\ IF m = "user" THEN \E t \in Threads : trap' = [trap EXCEPT ![t] = "bp"]
                     ELSE UNCHANGED trap
    /\ site' = [t \in Threads |-> 0] /\ leftover' = {a \in Addrs : code[a] = "cc"}
    /\ UNCHANGED <<code, dr, at, tf, susp, alive, bps, hit, resume, plan, paused_tid, paused_at,
                   frozen, mu, cur, tool, held, dangling, edits, resumes>>

Idle == tool = "rest" /\ mu = "free" /\ dbg # "idle" /\ alive /\ ~dangling

\* A change of the vector may move the record that hit_bp_ or the worker
\* points at; the model ends where the pointer would be used.
Editing == Idle /\ edits < MaxEdits
Pointed == ({hit} \ {0}) \cup (IF wpc \in {"hit", "tracing"} THEN {site[cur]} ELSE {})
Edit(gone) ==
    /\ edits' = edits + 1
    /\ dangling' \in IF Pointed = {} THEN {FALSE} ELSE IF gone \in Pointed THEN {TRUE} ELSE BOOLEAN

\* A stealth session freezes the world for the page flip, under the mutex, ...
FreezeForEdit ==
    /\ Editing /\ Stealth /\ \E a \in BpAddrs : bps[a].hw = 0
    /\ tool' = "frozen" /\ mu' = "tool" /\ kfreeze_world({})
    /\ UNCHANGED <<code, dr, at, tf, trap, site, alive, dbg, mode, bps, hit, resume, plan,
                   paused_tid, paused_at, quit, wpc, cur, debuggerHistory>>

\* ... and thaws it after, also a world that was frozen before.
Flipping == IF Stealth THEN tool = "frozen" /\ edits < MaxEdits ELSE Editing
EndFlip == tool' = "rest" /\ mu' = "free" /\ kunfreeze_world

\* A second record for an address would stash the int3 of the first.
AnySite(a) == TRUE
NewSite(a) == ~Known(a)

SetSwBreakpoint(a) ==
    /\ Flipping /\ NewSite(a) /\ Edit(0) /\ EndFlip
    /\ bps' = [bps EXCEPT ![a] = Bp("stop", 0, code[a], TRUE)]
    /\ code' = [code EXCEPT ![a] = "cc"]
    /\ UNCHANGED <<dr, at, tf, trap, site, alive, dbg, mode, hit, resume, plan, paused_tid,
                   paused_at, quit, wpc, cur, held, leftover, resumes, sessions>>

\* configure_breakpoint, the second half of bp_set.
ConfigureBreakpoint(a, k, once) ==
    /\ Idle /\ bps[a].kind = "stop" /\ ~bps[a].once /\ bps[a].hw = 0
    /\ bps' = [bps EXCEPT ![a].kind = k, ![a].once = once]
    /\ UNCHANGED <<targetVars, dbg, mode, hit, resume, plan, paused_tid, paused_at, quit, frozen,
                   actorVars, debuggerHistory>>

\* The first slot no record claims.
SetHwBreakpoint(a) ==
    LET free == {s \in HwSlots : \A b \in Addrs : bps[b].hw # s} IN
    /\ Editing /\ NewSite(a) /\ free # {} /\ Edit(0)
    /\ \E s \in free :
         /\ \A r \in free : s <= r
         /\ dr' = [dr EXCEPT ![s] = a] /\ bps' = [bps EXCEPT ![a] = Bp("stop", s, "cc", FALSE)]
    /\ UNCHANGED <<code, at, tf, trap, site, susp, alive, dbg, mode, hit, resume, plan, paused_tid,
                   paused_at, quit, frozen, actorVars, held, leftover, resumes, sessions>>

\* clear_hw_breakpoint passes a length of 0, which apply_hw_breakpoint
\* refuses before it reaches the driver: the register stays programmed.
ClearedSlots(S) == dr

ClearBreakpoint(a) ==
    /\ Known(a) /\ Edit(a)
    /\ IF bps[a].hw # 0
       THEN /\ Editing
            /\ dr' = ClearedSlots({bps[a].hw}) /\ UNCHANGED <<code, frozen, susp, tool, mu>>
       ELSE Flipping /\ code' = Disarm({a}) /\ EndFlip /\ UNCHANGED dr
    /\ bps' = [bps EXCEPT ![a] = NoBp]
    /\ UNCHANGED <<at, tf, trap, site, alive, dbg, mode, hit, resume, plan, paused_tid, paused_at,
                   quit, wpc, cur, held, leftover, resumes, sessions>>

\* plan_step_over decodes at the pointer of the last pause; plan_step_out
\* takes the return address.
Planned(c) ==
    CASE c = "continue" -> Plan("none", 0)
      [] c = "step_into" -> Plan("trap_flag", 0)
      [] c = "step_over" -> IF paused_at \in CallSites
                            THEN Plan("temp_breakpoint", Succ(paused_at))
                            ELSE Plan("trap_flag", 0)
      [] c = "step_out" -> Plan("temp_breakpoint", RetAddr)

Notify == wpc' = IF wpc = "asleep" THEN "paused" ELSE wpc

\* go, step_into, step_over, step_out: nothing asks whether the engine is paused.
RequestResume(c) ==
    /\ Idle /\ resumes < MaxResumes /\ resumes' = resumes + 1
    /\ plan' = Planned(c) /\ resume' = "apply_plan" /\ Notify
    /\ UNCHANGED <<targetVars, dbg, mode, bps, hit, paused_tid, paused_at, quit, frozen, mu, cur,
                   tool, held, dangling, leftover, edits, sessions>>

SuspendAll ==
    /\ Idle /\ Stealth /\ ~held
    /\ held' = TRUE /\ susp' = [t \in Threads |-> susp[t] + 1]
    /\ UNCHANGED <<code, dr, at, tf, trap, site, alive, engineVars, actorVars, dangling, leftover,
                   edits, resumes, sessions>>
ResumeAll ==
    /\ Idle /\ Stealth /\ held
    /\ held' = FALSE /\ susp' = Resumed(susp)
    /\ UNCHANGED <<code, dr, at, tf, trap, site, alive, engineVars, actorVars, dangling, leftover,
                   edits, resumes, sessions>>

SwBps == {a \in Addrs : bps[a].hw = 0}

\* detach(): the breakpoints go under the mutex, ...
DetachDisarm ==
    /\ tool = "rest" /\ mu = "free" /\ ~dangling
    /\ dbg # "idle" \/ wpc # "none"
    /\ kfreeze_world({})
    /\ code' = Disarm(SwBps) /\ bps' = Disarmed(SwBps)
    /\ dr' = ClearedSlots({bps[a].hw : a \in Addrs} \ {0})
    /\ tool' = "quit"
    /\ UNCHANGED <<at, tf, trap, site, alive, dbg, mode, hit, resume, plan, paused_tid, paused_at,
                   quit, mu, wpc, cur, debuggerHistory>>

\* ... the worker is without it, ...
DetachQuit ==
    /\ tool = "quit"
    /\ quit' = TRUE /\ Notify /\ tool' = "join"
    /\ UNCHANGED <<targetVars, dbg, mode, bps, hit, resume, plan, paused_tid, paused_at, frozen, mu,
                   cur, debuggerHistory>>

\* ... joined, and the injected handler taken down: parked threads leave
\* their slots with the trap flag off.
DetachEnd ==
    /\ tool = "join" /\ wpc = "done" /\ mu = "free"
    /\ trap' = [t \in Threads |-> "no"]
    /\ tf' = IF Stealth THEN [t \in Threads |-> tf[t] /\ trap[t] = "no"] ELSE tf
    /\ kunfreeze_world
    /\ bps' = [a \in Addrs |-> NoBp] /\ hit' = 0
    /\ dbg' = "idle" /\ mode' = "idle" /\ wpc' = "none" /\ tool' = "rest"
    /\ UNCHANGED <<code, dr, at, site, alive, resume, plan, paused_tid, paused_at, quit, mu, cur,
                   debuggerHistory>>

Commands == {"continue", "step_into", "step_over", "step_out"}

DebugTool ==
    \/ \E m \in Modes : Attach(m)
    \/ \E a \in BpAddrs : \/ SetSwBreakpoint(a) \/ SetHwBreakpoint(a) \/ ClearBreakpoint(a)
                          \/ \E k \in Kinds, once \in BOOLEAN : ConfigureBreakpoint(a, k, once)
    \/ \E c \in Commands : RequestResume(c)
    \/ FreezeForEdit \/ SuspendAll \/ ResumeAll \/ DetachDisarm \/ DetachQuit \/ DetachEnd

Debuggee == (\E t \in Threads : Execute(t) \/ ExecuteInt3(t) \/ DebugRegisterHit(t)) \/ Die

DebuggerNext == DebugWorker \/ DebugTool \/ Debuggee

\* The worker is a thread of its own and detach() runs to its end.  Nobody
\* makes the client, or the target, do anything.
DebuggerFairness ==
    /\ WF_debuggerVars(DebugWorker)
    /\ WF_debuggerVars(DetachQuit \/ DetachEnd)

DebuggerSpec == DebuggerInit /\ [][DebuggerNext]_debuggerVars /\ DebuggerFairness

-----------------------------------------------------------------------------
(* What is checked.                                                        *)

\* A thread is suspended once by the freeze, once by the client, and once for
\* every edit the worker's freeze has raced, the one in progress included.
SuspendLimit == edits + (IF tool = "frozen" THEN 1 ELSE 0) + (IF frozen THEN 1 ELSE 0)
                      + (IF held THEN 1 ELSE 0)

\* The variables hold what their declarations in debugger.hpp allow.
DebuggerTypeOK ==
    /\ code \in [Addrs -> {"orig", "cc"}] /\ dr \in [HwSlots -> {0} \cup Addrs]
    /\ at \in [Threads -> Addrs] /\ tf \in [Threads -> BOOLEAN]
    /\ trap \in [Threads -> {"no", "bp", "step", "last"}] /\ site \in [Threads -> {0} \cup Addrs]
    /\ susp \in [Threads -> 0 .. SuspendLimit] /\ alive \in BOOLEAN
    /\ dbg \in {"idle", "running", "paused"} /\ mode \in Modes \cup {"idle"}
    /\ bps \in [Addrs -> BpRecords] /\ hit \in {0} \cup Addrs
    /\ resume \in {"none", "apply_plan", "step_rearm"} /\ plan \in PlanType
    /\ paused_tid \in Threads
    /\ paused_at \in {0} \cup Addrs /\ quit \in BOOLEAN
    /\ frozen \in BOOLEAN /\ mu \in {"free", "worker", "tool"} /\ cur \in Threads
    /\ wpc \in {"none", "poll", "hit", "tracing", "pausing", "freezing", "paused", "eval", "thawing",
                "asleep", "done"}
    /\ tool \in {"rest", "frozen", "quit", "join"} /\ held \in BOOLEAN /\ dangling \in BOOLEAN
    /\ leftover \subseteq Addrs /\ edits \in 0 .. MaxEdits

\* Where a step may plant a temporary breakpoint.
StepSites == {RetAddr} \cup {Succ(a) : a \in CallSites}

\* A byte the session replaced can be put back: while a session is attached,
\* every int3 at a client's breakpoint has a record, and no record has taken
\* an int3 for the original byte.  Not where steps plant theirs, which is not
\* put back, and not where an int3 was there before the session.
TrapsAreRecorded ==
    dbg # "idle" /\ ~dangling =>
        \A a \in BpAddrs \ (StepSites \cup leftover) : code[a] = "cc" => Known(a) /\ bps[a].hw = 0 /\ bps[a].orig = "orig"

\* A pause is somebody's pause: while the client is told "paused", the thread
\* whose registers it reads and edits is stopped on its exception.
PausedIsHeld == dbg = "paused" /\ tool = "rest" => trap[paused_tid] # "no"

\* Detaching a stealth session ends, a paused one included: the worker's wait
\* has a timeout, so the wakeup sent without the mutex may be lost and the join
\* still does not last for ever.
StealthDetachReturns == []<>~(tool = "join" /\ Stealth /\ ~dangling)
=============================================================================
