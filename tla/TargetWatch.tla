---------------------------- MODULE TargetWatch ----------------------------
(***************************************************************************)
(* The attached target and the watch list.  The tool's thread attaches,    *)
(* detaches, switches backends, points the shared kernel device at other   *)
(* processes and edits the list; the engine's main loop drops a dead       *)
(* target (process/target_service.cpp) and samples the list, writing the   *)
(* held value of frozen entries back (memory/watch_service.cpp).  The two  *)
(* threads share the session object and the device, and only the list and  *)
(* the session pointer have a mutex.  Every entry watches the same address.*)
(***************************************************************************)
EXTENDS Integers, FiniteSets

CONSTANTS Pids, NoPid,   \* processes the client attaches to; none
          Others,        \* further processes that driver actions address
          Values,        \* what processes and clients put at the watched address
          MaxEntries,    \* limits::max_watch_entries
          MaxWatchIds, MaxSessionObjects   \* bounds on the client

ASSUME WatchConstants ==
    /\ NoPid \notin Pids \cup Others /\ Pids \cap Others = {}
    /\ Values \subseteq Nat \ {0} /\ MaxEntries \in Nat \ {0}
    /\ {MaxWatchIds, MaxSessionObjects} \subseteq Nat

Backends == {"user", "kernel"}
WatchIds == 1 .. MaxWatchIds
NoEntry == [freeze |-> FALSE, bits |-> -1]
NoSample == [ok |-> FALSE, bits |-> -1]

VARIABLES
    running, mem,       \* which processes live; the watched address in each
    backend,            \* g_active
    route,              \* per backend, the process an I/O reaches now
    session,            \* g_session: an object, or 0
    opened, owner,      \* per object: its process (NoPid once closed), its backend
    objects,            \* session objects made so far
    entries, next_id, last,
    pass,               \* the main loop: where it is and what it holds
    pending             \* a poke between its two steps

watchVars == <<running, mem, backend, route, session, opened, owner, objects, entries, next_id,
               last, pass, pending>>

Resting == [pc |-> "target", snap |-> [i \in WatchIds |-> NoEntry], obj |-> 0, todo |-> {},
            sampled |-> [i \in WatchIds |-> NoSample], via |-> "user"]
NoPoke == [id |-> 0, bits |-> 0]

WatchInit ==
    /\ running = Pids /\ mem \in [Pids -> Values]
    /\ backend \in Backends /\ route = [b \in Backends |-> NoPid]
    /\ session = 0 /\ objects = 0
    /\ opened = [o \in 0 .. MaxSessionObjects |-> NoPid]
    /\ owner = [o \in 0 .. MaxSessionObjects |-> "user"]
    /\ entries = [i \in WatchIds |-> NoEntry] /\ next_id = 1
    /\ last = [i \in WatchIds |-> NoSample]
    /\ pass = Resting /\ pending = NoPoke

Listed == {i \in WatchIds : entries[i] # NoEntry}
Open(o) == o # 0 /\ opened[o] # NoPid

\* session_t::read and write: an open handle, and for the kernel backend a
\* device that is on the handle's process.  The I/O itself goes where the
\* device or the handle value points when it is done.
MayIO(o) == Open(o) /\ (backend = "kernel" => route["kernel"] = opened[o])
Reached(b) == IF route[b] \in running THEN {route[b]} ELSE {}

-----------------------------------------------------------------------------
(* The processes (external).                                               *)

ProcessWrites(p, v) ==
    /\ p \in running /\ mem' = [mem EXCEPT ![p] = v]
    /\ UNCHANGED <<running, backend, route, session, opened, owner, objects, entries, next_id,
                   last, pass, pending>>
ProcessExits(p) ==
    /\ p \in running /\ running' = running \ {p}
    /\ UNCHANGED <<mem, backend, route, session, opened, owner, objects, entries, next_id,
                   last, pass, pending>>

-----------------------------------------------------------------------------
(* The tool's thread.                                                      *)

Free == pending = NoPoke

\* session_t::close detaches through the backend that is active now.
Closed == IF Open(session) THEN [route EXCEPT ![backend] = NoPid] ELSE route
target_close ==
    /\ opened' = [opened EXCEPT ![session] = NoPid]
    /\ route' = Closed /\ session' = 0

\* The old session goes first.  A process that is gone cannot be opened, but
\* the kernel device has its context cleared by the attempt.
target_attach(p) ==
    /\ Free /\ objects < MaxSessionObjects
    /\ IF p \in running
       THEN /\ objects' = objects + 1 /\ session' = objects + 1
            /\ opened' = [opened EXCEPT ![session] = NoPid, ![objects + 1] = p]
            /\ owner' = [owner EXCEPT ![objects + 1] = backend]
            /\ route' = [Closed EXCEPT ![backend] = p]
       ELSE /\ session' = 0 /\ opened' = [opened EXCEPT ![session] = NoPid]
            /\ route' = [Closed EXCEPT !["kernel"] = IF backend = "kernel" THEN NoPid ELSE @]
            /\ UNCHANGED <<objects, owner>>
    /\ UNCHANGED <<running, mem, backend, entries, next_id, last, pass, pending>>

target_detach ==
    /\ Free /\ session # 0 /\ target_close
    /\ UNCHANGED <<running, mem, backend, owner, objects, entries, next_id, last, pass,
                   pending>>

\* ensure_context: a driver action on another process moves the shared device.
ensure_context(p) ==
    /\ Free /\ backend = "kernel" /\ route["kernel"] # p
    /\ route' = [route EXCEPT !["kernel"] = IF p \in running \cup Others THEN p ELSE NoPid]
    /\ UNCHANGED <<running, mem, backend, session, opened, owner, objects, entries, next_id,
                   last, pass, pending>>

\* driver.backend refuses while a session is open.
BackendAlwaysMaySwitch == TRUE
BackendMaySwitch == ~Open(session)
\* force_user disconnects the device, which clears its context; the kernel
\* backend needs the driver to answer.
set_backend_preference(b) ==
    /\ Free /\ BackendMaySwitch /\ b # backend
    /\ backend' = b
    /\ route' = IF b = "user" THEN [route EXCEPT !["kernel"] = NoPid] ELSE route
    /\ UNCHANGED <<running, mem, session, opened, owner, objects, entries, next_id, last,
                   pass, pending>>

add ==
    /\ Free /\ Cardinality(Listed) < MaxEntries /\ next_id \in WatchIds
    /\ entries' = [entries EXCEPT ![next_id] = [freeze |-> FALSE, bits |-> 0]]
    /\ next_id' = next_id + 1
    /\ UNCHANGED <<running, mem, backend, route, session, opened, owner, objects, last,
                   pass, pending>>

remove(i) ==
    /\ Free /\ i \in Listed
    /\ entries' = [entries EXCEPT ![i] = NoEntry] /\ last' = [last EXCEPT ![i] = NoSample]
    /\ UNCHANGED <<running, mem, backend, route, session, opened, owner, objects, next_id,
                   pass, pending>>

clear ==
    /\ Free /\ Listed # {}
    /\ entries' = [i \in WatchIds |-> NoEntry] /\ last' = [i \in WatchIds |-> NoSample]
    /\ UNCHANGED <<running, mem, backend, route, session, opened, owner, objects, next_id,
                   pass, pending>>

\* Freezing latches the last sample, when there is a good one.
set_freeze(i, on) ==
    /\ Free /\ i \in Listed /\ on # entries[i].freeze
    /\ entries' = [entries EXCEPT ![i] =
                     [freeze |-> on, bits |-> IF on /\ last[i].ok THEN last[i].bits ELSE @.bits]]
    /\ UNCHANGED <<running, mem, backend, route, session, opened, owner, objects, next_id, last, pass, pending>>

\* poke: the held value first, then the write, outside the list's mutex.
poke(i, v) ==
    /\ Free /\ i \in Listed
    /\ pending' = [id |-> i, bits |-> v]
    /\ entries' = [entries EXCEPT ![i].bits = v]
    /\ UNCHANGED <<running, mem, backend, route, session, opened, owner, objects, next_id, last, pass>>
poke_write ==
    /\ pending # NoPoke /\ pending' = NoPoke
    /\ mem' = [p \in Pids |-> IF MayIO(session) /\ p \in Reached(backend) THEN pending.bits ELSE mem[p]]
    /\ UNCHANGED <<running, backend, route, session, opened, owner, objects, entries, next_id, last, pass>>

-----------------------------------------------------------------------------
(* The main loop: target_tick(), then watch::tick().                       *)

At(pc) == pass.pc = pc

target_tick ==
    /\ At("target")
    /\ pass' = [pass EXCEPT !.pc = IF session = 0 THEN "list" ELSE "alive", !.obj = session]
    /\ UNCHANGED <<running, mem, backend, route, session, opened, owner, objects, entries, next_id,
                   last, pending>>

\* The process list is read without the mutex; the session is dropped only
\* when it is still the one that was asked about.
StillRuns == opened[pass.obj] \in running /\ session = pass.obj
HasEnded == opened[pass.obj] \notin running /\ session = pass.obj
target_dropped ==
    /\ At("alive")
    /\ IF HasEnded
       THEN target_close
       ELSE UNCHANGED <<opened, route, session>>
    /\ pass' = [pass EXCEPT !.pc = "list", !.obj = 0]
    /\ UNCHANGED <<running, mem, backend, owner, objects, entries, next_id, last, pending>>

\* Nothing is concluded from a list that cannot be read.
target_unlisted ==
    /\ At("alive")
    /\ pass' = [pass EXCEPT !.pc = "list", !.obj = 0]
    /\ UNCHANGED <<running, mem, backend, route, session, opened, owner, objects, entries, next_id,
                   last, pending>>

tick_snapshot ==
    /\ At("list")
    /\ IF Listed = {}
       THEN pass' = Resting /\ last' = [i \in WatchIds |-> NoSample]
       ELSE /\ pass' = [pass EXCEPT !.pc = "session", !.snap = entries, !.todo = Listed]
            /\ UNCHANGED last
    /\ UNCHANGED <<running, mem, backend, route, session, opened, owner, objects, entries, next_id, pending>>

\* Inside the sampling interval a tick leaves the list alone.
tick_early ==
    /\ At("list") /\ Listed # {}
    /\ pass' = Resting
    /\ UNCHANGED <<running, mem, backend, route, session, opened, owner, objects, entries, next_id,
                   last, pending>>

tick_session ==
    /\ At("session")
    /\ IF Open(session)
       THEN pass' = [pass EXCEPT !.pc = "read", !.obj = session] /\ UNCHANGED last
       ELSE pass' = Resting /\ last' = [i \in WatchIds |-> NoSample]
    /\ UNCHANGED <<running, mem, backend, route, session, opened, owner, objects, entries, next_id, pending>>

\* The entries stand in the list in the order of their ids.
Sampling == CHOOSE i \in pass.todo : \A j \in pass.todo : i <= j

tick_read ==
    /\ At("read") /\ pass.todo # {}
    /\ LET got == IF MayIO(pass.obj) THEN Reached(backend) ELSE {}
           bits == IF got = {} THEN -1 ELSE mem[CHOOSE p \in got : TRUE]
           e == pass.snap[Sampling]
       IN pass' = [pass EXCEPT
              !.sampled[Sampling] = IF e.freeze THEN [ok |-> TRUE, bits |-> e.bits]
                                    ELSE [ok |-> got # {}, bits |-> bits],
              !.pc = IF e.freeze /\ MayIO(pass.obj) THEN "write" ELSE "read",
              !.todo = IF e.freeze /\ MayIO(pass.obj) THEN @ ELSE @ \ {Sampling},
              !.via = IF e.freeze /\ MayIO(pass.obj) THEN backend ELSE @]
    /\ UNCHANGED <<running, mem, backend, route, session, opened, owner, objects, entries, next_id,
                   last, pending>>

\* The checks have passed; the value goes wherever the handle or the device
\* points by now.
NothingHeld == mem
Held == [p \in Pids |-> IF p \in Reached(pass.via) THEN pass.snap[Sampling].bits ELSE mem[p]]
tick_write ==
    /\ At("write")
    /\ mem' = Held
    /\ pass' = [pass EXCEPT !.pc = "read", !.todo = @ \ {Sampling}, !.via = "user"]
    /\ UNCHANGED <<running, backend, route, session, opened, owner, objects, entries, next_id,
                   last, pending>>

\* Unfrozen entries track the sample, whatever was poked since the snapshot.
tick_apply ==
    /\ At("read") /\ pass.todo = {}
    /\ entries' = [i \in WatchIds |->
                     IF i \in Listed /\ ~entries[i].freeze /\ pass.sampled[i].ok
                     THEN [entries[i] EXCEPT !.bits = pass.sampled[i].bits] ELSE entries[i]]
    /\ last' = pass.sampled
    /\ pass' = Resting
    /\ UNCHANGED <<running, mem, backend, route, session, opened, owner, objects, next_id,
                   pending>>

MainLoop == \/ target_tick \/ target_dropped \/ target_unlisted \/ tick_snapshot \/ tick_early
            \/ tick_session \/ tick_read \/ tick_write \/ tick_apply

WatchNext ==
    \/ MainLoop
    \/ \E p \in Pids \cup Others : ensure_context(p)
    \/ \E p \in Pids : \/ target_attach(p) \/ ProcessExits(p)
                       \/ \E v \in Values : ProcessWrites(p, v)
    \/ target_detach \/ add \/ clear \/ poke_write
    \/ \E b \in Backends : set_backend_preference(b)
    \/ \E i \in WatchIds : \/ remove(i)
                           \/ \E on \in BOOLEAN : set_freeze(i, on)
                           \/ \E v \in Values : poke(i, v)

\* The main loop never stops ticking while the engine is up, the sampling
\* interval passes, and the list of processes can be read now and then.
WatchFairness ==
    WF_watchVars(MainLoop) /\ SF_watchVars(tick_snapshot) /\ SF_watchVars(target_dropped)
WatchSpec == WatchInit /\ [][WatchNext]_watchVars /\ WatchFairness

-----------------------------------------------------------------------------
(* What is checked.                                                        *)

WatchTypeOK ==
    /\ running \subseteq Pids /\ mem \in [Pids -> Values \cup {0}] /\ backend \in Backends
    /\ route \in [Backends -> Pids \cup Others \cup {NoPid}]
    /\ session \in 0 .. objects /\ objects \in 0 .. MaxSessionObjects
    /\ opened \in [0 .. MaxSessionObjects -> Pids \cup {NoPid}]
    /\ owner \in [0 .. MaxSessionObjects -> Backends]
    /\ entries \in [WatchIds -> [freeze : BOOLEAN, bits : Values \cup {0, -1}]]
    /\ last \in [WatchIds -> [ok : BOOLEAN, bits : Values \cup {0, -1}]]
    /\ next_id \in 1 .. MaxWatchIds + 1

\* A process handle is opened and closed once, by the same backend: the user
\* backend holds one exactly while a session it opened is attached.
HandleIsOwned ==
    /\ Open(session) => owner[session] = backend
    /\ route["user"] # NoPid <=> Open(session) /\ owner[session] = "user"
    /\ Open(session) /\ owner[session] = "user" => route["user"] = opened[session]

\* A frozen entry is held: as long as the target stays attached and its device
\* stays on it, the held value is written into it again and again.
HeldValueIsWritten ==
    \A i \in WatchIds : \A p \in Pids :
        []<>(entries[i].freeze /\ Open(session) /\ opened[session] = p /\ route[backend] = p
                => mem[p] = entries[i].bits)

\* The heartbeat drops the session of a process that ended, while another
\* attach may be replacing it: no session stays open for ever on a dead process.
DeadTargetIsDropped ==
    \A p \in Pids : []<>~(Open(session) /\ opened[session] = p /\ p \notin running)
=============================================================================
