--------------------------- MODULE ServicesProofs ---------------------------
(***************************************************************************)
(* Proofs about the services that tool calls share with threads of their   *)
(* own, for any number of processes, entries, images and requests.         *)
(***************************************************************************)
EXTENDS MCServices, InductionLemmas

-----------------------------------------------------------------------------
(* The attached target and the watch list *)

Bits == Values \cup {0}
Entries == [freeze : BOOLEAN, bits : Bits]
Samples == {NoSample} \cup [ok : {TRUE}, bits : Bits]

PassType ==
  [pc : {"target", "alive", "list", "session", "read", "write"},
   snap : [WatchIds -> {NoEntry} \cup Entries], obj : 0 .. MaxSessionObjects,
   todo : SUBSET WatchIds, sampled : [WatchIds -> Samples], via : Backends]

\* What the threads of the watch list hold: a good sample and a listed entry have
\* a value, and the main loop works on entries that were listed.
ListHolds ==
  /\ entries \in [WatchIds -> {NoEntry} \cup Entries]
  /\ last \in [WatchIds -> Samples]
  /\ pass \in PassType /\ pending \in [id : 0 .. MaxWatchIds, bits : Bits]
  /\ \A i \in pass.todo : pass.snap[i] \in Entries
  /\ pass.pc = "write" => pass.todo # {}

WatchInv == WatchTypeOK /\ ListHolds /\ HandleIsOwned

\* Entries and samples as WatchTypeOK describes them.
LEMMA WatchShapes ==
  /\ Entries \subseteq [freeze : BOOLEAN, bits : Values \cup {0, -1}]
  /\ NoEntry \in [freeze : BOOLEAN, bits : Values \cup {0, -1}]
  /\ Samples \subseteq [ok : BOOLEAN, bits : Values \cup {0, -1}]
  /\ NoSample \in Samples /\ NoSample.ok = FALSE
<1>1. Entries \subseteq [freeze : BOOLEAN, bits : Values \cup {0, -1}] BY DEF Entries, Bits
<1>2. NoEntry \in [freeze : BOOLEAN, bits : Values \cup {0, -1}] BY DEF NoEntry
<1>3. NoSample \in [ok : BOOLEAN, bits : Values \cup {0, -1}] BY DEF NoSample
<1>4. [ok : {TRUE}, bits : Bits] \subseteq [ok : BOOLEAN, bits : Values \cup {0, -1}] BY DEF Bits
<1>5. NoSample.ok = FALSE BY DEF NoSample
<1> QED BY <1>1, <1>2, <1>3, <1>4, <1>5 DEF Samples

LEMMA RestingHolds == Resting \in PassType /\ Resting.todo = {} /\ Resting.pc = "target"
<1>1. [i \in WatchIds |-> NoSample] \in [WatchIds -> Samples] BY WatchShapes
<1>2. [i \in WatchIds |-> NoEntry] \in [WatchIds -> {NoEntry} \cup Entries] OBVIOUS
<1>3. 0 \in 0 .. MaxSessionObjects BY WatchConstants
<1> QED BY <1>1, <1>2, <1>3 DEF Resting, PassType, Backends

\* The entry the main loop is at is one it still has to sample.
LEMMA SamplingChosen ==
  ASSUME pass \in PassType, pass.todo # {}
  PROVE  Sampling \in pass.todo
<1>1. pass.todo \subseteq Nat BY WatchConstants DEF PassType, WatchIds
<1>2. \E i \in pass.todo : \A j \in pass.todo : i <= j BY <1>1, LeastNatural
<1> QED BY <1>2 DEF Sampling

LEMMA WatchInitInv == WatchInit => WatchInv
<1> SUFFICES ASSUME WatchInit PROVE WatchInv
  OBVIOUS
<1> USE WatchConstants
<1>1. ListHolds
  <2>1. entries \in [WatchIds -> {NoEntry} \cup Entries] BY DEF WatchInit
  <2>2. last \in [WatchIds -> Samples] BY WatchShapes DEF WatchInit
  <2>3. pass \in PassType /\ pass.todo = {} /\ pass.pc = "target" BY RestingHolds DEF WatchInit
  <2>4. pending \in [id : 0 .. MaxWatchIds, bits : Bits] BY DEF WatchInit, NoPoke, Bits
  <2> QED BY <2>1, <2>2, <2>3, <2>4 DEF ListHolds
<1>2. WatchTypeOK
  <2>1. entries \in [WatchIds -> [freeze : BOOLEAN, bits : Values \cup {0, -1}]]
    BY WatchShapes DEF WatchInit
  <2>2. last \in [WatchIds -> [ok : BOOLEAN, bits : Values \cup {0, -1}]]
    BY WatchShapes DEF WatchInit
  <2> QED BY <2>1, <2>2 DEF WatchInit, WatchTypeOK, Backends
<1>3. HandleIsOwned BY DEF WatchInit, HandleIsOwned, Open, Backends
<1> QED BY <1>1, <1>2, <1>3 DEF WatchInv

\* Every step keeps the process handle with the backend that opened it.
LEMMA HandleStep == WatchTypeOK /\ HandleIsOwned /\ [WatchNext]_watchVars => HandleIsOwned'
<1> SUFFICES ASSUME WatchTypeOK, HandleIsOwned, [WatchNext]_watchVars PROVE HandleIsOwned'
  OBVIOUS
<1> USE WatchConstants
<1>t. /\ session \in 0 .. objects /\ objects \in 0 .. MaxSessionObjects /\ backend \in Backends
      /\ opened \in [0 .. MaxSessionObjects -> Pids \cup {NoPid}]
      /\ owner \in [0 .. MaxSessionObjects -> Backends]
      /\ route \in [Backends -> Pids \cup Others \cup {NoPid}]
      /\ session \in 0 .. MaxSessionObjects
  BY DEF WatchTypeOK
\* Dropping the session leaves the user backend with no handle.
<1>c. /\ Closed \in [Backends -> Pids \cup Others \cup {NoPid}]
      /\ Closed["user"] = NoPid
  BY <1>t DEF Closed, Open, HandleIsOwned, Backends
<1>d. ASSUME target_close, UNCHANGED <<backend, owner>> PROVE HandleIsOwned'
  BY <1>c, <1>d, <1>t DEF target_close, HandleIsOwned, Open
<1>1. ASSUME NEW p \in Pids, target_attach(p) PROVE HandleIsOwned'
  <2>1. CASE p \in running
    <3>1. /\ objects < MaxSessionObjects /\ session' = objects + 1 /\ backend' = backend
          /\ opened' = [opened EXCEPT ![session] = NoPid, ![objects + 1] = p]
          /\ owner' = [owner EXCEPT ![objects + 1] = backend]
          /\ route' = [Closed EXCEPT ![backend] = p]
      BY <1>1, <2>1 DEF target_attach
    <3>2. objects + 1 \in 0 .. MaxSessionObjects /\ objects + 1 # 0 BY <1>t, <3>1
    <3>3. opened'[session'] = p /\ owner'[session'] = backend /\ session' # 0 /\ p # NoPid
      BY <1>t, <3>1, <3>2
    <3>4. route'["user"] = IF backend = "user" THEN p ELSE NoPid
      BY <1>c, <1>t, <3>1 DEF Backends
    <3> QED BY <3>1, <3>3, <3>4 DEF HandleIsOwned, Open
  <2>2. CASE p \notin running
    <3>1. /\ session' = 0 /\ backend' = backend /\ owner' = owner
          /\ route' = [Closed EXCEPT !["kernel"] = IF backend = "kernel" THEN NoPid ELSE @]
      BY <1>1, <2>2 DEF target_attach
    <3>2. route'["user"] = NoPid BY <1>c, <3>1 DEF Backends
    <3> QED BY <3>1, <3>2 DEF HandleIsOwned, Open
  <2> QED BY <2>1, <2>2
<1>2. CASE target_detach BY <1>2, <1>d DEF target_detach
<1>3. CASE target_dropped
  <2>1. CASE HasEnded BY <1>3, <1>d, <2>1 DEF target_dropped
  <2>2. CASE ~HasEnded
    <3>1. UNCHANGED <<opened, route, session, backend, owner>> BY <1>3, <2>2 DEF target_dropped
    <3> QED BY <3>1 DEF HandleIsOwned, Open
  <2> QED BY <2>1, <2>2
<1>4. ASSUME NEW p \in Pids \cup Others, ensure_context(p) PROVE HandleIsOwned'
  <2>1. UNCHANGED <<opened, session, backend, owner>> /\ route'["user"] = route["user"]
    BY <1>4, <1>t DEF ensure_context, Backends
  <2> QED BY <2>1 DEF HandleIsOwned, Open
<1>5. ASSUME NEW b \in Backends, set_backend_preference(b) PROVE HandleIsOwned'
  <2>1. UNCHANGED <<opened, session, owner>> /\ ~Open(session) /\ route'["user"] = route["user"]
    BY <1>5, <1>t DEF set_backend_preference, BackendMaySwitch, Backends
  <2> QED BY <2>1 DEF HandleIsOwned, Open
<1>6. ASSUME UNCHANGED <<opened, route, session, backend, owner>> PROVE HandleIsOwned'
  BY <1>6 DEF HandleIsOwned, Open
<1>7. CASE \/ target_tick \/ target_unlisted \/ tick_snapshot \/ tick_early \/ tick_session
           \/ tick_read \/ tick_write \/ tick_apply \/ add \/ clear \/ poke_write \/ UNCHANGED watchVars
  <2>1. UNCHANGED <<opened, route, session, backend, owner>>
    BY <1>7 DEF target_tick, target_unlisted, tick_snapshot, tick_early, tick_session, tick_read,
                tick_write, tick_apply, add, clear, poke_write, watchVars
  <2> QED BY <1>6, <2>1
<1>8. ASSUME NEW p \in Pids, ProcessExits(p) \/ \E v \in Values : ProcessWrites(p, v)
      PROVE  HandleIsOwned'
  <2>1. UNCHANGED <<opened, route, session, backend, owner>>
    BY <1>8 DEF ProcessExits, ProcessWrites
  <2> QED BY <1>6, <2>1
<1>9. ASSUME NEW i \in WatchIds,
             \/ remove(i) \/ \E on \in BOOLEAN : set_freeze(i, on) \/ \E v \in Values : poke(i, v)
      PROVE  HandleIsOwned'
  <2>1. UNCHANGED <<opened, route, session, backend, owner>>
    BY <1>9 DEF remove, set_freeze, poke
  <2> QED BY <1>6, <2>1
<1> QED BY <1>1, <1>2, <1>3, <1>4, <1>5, <1>7, <1>8, <1>9 DEF WatchNext, MainLoop

\* Every step keeps what the list and the main loop hold.
LEMMA ListStep == WatchTypeOK /\ ListHolds /\ [WatchNext]_watchVars => ListHolds'
<1> SUFFICES ASSUME WatchTypeOK, ListHolds, [WatchNext]_watchVars PROVE ListHolds'
  OBVIOUS
<1> USE WatchConstants
<1>t. /\ entries \in [WatchIds -> {NoEntry} \cup Entries] /\ last \in [WatchIds -> Samples]
      /\ pass \in PassType /\ pending \in [id : 0 .. MaxWatchIds, bits : Bits]
      /\ \A i \in pass.todo : pass.snap[i] \in Entries
      /\ pass.pc = "write" => pass.todo # {}
  BY DEF ListHolds
<1>l. \A i \in Listed : i \in WatchIds /\ entries[i] \in Entries BY <1>t DEF Listed
\* Steps of the tool's thread and of the processes leave the main loop alone.
<1>p. ASSUME pass' = pass, entries' \in [WatchIds -> {NoEntry} \cup Entries],
             last' \in [WatchIds -> Samples], pending' \in [id : 0 .. MaxWatchIds, bits : Bits]
      PROVE  ListHolds'
  BY <1>p, <1>t DEF ListHolds
\* Steps of the main loop that leave the entries alone.
<1>m. ASSUME entries' = entries, last' \in [WatchIds -> Samples], pending' = pending,
             pass' \in PassType, \A i \in pass'.todo : pass'.snap[i] \in Entries,
             pass'.pc = "write" => pass'.todo # {}
      PROVE  ListHolds'
  BY <1>m, <1>t DEF ListHolds
<1>n. [i \in WatchIds |-> NoSample] \in [WatchIds -> Samples] BY WatchShapes
<1>1. CASE target_tick
  <2>1. UNCHANGED <<entries, last, pending>> BY <1>1 DEF target_tick
  <2>2. pass' = [pass EXCEPT !.pc = IF session = 0 THEN "list" ELSE "alive", !.obj = session]
    BY <1>1 DEF target_tick
  <2>3. session \in 0 .. MaxSessionObjects BY DEF WatchTypeOK
  <2>4. pass' \in PassType /\ pass'.todo = pass.todo /\ pass'.snap = pass.snap /\ pass'.pc # "write"
    BY <1>t, <2>2, <2>3 DEF PassType
  <2> QED BY <1>m, <1>t, <2>1, <2>4
<1>2. CASE target_dropped \/ target_unlisted
  <2>1. UNCHANGED <<entries, last, pending>> BY <1>2 DEF target_dropped, target_unlisted
  <2>2. pass' = [pass EXCEPT !.pc = "list", !.obj = 0] BY <1>2 DEF target_dropped, target_unlisted
  <2>3. 0 \in 0 .. MaxSessionObjects OBVIOUS
  <2>4. pass' \in PassType /\ pass'.todo = pass.todo /\ pass'.snap = pass.snap /\ pass'.pc # "write"
    BY <1>t, <2>2, <2>3 DEF PassType
  <2> QED BY <1>m, <1>t, <2>1, <2>4
<1>3. CASE tick_snapshot
  <2>1. UNCHANGED <<entries, pending>> BY <1>3 DEF tick_snapshot
  <2>2. CASE Listed = {}
    <3>1. pass' = Resting /\ last' = [i \in WatchIds |-> NoSample] BY <1>3, <2>2 DEF tick_snapshot
    <3> QED BY <1>m, <1>n, <2>1, <3>1, RestingHolds
  <2>3. CASE Listed # {}
    <3>1. /\ pass' = [pass EXCEPT !.pc = "session", !.snap = entries, !.todo = Listed]
          /\ last' = last
      BY <1>3, <2>3 DEF tick_snapshot
    <3>2. Listed \in SUBSET WatchIds BY DEF Listed
    <3>3. pass' \in PassType /\ pass'.todo = Listed /\ pass'.snap = entries /\ pass'.pc # "write"
      BY <1>t, <3>1, <3>2 DEF PassType
    <3> QED BY <1>l, <1>m, <1>t, <2>1, <3>1, <3>3
  <2> QED BY <2>2, <2>3
<1>4. CASE tick_early
  <2>1. UNCHANGED <<entries, last, pending>> /\ pass' = Resting BY <1>4 DEF tick_early
  <2> QED BY <1>m, <1>t, <2>1, RestingHolds
<1>5. CASE tick_session
  <2>1. UNCHANGED <<entries, pending>> BY <1>5 DEF tick_session
  <2>2. CASE Open(session)
    <3>1. pass' = [pass EXCEPT !.pc = "read", !.obj = session] /\ last' = last
      BY <1>5, <2>2 DEF tick_session
    <3>2. session \in 0 .. MaxSessionObjects BY DEF WatchTypeOK
    <3>3. pass' \in PassType /\ pass'.todo = pass.todo /\ pass'.snap = pass.snap /\ pass'.pc # "write"
      BY <1>t, <3>1, <3>2 DEF PassType
    <3> QED BY <1>m, <1>t, <2>1, <3>1, <3>3
  <2>3. CASE ~Open(session)
    <3>1. pass' = Resting /\ last' = [i \in WatchIds |-> NoSample] BY <1>5, <2>3 DEF tick_session
    <3> QED BY <1>m, <1>n, <2>1, <3>1, RestingHolds
  <2> QED BY <2>2, <2>3
<1>6. CASE tick_read
  <2> DEFINE got == IF MayIO(pass.obj) THEN Reached(backend) ELSE {}
             bits == IF got = {} THEN -1 ELSE mem[CHOOSE p \in got : TRUE]
             e == pass.snap[Sampling]
             again == e.freeze /\ MayIO(pass.obj)
             s == IF e.freeze THEN [ok |-> TRUE, bits |-> e.bits]
                  ELSE [ok |-> got # {}, bits |-> bits]
  <2>1. UNCHANGED <<entries, last, pending>> /\ pass.todo # {} BY <1>6 DEF tick_read
  <2>2. pass' = [pass EXCEPT !.sampled[Sampling] = s, !.pc = IF again THEN "write" ELSE "read",
                             !.todo = IF again THEN @ ELSE @ \ {Sampling},
                             !.via = IF again THEN backend ELSE @]
    BY <1>6 DEF tick_read
  <2>3. Sampling \in pass.todo /\ Sampling \in WatchIds /\ e \in Entries
    BY <1>t, <2>1, SamplingChosen DEF PassType
  <2>4. got \subseteq Pids BY DEF Reached, WatchTypeOK
  <2>5. s \in Samples
    <3>1. CASE e.freeze
      <4>1. s = [ok |-> TRUE, bits |-> e.bits] BY <3>1
      <4>2. e.bits \in Bits BY <2>3 DEF Entries
      <4> HIDE DEF e, s
      <4> QED BY <4>1, <4>2 DEF Samples
    <3>2. CASE ~e.freeze /\ got = {}
      <4>1. s = [ok |-> FALSE, bits |-> -1] BY <3>2
      <4> HIDE DEF s
      <4> QED BY <4>1 DEF Samples, NoSample
    <3>3. CASE ~e.freeze /\ got # {}
      <4>1. s = [ok |-> TRUE, bits |-> mem[CHOOSE p \in got : TRUE]] BY <3>3
      <4>2. (CHOOSE p \in got : TRUE) \in Pids BY <2>4, <3>3
      <4>3. mem[CHOOSE p \in got : TRUE] \in Bits BY <4>2 DEF WatchTypeOK, Bits
      <4> HIDE DEF s, got
      <4> QED BY <4>1, <4>3 DEF Samples
    <3> QED BY <3>1, <3>2, <3>3
  <2>6. backend \in Backends BY DEF WatchTypeOK
  <2> HIDE DEF s, again, got, bits, e
  <2>7. /\ pass' \in PassType /\ pass'.snap = pass.snap /\ pass'.todo \subseteq pass.todo
        /\ pass'.pc = "write" => pass'.todo = pass.todo
    <3>1. CASE again
      <4>1. pass' = [pass EXCEPT !.sampled[Sampling] = s, !.pc = "write", !.via = backend]
        BY <1>t, <2>2, <3>1 DEF PassType
      <4> QED BY <1>t, <2>3, <2>5, <2>6, <4>1 DEF PassType
    <3>2. CASE ~again
      <4>1. pass' = [pass EXCEPT !.sampled[Sampling] = s, !.pc = "read", !.todo = @ \ {Sampling}]
        BY <1>t, <2>2, <3>2 DEF PassType
      <4> QED BY <1>t, <2>3, <2>5, <4>1 DEF PassType
    <3> QED BY <3>1, <3>2
  <2> QED BY <1>m, <1>t, <2>1, <2>7
<1>7. CASE tick_write
  <2>1. UNCHANGED <<entries, last, pending>> BY <1>7 DEF tick_write
  <2>2. pass' = [pass EXCEPT !.pc = "read", !.todo = @ \ {Sampling}, !.via = "user"]
    BY <1>7 DEF tick_write
  <2>3. pass' \in PassType /\ pass'.todo \subseteq pass.todo /\ pass'.snap = pass.snap /\ pass'.pc # "write"
    BY <1>t, <2>2 DEF PassType, Backends
  <2> QED BY <1>m, <1>t, <2>1, <2>3
<1>8. CASE tick_apply
  <2>1. /\ last' = pass.sampled /\ pass' = Resting /\ pending' = pending
        /\ entries' = [i \in WatchIds |->
                         IF i \in Listed /\ ~entries[i].freeze /\ pass.sampled[i].ok
                         THEN [entries[i] EXCEPT !.bits = pass.sampled[i].bits] ELSE entries[i]]
    BY <1>8 DEF tick_apply
  <2>2. ASSUME NEW i \in WatchIds, i \in Listed, pass.sampled[i].ok
        PROVE  [entries[i] EXCEPT !.bits = pass.sampled[i].bits] \in Entries
    <3>1. pass.sampled[i] \in Samples BY <1>t DEF PassType
    <3>2. pass.sampled[i].bits \in Bits BY <2>2, <3>1, WatchShapes DEF Samples
    <3>3. entries[i] \in Entries BY <1>l, <2>2
    <3> QED BY <3>2, <3>3 DEF Entries
  <2>3. entries' \in [WatchIds -> {NoEntry} \cup Entries] BY <1>t, <2>1, <2>2
  <2>4. last' \in [WatchIds -> Samples] BY <1>t, <2>1 DEF PassType
  <2> QED BY <1>t, <2>1, <2>3, <2>4, RestingHolds DEF ListHolds
<1>9. CASE add
  <2>1. /\ entries' = [entries EXCEPT ![next_id] = [freeze |-> FALSE, bits |-> 0]]
        /\ UNCHANGED <<last, pass, pending>>
    BY <1>9 DEF add
  <2>2. [freeze |-> FALSE, bits |-> 0] \in Entries BY DEF Entries, Bits
  <2> QED BY <1>p, <1>t, <2>1, <2>2
<1>10. CASE clear
  <2>1. /\ entries' = [i \in WatchIds |-> NoEntry] /\ last' = [i \in WatchIds |-> NoSample]
        /\ UNCHANGED <<pass, pending>>
    BY <1>10 DEF clear
  <2> QED BY <1>n, <1>p, <1>t, <2>1
<1>11. ASSUME NEW i \in WatchIds, remove(i) PROVE ListHolds'
  <2>1. /\ entries' = [entries EXCEPT ![i] = NoEntry] /\ last' = [last EXCEPT ![i] = NoSample]
        /\ UNCHANGED <<pass, pending>>
    BY <1>11 DEF remove
  <2> QED BY <1>p, <1>t, <2>1, WatchShapes
<1>12. ASSUME NEW i \in WatchIds, NEW on \in BOOLEAN, set_freeze(i, on) PROVE ListHolds'
  <2> DEFINE b == IF on /\ last[i].ok THEN last[i].bits ELSE entries[i].bits
  <2>1. /\ i \in Listed /\ entries' = [entries EXCEPT ![i] = [freeze |-> on, bits |-> b]]
        /\ UNCHANGED <<last, pass, pending>>
    BY <1>12, <1>t DEF set_freeze
  <2>2. b \in Bits
    <3>1. entries[i].bits \in Bits BY <1>l, <2>1 DEF Entries
    <3>2. last[i].ok => last[i].bits \in Bits BY <1>t, WatchShapes DEF Samples
    <3> QED BY <3>1, <3>2
  <2> HIDE DEF b
  <2>3. [freeze |-> on, bits |-> b] \in Entries BY <2>2 DEF Entries
  <2> QED BY <1>p, <1>t, <2>1, <2>3
<1>13. ASSUME NEW i \in WatchIds, NEW v \in Values, poke(i, v) PROVE ListHolds'
  <2>1. /\ i \in Listed /\ entries' = [entries EXCEPT ![i].bits = v]
        /\ pending' = [id |-> i, bits |-> v] /\ UNCHANGED <<last, pass>>
    BY <1>13 DEF poke
  <2>2. [entries[i] EXCEPT !.bits = v] \in Entries
    <3>1. entries[i] \in Entries BY <1>l, <2>1
    <3> QED BY <3>1 DEF Entries, Bits
  <2>3. entries' = [entries EXCEPT ![i] = [entries[i] EXCEPT !.bits = v]] BY <1>t, <2>1
  <2>4. entries' \in [WatchIds -> {NoEntry} \cup Entries] BY <1>t, <2>2, <2>3
  <2>5. pending' \in [id : 0 .. MaxWatchIds, bits : Bits] BY <2>1 DEF WatchIds, Bits
  <2> QED BY <1>p, <1>t, <2>1, <2>4, <2>5
<1>14. CASE poke_write
  <2>1. UNCHANGED <<entries, last, pass>> /\ pending' = NoPoke BY <1>14 DEF poke_write
  <2>2. pending' \in [id : 0 .. MaxWatchIds, bits : Bits] BY <2>1 DEF NoPoke, Bits
  <2> QED BY <1>p, <1>t, <2>1, <2>2
<1>15. CASE \/ target_detach \/ (\E p \in Pids \cup Others : ensure_context(p))
            \/ (\E b \in Backends : set_backend_preference(b)) \/ UNCHANGED watchVars
            \/ \E p \in Pids : \/ target_attach(p) \/ ProcessExits(p)
                               \/ \E v \in Values : ProcessWrites(p, v)
  <2>1. UNCHANGED <<entries, last, pass, pending>>
    BY <1>15 DEF target_detach, ensure_context, set_backend_preference, target_attach, ProcessExits,
                 ProcessWrites, watchVars
  <2> QED BY <1>p, <1>t, <2>1
<1> QED BY <1>1, <1>2, <1>3, <1>4, <1>5, <1>6, <1>7, <1>8, <1>9, <1>10, <1>11, <1>12, <1>13, <1>14,
           <1>15 DEF WatchNext, MainLoop

\* Every step keeps the target and the list well typed.
LEMMA WatchTypeStep == WatchTypeOK /\ ListHolds /\ [WatchNext]_watchVars => WatchTypeOK'
<1> SUFFICES ASSUME WatchTypeOK, ListHolds, [WatchNext]_watchVars PROVE WatchTypeOK'
  OBVIOUS
<1> USE WatchConstants
<1>e. ListHolds' BY ListStep
<1>l. /\ entries' \in [WatchIds -> [freeze : BOOLEAN, bits : Values \cup {0, -1}]]
      /\ last' \in [WatchIds -> [ok : BOOLEAN, bits : Values \cup {0, -1}]]
  BY <1>e, WatchShapes DEF ListHolds
<1>t. /\ running \subseteq Pids /\ mem \in [Pids -> Bits] /\ backend \in Backends
      /\ route \in [Backends -> Pids \cup Others \cup {NoPid}]
      /\ session \in 0 .. objects /\ objects \in 0 .. MaxSessionObjects
      /\ opened \in [0 .. MaxSessionObjects -> Pids \cup {NoPid}]
      /\ owner \in [0 .. MaxSessionObjects -> Backends]
      /\ next_id \in 1 .. MaxWatchIds + 1
  BY DEF WatchTypeOK, Bits
<1>a. ASSUME /\ running' \subseteq Pids /\ mem' \in [Pids -> Bits] /\ backend' \in Backends
             /\ route' \in [Backends -> Pids \cup Others \cup {NoPid}]
             /\ session' \in 0 .. objects' /\ objects' \in 0 .. MaxSessionObjects
             /\ opened' \in [0 .. MaxSessionObjects -> Pids \cup {NoPid}]
             /\ owner' \in [0 .. MaxSessionObjects -> Backends]
             /\ next_id' \in 1 .. MaxWatchIds + 1
      PROVE  WatchTypeOK'
  BY <1>a, <1>l DEF WatchTypeOK, Bits
<1>c. Closed \in [Backends -> Pids \cup Others \cup {NoPid}]
  BY <1>t DEF Closed
<1>s. 0 \in 0 .. objects /\ session \in 0 .. MaxSessionObjects BY <1>t
<1>1. ASSUME NEW p \in Pids, target_attach(p) PROVE WatchTypeOK'
  <2>0. UNCHANGED <<running, mem, backend, next_id>> BY <1>1 DEF target_attach
  <2>1. CASE p \in running
    <3>1. /\ objects < MaxSessionObjects /\ session' = objects + 1 /\ objects' = objects + 1
          /\ opened' = [opened EXCEPT ![session] = NoPid, ![objects + 1] = p]
          /\ owner' = [owner EXCEPT ![objects + 1] = backend]
          /\ route' = [Closed EXCEPT ![backend] = p]
      BY <1>1, <2>1 DEF target_attach
    <3>2. session' \in 0 .. objects' /\ objects' \in 0 .. MaxSessionObjects BY <1>t, <3>1
    <3>3. /\ opened' \in [0 .. MaxSessionObjects -> Pids \cup {NoPid}]
          /\ owner' \in [0 .. MaxSessionObjects -> Backends]
          /\ route' \in [Backends -> Pids \cup Others \cup {NoPid}]
      BY <1>c, <1>t, <3>1
    <3> QED BY <1>a, <1>t, <2>0, <3>2, <3>3
  <2>2. CASE p \notin running
    <3>1. /\ session' = 0 /\ objects' = objects /\ owner' = owner
          /\ opened' = [opened EXCEPT ![session] = NoPid]
          /\ route' = [Closed EXCEPT !["kernel"] = IF backend = "kernel" THEN NoPid ELSE @]
      BY <1>1, <2>2 DEF target_attach
    <3>2. /\ opened' \in [0 .. MaxSessionObjects -> Pids \cup {NoPid}]
          /\ route' \in [Backends -> Pids \cup Others \cup {NoPid}]
      BY <1>c, <1>t, <3>1 DEF Backends
    <3> QED BY <1>a, <1>s, <1>t, <2>0, <3>1, <3>2
  <2> QED BY <2>1, <2>2
<1>2. ASSUME target_close, UNCHANGED <<running, mem, backend, owner, objects, next_id>> PROVE WatchTypeOK'
  <2>1. /\ opened' = [opened EXCEPT ![session] = NoPid] /\ route' = Closed /\ session' = 0
    BY <1>2 DEF target_close
  <2>2. opened' \in [0 .. MaxSessionObjects -> Pids \cup {NoPid}] BY <1>t, <2>1
  <2> QED BY <1>2, <1>a, <1>c, <1>s, <1>t, <2>1, <2>2
<1>3. ASSUME UNCHANGED <<running, mem, backend, route, session, opened, owner, objects, next_id>>
      PROVE  WatchTypeOK'
  BY <1>3, <1>a, <1>t
<1>4. CASE target_detach BY <1>2, <1>4 DEF target_detach
<1>5. CASE target_dropped
  <2>1. CASE HasEnded BY <1>2, <1>5, <2>1 DEF target_dropped
  <2>2. CASE ~HasEnded BY <1>3, <1>5, <2>2 DEF target_dropped
  <2> QED BY <2>1, <2>2
<1>6. ASSUME NEW p \in Pids \cup Others, ensure_context(p) PROVE WatchTypeOK'
  <2>1. /\ UNCHANGED <<running, mem, backend, session, opened, owner, objects, next_id>>
        /\ route' = [route EXCEPT !["kernel"] = IF p \in running \cup Others THEN p ELSE NoPid]
    BY <1>6 DEF ensure_context
  <2>2. route' \in [Backends -> Pids \cup Others \cup {NoPid}] BY <1>t, <2>1
  <2> QED BY <1>a, <1>t, <2>1, <2>2
<1>7. ASSUME NEW b \in Backends, set_backend_preference(b) PROVE WatchTypeOK'
  <2>1. /\ UNCHANGED <<running, mem, session, opened, owner, objects, next_id>> /\ backend' = b
        /\ route' = IF b = "user" THEN [route EXCEPT !["kernel"] = NoPid] ELSE route
    BY <1>7 DEF set_backend_preference
  <2>2. route' \in [Backends -> Pids \cup Others \cup {NoPid}] BY <1>t, <2>1
  <2> QED BY <1>a, <1>t, <2>1, <2>2
<1>8. ASSUME mem' \in [Pids -> Bits],
             UNCHANGED <<running, backend, route, session, opened, owner, objects, next_id>>
      PROVE  WatchTypeOK'
  BY <1>8, <1>a, <1>t
<1>9. CASE poke_write
  <2>1. mem' = [p \in Pids |-> IF MayIO(session) /\ p \in Reached(backend) THEN pending.bits ELSE mem[p]]
    BY <1>9 DEF poke_write
  <2>2. pending.bits \in Bits BY DEF ListHolds
  <2>3. mem' \in [Pids -> Bits] BY <1>t, <2>1, <2>2
  <2> QED BY <1>8, <1>9, <2>3 DEF poke_write
<1>10. CASE tick_write
  <2>1. mem' = [p \in Pids |-> IF p \in Reached(pass.via) THEN pass.snap[Sampling].bits ELSE mem[p]]
    BY <1>10 DEF tick_write, Held
  <2>2. pass \in PassType /\ pass.todo # {} BY <1>10 DEF tick_write, At, ListHolds
  <2>3. Sampling \in pass.todo BY <2>2, SamplingChosen
  <2>4. pass.snap[Sampling].bits \in Bits BY <2>3 DEF ListHolds, Entries
  <2>5. mem' \in [Pids -> Bits] BY <1>t, <2>1, <2>4
  <2> QED BY <1>8, <1>10, <2>5 DEF tick_write
<1>11. ASSUME NEW p \in Pids, NEW v \in Values, ProcessWrites(p, v) PROVE WatchTypeOK'
  <2>1. mem' = [mem EXCEPT ![p] = v] BY <1>11 DEF ProcessWrites
  <2>2. mem' \in [Pids -> Bits] BY <1>t, <2>1 DEF Bits
  <2> QED BY <1>8, <1>11, <2>2 DEF ProcessWrites
<1>12. ASSUME NEW p \in Pids, ProcessExits(p) PROVE WatchTypeOK'
  <2>1. running' \subseteq Pids /\ UNCHANGED <<mem, backend, route, session, opened, owner, objects, next_id>>
    BY <1>12, <1>t DEF ProcessExits
  <2> QED BY <1>a, <1>t, <2>1
<1>13. CASE add
  <2>1. /\ next_id' = next_id + 1 /\ next_id \in WatchIds
        /\ UNCHANGED <<running, mem, backend, route, session, opened, owner, objects>>
    BY <1>13 DEF add
  <2>2. next_id' \in 1 .. MaxWatchIds + 1 BY <2>1 DEF WatchIds
  <2> QED BY <1>a, <1>t, <2>1, <2>2
<1>14. CASE \/ target_tick \/ target_unlisted \/ tick_snapshot \/ tick_early \/ tick_session \/ tick_read
            \/ tick_apply \/ clear \/ UNCHANGED watchVars
            \/ \E i \in WatchIds : \/ remove(i) \/ (\E on \in BOOLEAN : set_freeze(i, on))
                                   \/ \E v \in Values : poke(i, v)
  <2>1. UNCHANGED <<running, mem, backend, route, session, opened, owner, objects, next_id>>
    BY <1>14 DEF target_tick, target_unlisted, tick_snapshot, tick_early, tick_session, tick_read,
                 tick_apply, clear, remove, set_freeze, poke, watchVars
  <2> QED BY <1>3, <2>1
<1> QED BY <1>1, <1>4, <1>5, <1>6, <1>7, <1>9, <1>10, <1>11, <1>12, <1>13, <1>14
        DEF WatchNext, MainLoop

LEMMA WatchStep == WatchInv /\ [WatchNext]_watchVars => WatchInv'
BY WatchTypeStep, ListStep, HandleStep DEF WatchInv

\* Whatever order attaching, detaching, switching backends, driver actions, the end
\* of the target and the main loop come in, a process handle stays with the backend
\* that opened it and is held exactly while its session is attached.
\* (target_service.cpp:27-78, session.cpp:46-57, backend_registry.cpp:16-36)
THEOREM HandleStaysOwned == WatchSpec => []HandleIsOwned
<1>1. WatchInv => HandleIsOwned BY DEF WatchInv
<1> QED BY <1>1, WatchInitInv, WatchStep, PTL DEF WatchSpec

-----------------------------------------------------------------------------
(* The journal of image patches *)

Undo(f, p) == [f EXCEPT ![p.off] = p.before]

\* The function that Undone's definition introduces, up to n records.
UndoOf(now, j, f, n) ==
  f = [k \in 0 .. n |-> IF k = 0 THEN now ELSE Undo(f[k - 1], j[Len(j) + 1 - k])]

\* It exists: by induction on the number of records undone.
LEMMA UndoExists ==
  ASSUME NEW now, NEW j
  PROVE  \A n \in Nat : \E f : UndoOf(now, j, f, n)
<1> DEFINE S == {n \in Nat : \E f : UndoOf(now, j, f, n)}
           Step(f, k) == IF k = 0 THEN now ELSE Undo(f[k - 1], j[Len(j) + 1 - k])
<1>1. 0 \in S
  <2> DEFINE g == [k \in 0 .. 0 |-> now]
  <2>1. g = [k \in 0 .. 0 |-> Step(g, k)] OBVIOUS
  <2> QED BY <2>1 DEF UndoOf
<1>2. ASSUME NEW n \in Nat, n \in S PROVE n + 1 \in S
  <2>1. PICK f : UndoOf(now, j, f, n) BY <1>2
  <2> DEFINE g == [k \in 0 .. (n + 1) |-> IF k = n + 1 THEN Step(f, k) ELSE f[k]]
  <2>0. f = [k \in 0 .. n |-> Step(f, k)] BY <2>1 DEF UndoOf
  <2> HIDE DEF Step
  <2>2. \A k \in 0 .. n : g[k] = f[k] OBVIOUS
  <2>3. g[n + 1] = Step(f, n + 1) OBVIOUS
  <2>4. DOMAIN g = 0 .. (n + 1) /\ g = [k \in 0 .. (n + 1) |-> g[k]] OBVIOUS
  <2> HIDE DEF g
  <2>5. \A k \in 0 .. (n + 1) : Step(f, k) = Step(g, k)
    <3> SUFFICES ASSUME NEW k \in 0 .. (n + 1) PROVE Step(f, k) = Step(g, k)
      OBVIOUS
    <3>1. CASE k = 0 BY <3>1 DEF Step
    <3>2. CASE k # 0
      <4>1. k - 1 \in 0 .. n BY <3>2
      <4> QED BY <2>2, <3>2, <4>1 DEF Step
    <3> QED BY <3>1, <3>2
  <2>6. \A k \in 0 .. n : f[k] = Step(f, k) BY <2>0
  <2>7. \A k \in 0 .. (n + 1) : g[k] = Step(g, k)
    <3> SUFFICES ASSUME NEW k \in 0 .. (n + 1) PROVE g[k] = Step(g, k)
      OBVIOUS
    <3>1. CASE k = n + 1 BY <2>3, <2>5, <3>1
    <3>2. CASE k # n + 1
      <4>1. k \in 0 .. n BY <3>2
      <4> QED BY <2>2, <2>5, <2>6, <4>1
    <3> QED BY <3>1, <3>2
  <2>8. UndoOf(now, j, g, n + 1) BY <2>4, <2>7, Zenon DEF UndoOf, Step
  <2> QED BY <2>8
<1> HIDE DEF S
<1>3. Nat \subseteq S BY <1>1, <1>2, SetInduction
<1> QED BY <1>3 DEF S

\* Undoing a journal record by record, newest first.
Undoing(now, j, f) ==
  /\ f[0] = now /\ f[Len(j)] = Undone(now, j)
  /\ \A k \in 1 .. Len(j) : f[k] = Undo(f[k - 1], j[Len(j) + 1 - k])

LEMMA UndoneSteps ==
  ASSUME NEW now, NEW A, NEW j \in Seq(A)
  PROVE  \E f : Undoing(now, j, f)
<1> DEFINE f == CHOOSE f : UndoOf(now, j, f, Len(j))
<1>1. UndoOf(now, j, f, Len(j)) BY UndoExists
<1>2. Undone(now, j) = f[Len(j)] BY DEF Undone, UndoOf, Undo
<1> HIDE DEF f
<1>3. Len(j) \in Nat /\ 0 \in 0 .. Len(j) OBVIOUS
<1>4. f = [k \in 0 .. Len(j) |-> IF k = 0 THEN now ELSE Undo(f[k - 1], j[Len(j) + 1 - k])]
  BY <1>1 DEF UndoOf
<1>5. f[0] = now BY <1>3, <1>4
<1>6. ASSUME NEW k \in 1 .. Len(j) PROVE f[k] = Undo(f[k - 1], j[Len(j) + 1 - k])
  <2>1. k \in 0 .. Len(j) /\ k # 0 BY <1>3
  <2> QED BY <1>4, <2>1
<1> QED BY <1>2, <1>5, <1>6 DEF Undoing

\* Undoing a journal in two parts: the newer part first.
LEMMA UndoneConcat ==
  ASSUME NEW now, NEW A, NEW j \in Seq(A), NEW r \in Seq(A)
  PROVE  Undone(now, j \o r) = Undone(Undone(now, r), j)
<1> DEFINE q == j \o r
           m == Len(j)
           n == Len(r)
<1>1. /\ q \in Seq(A) /\ Len(q) = m + n /\ m \in Nat /\ n \in Nat
      /\ \A i \in 1 .. m : q[i] = j[i]
      /\ \A i \in 1 .. n : q[m + i] = r[i]
  OBVIOUS
<1> HIDE DEF q
<1>2. PICK f : Undoing(now, q, f) BY <1>1, UndoneSteps
<1>3. PICK g : Undoing(now, r, g) BY UndoneSteps
<1>4. PICK h : Undoing(Undone(now, r), j, h) BY UndoneSteps
<1>u. /\ f[0] = now /\ f[Len(q)] = Undone(now, q)
      /\ \A k \in 1 .. Len(q) : f[k] = Undo(f[k - 1], q[Len(q) + 1 - k])
  BY <1>2 DEF Undoing
<1>v. /\ g[0] = now /\ g[n] = Undone(now, r)
      /\ \A k \in 1 .. n : g[k] = Undo(g[k - 1], r[n + 1 - k])
  BY <1>3 DEF Undoing
<1>w. /\ h[0] = Undone(now, r) /\ h[m] = Undone(Undone(now, r), j)
      /\ \A k \in 1 .. m : h[k] = Undo(h[k - 1], j[m + 1 - k])
  BY <1>4 DEF Undoing
<1> HIDE DEF m, n
<1>5. f[n] = g[n]
  <2> DEFINE S == {k \in Nat : k <= n => f[k] = g[k]}
  <2>1. 0 \in S BY <1>u, <1>v
  <2>2. ASSUME NEW k \in Nat, k \in S PROVE k + 1 \in S
    <3> SUFFICES ASSUME k + 1 <= n PROVE f[k + 1] = g[k + 1]
      OBVIOUS
    <3>1. /\ k + 1 \in 1 .. n /\ k + 1 \in 1 .. Len(q) /\ (k + 1) - 1 = k
          /\ n + 1 - (k + 1) \in 1 .. n
          /\ Len(q) + 1 - (k + 1) = m + (n + 1 - (k + 1))
      BY <1>1
    <3>2. q[Len(q) + 1 - (k + 1)] = r[n + 1 - (k + 1)] BY <1>1, <3>1
    <3>3. f[k] = g[k] BY <1>1, <2>2
    <3> QED BY <1>u, <1>v, <3>1, <3>2, <3>3
  <2> HIDE DEF S
  <2>3. Nat \subseteq S BY <2>1, <2>2, SetInduction
  <2> QED BY <1>1, <2>3 DEF S
<1>6. f[n + m] = h[m]
  <2> DEFINE S == {k \in Nat : k <= m => f[n + k] = h[k]}
  <2>1. 0 \in S BY <1>1, <1>v, <1>w, <1>5
  <2>2. ASSUME NEW k \in Nat, k \in S PROVE k + 1 \in S
    <3> SUFFICES ASSUME k + 1 <= m PROVE f[n + (k + 1)] = h[k + 1]
      OBVIOUS
    <3>1. /\ k + 1 \in 1 .. m /\ n + (k + 1) \in 1 .. Len(q) /\ (k + 1) - 1 = k
          /\ (n + (k + 1)) - 1 = n + k /\ m + 1 - (k + 1) \in 1 .. m
          /\ Len(q) + 1 - (n + (k + 1)) = m + 1 - (k + 1)
      BY <1>1
    <3>2. q[Len(q) + 1 - (n + (k + 1))] = j[m + 1 - (k + 1)] BY <1>1, <3>1
    <3>3. f[n + k] = h[k] BY <1>1, <2>2
    <3> QED BY <1>u, <1>w, <3>1, <3>2, <3>3
  <2> HIDE DEF S
  <2>3. Nat \subseteq S BY <2>1, <2>2, SetInduction
  <2> QED BY <1>1, <2>3 DEF S
<1>7. Len(q) = n + m BY <1>1
<1> QED BY <1>u, <1>w, <1>6, <1>7 DEF q

ImageBytes == [Offsets -> {0, 1}]
PatchRecords == [off : Offsets, before : {0, 1}]
Journal == Seq(PatchRecords)

\* The record of a single patch takes the patch back.
LEMMA UndoneOne ==
  ASSUME NEW f \in ImageBytes, NEW o \in Offsets, NEW v
  PROVE  Undone([f EXCEPT ![o] = v], <<[off |-> o, before |-> f[o]]>>) = f
<1> DEFINE now == [f EXCEPT ![o] = v]
           p == [off |-> o, before |-> f[o]]
           j == <<p>>
<1>1. j \in Seq({p}) /\ Len(j) = 1 /\ j[1] = p OBVIOUS
<1>2. p.off = o /\ p.before = f[o] OBVIOUS
<1>3. [now EXCEPT ![o] = f[o]] = f BY DEF ImageBytes
<1> HIDE DEF now, p, j
<1>4. PICK g : Undoing(now, j, g) BY <1>1, UndoneSteps
<1>5. g[0] = now /\ g[1] = Undone(now, j) /\ g[1] = Undo(g[1 - 1], j[1 + 1 - 1])
  BY <1>1, <1>4 DEF Undoing
<1>6. Undone(now, j) = Undo(now, p) BY <1>1, <1>5
<1> QED BY <1>2, <1>3, <1>6 DEF Undo, now, p, j

\* The records of a pass over the whole image take it back.
LEMMA UndoneSweep ==
  ASSUME NEW f \in ImageBytes, NEW now \in ImageBytes
  PROVE  Undone(now, [o \in Offsets |-> [off |-> o, before |-> f[o]]]) = f
<1> USE OpenImageConstants
<1> DEFINE R == [off : Offsets, before : {0, 1}]
           r == [o \in Offsets |-> [off |-> o, before |-> f[o]]]
<1>1. NBytes \in Nat /\ Offsets = 1 .. NBytes BY DEF Offsets
<1>2. \A o \in Offsets : [off |-> o, before |-> f[o]] \in R BY DEF ImageBytes
<1>3. r \in [1 .. NBytes -> R] BY <1>1, <1>2
<1>4. /\ r \in Seq(R) /\ Len(r) = NBytes
      /\ \A o \in Offsets : r[o].off = o /\ r[o].before = f[o]
  <2>1. \A o \in Offsets : r[o].off = o /\ r[o].before = f[o] OBVIOUS
  <2> HIDE DEF r, R
  <2>2. r \in Seq(R) /\ Len(r) = NBytes BY <1>1, <1>3
  <2> QED BY <2>1, <2>2
<1> HIDE DEF r, R
<1>5. PICK g : Undoing(now, r, g) BY <1>4, UndoneSteps
<1>6. /\ g[0] = now /\ g[NBytes] = Undone(now, r)
      /\ \A k \in 1 .. NBytes : g[k] = Undo(g[k - 1], r[NBytes + 1 - k])
  BY <1>4, <1>5 DEF Undoing
\* After k records the last k bytes are back.
<1> DEFINE Back(k) == [o \in Offsets |-> IF o > NBytes - k THEN f[o] ELSE now[o]]
           S == {k \in Nat : k <= NBytes => g[k] = Back(k)}
<1>7. 0 \in S
  <2>1. \A o \in Offsets : ~(o > NBytes - 0) BY <1>1
  <2>2. Back(0) = [o \in Offsets |-> now[o]] BY <2>1
  <2>3. Back(0) = now BY <2>2 DEF ImageBytes
  <2> HIDE DEF Back
  <2> QED BY <1>6, <2>3
<1>8. ASSUME NEW k \in Nat, k \in S PROVE k + 1 \in S
  <2> SUFFICES ASSUME k + 1 <= NBytes PROVE g[k + 1] = Back(k + 1)
    OBVIOUS
  <2> DEFINE n == NBytes - k
  <2>1. /\ k + 1 \in 1 .. NBytes /\ (k + 1) - 1 = k /\ n \in Offsets /\ k <= NBytes
        /\ NBytes + 1 - (k + 1) = n
    BY <1>1
  <2>2. g[k] = Back(k) BY <1>8, <2>1
  <2>3. g[k + 1] = [Back(k) EXCEPT ![n] = f[n]]
    <3> HIDE DEF Back, n
    <3>1. g[k + 1] = Undo(g[(k + 1) - 1], r[NBytes + 1 - (k + 1)]) BY <1>6, <2>1
    <3>2. g[k + 1] = Undo(Back(k), r[n]) BY <2>1, <2>2, <3>1
    <3> QED BY <1>4, <2>1, <3>2 DEF Undo
  <2>4. \A o \in Offsets : (o > NBytes - (k + 1)) <=> (o > NBytes - k \/ o = n)
    BY <1>1
  <2>5. [Back(k) EXCEPT ![n] = f[n]] = Back(k + 1) BY <2>1, <2>4
  <2> QED BY <2>3, <2>5
<1>9. Nat \subseteq S
  <2> HIDE DEF S
  <2> QED BY <1>7, <1>8, SetInduction
<1>10. g[NBytes] = Back(NBytes) BY <1>1, <1>9
<1>11. \A o \in Offsets : o > NBytes - NBytes BY <1>1
<1>12. Back(NBytes) = f BY <1>11 DEF ImageBytes
<1> QED BY <1>6, <1>10, <1>12 DEF r

LEMMA UndoneNothing == ASSUME NEW now PROVE Undone(now, <<>>) = now
<1>1. <<>> \in Seq({}) /\ Len(<<>>) = 0 OBVIOUS
<1>2. PICK f : Undoing(now, <<>>, f) BY <1>1, UndoneSteps
<1> QED BY <1>1, <1>2 DEF Undoing

\* The journal leads back to the loaded bytes, also between the steps of a load.
JournalInv ==
  /\ file \in ImageBytes /\ patches \in Journal
  /\ call.op = "poke" => call.off \in Offsets /\ call.byte \in {0, 1}
  /\ Undone(file, patches) = Original

LEMMA JournalInit == ImageInit => JournalInv
<1> SUFFICES ASSUME ImageInit PROVE JournalInv
  OBVIOUS
<1>1. file = Original /\ patches = <<>> /\ call.op = "none" BY DEF ImageInit, NoCall
<1>2. Original \in ImageBytes BY DEF Original, ImageBytes
<1>3. <<>> \in Journal BY DEF Journal
<1> QED BY <1>1, <1>2, <1>3, UndoneNothing DEF JournalInv

\* Every step keeps the journal complete.
LEMMA JournalStep == JournalInv /\ [ImageNext]_imageVars => JournalInv'
<1> SUFFICES ASSUME JournalInv, [ImageNext]_imageVars PROVE JournalInv'
  OBVIOUS
<1> USE OpenImageConstants
<1>o. Original \in ImageBytes /\ <<>> \in Journal BY DEF Original, ImageBytes, Journal
<1>r. \A o \in Offsets : file[o] \in {0, 1} /\ Record(o) \in PatchRecords
  BY DEF JournalInv, ImageBytes, Record, PatchRecords
\* A step that empties the journal over the loaded bytes.
<1>e. ASSUME file' = Original, patches' = <<>>, call'.op # "poke" PROVE JournalInv'
  BY <1>e, <1>o, UndoneNothing DEF JournalInv
\* A step that leaves the bytes and the journal alone.
<1>u. ASSUME file' = file, patches' = patches, call'.op # "poke" \/ call' = call PROVE JournalInv'
  BY <1>u DEF JournalInv
<1>1. CASE unload_locked \/ EngineDies
  <2>1. file' = Original /\ patches' = <<>> /\ call'.op = "none"
    BY <1>1 DEF unload_locked, EngineDies, Unloaded, NoCall
  <2> QED BY <1>e, <2>1
<1>2. CASE LoadStart
  <2>1. file' = Original /\ patches' = <<>> BY <1>2 DEF LoadStart, Unloaded
  <2>2. CASE call' = NoCall
    <3>1. call'.op = "none" BY <2>2 DEF NoCall
    <3> QED BY <1>e, <2>1, <3>1
  <2>3. CASE call' = [call EXCEPT !.op = "index"]
    <3>1. call'.op # "poke"
      <4>1. call.op = "load" BY <1>2 DEF LoadStart, Waiting
      <4> QED BY <2>3, <4>1
    <3> QED BY <1>e, <2>1, <3>1
  <2> QED BY <1>2, <2>2, <2>3 DEF LoadStart
<1>3. ASSUME NEW o \in Offsets, patch(o, 1) PROVE JournalInv'
  <2>1. /\ file' = file /\ patches' = patches /\ call'.off = o /\ call'.byte = 1
    BY <1>3 DEF patch, Binary
  <2> QED BY <2>1 DEF JournalInv
<1>4. CASE patch_write
  <2> DEFINE o == call.off
  <2>1. /\ call.op = "poke" /\ call' = NoCall /\ patches' = Append(patches, Record(o))
        /\ file' = [file EXCEPT ![o] = call.byte]
    BY <1>4 DEF patch_write, Waiting
  <2>2. o \in Offsets /\ call.byte \in {0, 1} BY <2>1 DEF JournalInv
  <2>3. file' \in ImageBytes BY <2>1, <2>2 DEF JournalInv, ImageBytes
  <2>4. patches \in Journal /\ Record(o) \in PatchRecords
    BY <1>r, <2>2 DEF JournalInv
  <2>5. patches' \in Journal /\ patches' = patches \o <<Record(o)>>
    BY <2>1, <2>4 DEF Journal
  <2>6. <<Record(o)>> \in Journal BY <2>4 DEF Journal
  <2>7. Undone(file', patches') = Undone(Undone(file', <<Record(o)>>), patches)
    <3> HIDE DEF o
    <3> QED BY <2>4, <2>5, <2>6, UndoneConcat DEF Journal
  <2>8. Undone(file', <<Record(o)>>) = file
    BY <2>1, <2>2, UndoneOne DEF Record, JournalInv
  <2>9. call'.op # "poke" BY <2>1 DEF NoCall
  <2> QED BY <2>3, <2>5, <2>7, <2>8, <2>9 DEF JournalInv
<1>5. CASE unpack_xor
  <2> DEFINE r == [o \in Offsets |-> Record(o)]
  <2>1. call' = call /\ call.op = "none" /\ patches' = patches \o r
        /\ file' = [o \in Offsets |-> 1 - file[o]]
    BY <1>5 DEF unpack_xor, Rest, NoCall
  <2>2. file' \in ImageBytes
    <3>1. \A o \in Offsets : 1 - file[o] \in {0, 1} BY <1>r
    <3> QED BY <2>1, <3>1 DEF ImageBytes
  <2>3. r \in [1 .. NBytes -> PatchRecords] /\ NBytes \in Nat
    BY <1>r DEF Offsets
  <2>4. r = [o \in Offsets |-> [off |-> o, before |-> file[o]]] BY DEF Record
  <2> HIDE DEF r
  <2>5. r \in Journal /\ patches \in Journal
    <3>1. r \in Seq(PatchRecords) BY <2>3
    <3> QED BY <3>1 DEF Journal, JournalInv
  <2>6. patches' \in Journal BY <2>1, <2>5 DEF Journal
  <2>7. Undone(file', patches') = Undone(Undone(file', r), patches)
    BY <2>1, <2>5, UndoneConcat DEF Journal
  <2>8. Undone(file', r) = file BY <2>2, <2>4, UndoneSweep DEF JournalInv
  <2> QED BY <2>1, <2>2, <2>6, <2>7, <2>8 DEF JournalInv
<1>6. CASE revert_write
  <2>1. file' = Undone(file, patches) /\ patches' = <<>> /\ call' = NoCall
    BY <1>6 DEF revert_write
  <2>2. file' = Original /\ call'.op # "poke" BY <2>1 DEF JournalInv, NoCall
  <2> QED BY <1>e, <2>1, <2>2
<1>7. CASE AnalysisThread \/ UNCHANGED imageVars \/ rebuild
  <2>1. file' = file /\ patches' = patches /\ call' = call
    BY <1>7 DEF AnalysisThread, AnalysisEnds, ReportReady, imageVars, Binary, rebuild
  <2> QED BY <1>u, <2>1
<1>8. CASE \/ LoadIndexFails \/ LoadEnd \/ save_meta \/ reanalyze \/ stop_joined \/ unload
           \/ revert_all \/ rebuild_indexes_locked \/ analyze_stop
  <2>1. file' = file /\ patches' = patches
    BY <1>8 DEF LoadIndexFails, LoadEnd, save_meta, reanalyze, stop_joined, unload, revert_all,
                rebuild_indexes_locked, analyze_stop, Binary
  <2>2. call'.op # "poke"
    BY <1>8 DEF LoadIndexFails, LoadEnd, save_meta, reanalyze, stop_joined, unload, revert_all,
                rebuild_indexes_locked, analyze_stop, NoCall
  <2> QED BY <1>u, <2>1, <2>2
<1>9. ASSUME NEW i \in ImageFiles, NEW b \in LoadBases, load_file(i, b) PROVE JournalInv'
  <2>1. file' = file /\ patches' = patches /\ call'.op = "load" BY <1>9 DEF load_file, Binary
  <2> QED BY <1>u, <2>1
<1>10. ASSUME NEW kind \in AnnotationKinds, NEW p \in Rvas, annotate(kind, p) PROVE JournalInv'
  <2>1. file' = file /\ patches' = patches /\ (call'.op = "save" \/ call' = call)
    BY <1>10 DEF annotate
  <2> QED BY <1>u, <2>1
<1> QED BY <1>1, <1>2, <1>3, <1>4, <1>5, <1>6, <1>7, <1>8, <1>9, <1>10 DEF ImageNext, CallEnds

\* revert_all can be relied on, for images of any size and journals of any length:
\* whatever patches, unpacking, reverts, rebuilds and loads came before, the
\* journal leads back to the bytes that were loaded.  (imgpatch.cpp:37-53, 538-541)
THEOREM JournalAlwaysRestores == ImageSpec => []JournalRestores
<1>1. JournalInv => JournalRestores BY DEF JournalInv, JournalRestores
<1> QED BY <1>1, JournalInit, JournalStep, PTL DEF ImageSpec

-----------------------------------------------------------------------------
(* Annotations and their store *)

LoadCall == [op : {"load", "index"}, image : ImageFiles, base : LoadBases]
Stores == [base : LoadBases \cup {0}, notes : SUBSET Notes, torn : BOOLEAN]

\* What is open and what is stored are annotations, under a base of theirs.
PlacesOK ==
  /\ image \in ImageFiles \cup {NoImage} /\ base \in LoadBases \cup {0}
  /\ image # NoImage => base \in LoadBases
  /\ call.op \in {"load", "index"} => call \in LoadCall
  /\ call.op = "index" => base = call.base
  /\ call.op = "save" => image \in ImageFiles
  /\ notes \subseteq Notes
  /\ store \in [ImageFiles -> Stores]

\* A store is cut short only while it is written or after a save that failed,
\* and a save writes what the client was promised.
StoreInv ==
  /\ promised \in [ImageFiles -> SUBSET Notes]
  /\ call.op = "save" => promised[image] = PlacesIn(notes, base)
  /\ \A i \in ImageFiles : store[i].torn => i \in unsaved \/ (call.op = "save" /\ image = i)
  /\ AnnotationsSurvive

LEMMA PlacesAreNotes ==
  ASSUME NEW ns \in SUBSET Notes, NEW b \in LoadBases \cup {0}
  PROVE  PlacesIn(ns, b) \in SUBSET Notes
<1>1. b \in Int BY OpenImageConstants
<1>2. \A n \in ns : n[1] \in AnnotationKinds /\ n[2] \in Int BY DEF Notes
<1> QED BY <1>1, <1>2 DEF PlacesIn, Notes

Moved(ns, d) == {<<n[1], n[2] + d>> : n \in ns}

\* Moving a store by the distance of two bases moves no annotation in the image.
LEMMA MovedFacts ==
  ASSUME NEW ns \in SUBSET Notes, NEW b \in Int, NEW c \in Int, NEW d \in Int
  PROVE  /\ Moved(ns, d) \in SUBSET Notes
         /\ d = b - c => PlacesIn(Moved(ns, d), b) = PlacesIn(ns, c)
<1> DEFINE moved == {<<n[1], n[2] + d>> : n \in ns}
<1>1. \A n \in ns : n[1] \in AnnotationKinds /\ n[2] \in Int BY DEF Notes
<1>2. moved \in SUBSET Notes BY <1>1 DEF Notes
<1>3. ASSUME d = b - c PROVE PlacesIn(moved, b) \subseteq PlacesIn(ns, c)
  <2> SUFFICES ASSUME NEW m \in moved PROVE <<m[1], m[2] - b>> \in PlacesIn(ns, c)
    BY DEF PlacesIn
  <2>1. PICK n \in ns : m = <<n[1], n[2] + d>> OBVIOUS
  <2>2. m[1] = n[1] /\ m[2] = n[2] + d BY <2>1
  <2>3. m[2] - b = n[2] - c BY <1>1, <1>3, <2>2
  <2>4. <<n[1], n[2] - c>> \in PlacesIn(ns, c) BY DEF PlacesIn
  <2> QED BY <2>2, <2>3, <2>4
<1>4. ASSUME d = b - c PROVE PlacesIn(ns, c) \subseteq PlacesIn(moved, b)
  <2> SUFFICES ASSUME NEW n \in ns PROVE <<n[1], n[2] - c>> \in PlacesIn(moved, b)
    BY DEF PlacesIn
  <2> DEFINE m == <<n[1], n[2] + d>>
  <2>1. m \in moved /\ m[1] = n[1] /\ m[2] = n[2] + d OBVIOUS
  <2> HIDE DEF m, moved
  <2>2. m[2] - b = n[2] - c BY <1>1, <1>4, <2>1
  <2>3. <<m[1], m[2] - b>> \in PlacesIn(moved, b) BY <2>1 DEF PlacesIn
  <2> QED BY <2>1, <2>2, <2>3
<1> QED BY <1>2, <1>3, <1>4 DEF Moved

\* What load_meta finds, and that it is all of a store that is whole, unless the
\* load goes past it.
LEMMA LoadMetaFacts ==
  ASSUME PlacesOK, NEW i \in ImageFiles, NEW b \in LoadBases
  PROVE  /\ load_meta(i, b) \in SUBSET Notes
         /\ ~store[i].torn /\ (store[i].notes = {} \/ ~PastStore(i, b, TRUE))
              => PlacesIn(load_meta(i, b), b) = PlacesIn(store[i].notes, store[i].base)
<1> DEFINE c == store[i].base
           delta == IF c = 0 THEN 0 ELSE b - c
           ns == store[i].notes \ {<<"text", 0>>}
<1>1. store[i].notes \in SUBSET Notes /\ c \in LoadBases \cup {0} BY DEF PlacesOK, Stores
<1>2. b \in Int /\ c \in Int
  <2>1. LoadBases \subseteq Int BY OpenImageConstants
  <2> HIDE DEF c
  <2> QED BY <1>1, <2>1
<1>3. delta \in Int /\ ns \in SUBSET Notes BY <1>1, <1>2
<1>4. CASE store[i].torn
  <2>1. load_meta(i, b) = {} BY <1>4 DEF load_meta
  <2> QED BY <1>4, <2>1
<1>5. CASE ~store[i].torn
  <2>1. load_meta(i, b) = Moved(ns, delta) BY <1>5 DEF load_meta, Moved
  <2>2. CASE store[i].notes = {}
    <3>1. load_meta(i, b) = {} BY <2>1, <2>2 DEF Moved
    <3> QED BY <2>2, <3>1 DEF PlacesIn
  <2>3. CASE ~PastStore(i, b, TRUE)
    <3>1. ns = store[i].notes /\ delta = b - c BY <1>2, <2>3 DEF PastStore
    <3> HIDE DEF ns, delta, c
    <3>0. b - c = delta BY <3>1
    <3>2. PlacesIn(Moved(ns, delta), b) = PlacesIn(ns, c) BY <1>2, <1>3, <3>0, MovedFacts
    <3> QED BY <1>2, <1>3, <2>1, <3>1, <3>2, MovedFacts DEF c
  <2> HIDE DEF ns, delta
  <2>4. load_meta(i, b) \in SUBSET Notes BY <1>2, <1>3, <2>1, MovedFacts
  <2> QED BY <2>2, <2>3, <2>4
<1> QED BY <1>4, <1>5

LEMMA AnnotationsInit == ImageInit => PlacesOK /\ StoreInv
<1> SUFFICES ASSUME ImageInit PROVE PlacesOK /\ StoreInv
  OBVIOUS
<1> USE OpenImageConstants
<1>1. /\ image = NoImage /\ base = 0 /\ notes = {} /\ call.op = "none"
      /\ \A i \in ImageFiles : store[i] = EmptyStore /\ promised[i] = {}
      /\ promised \in [ImageFiles -> SUBSET Notes]
  BY DEF ImageInit, NoCall
<1>2. EmptyStore \in Stores /\ EmptyStore.notes = {} /\ EmptyStore.torn = FALSE
  BY DEF EmptyStore, Stores
<1>3. store \in [ImageFiles -> Stores] BY <1>2 DEF ImageInit
<1>4. PlacesOK BY <1>1, <1>2, <1>3 DEF PlacesOK
<1>5. AnnotationsSurvive
  <2>1. PlacesIn({}, EmptyStore.base) = {} BY DEF PlacesIn
  <2> QED BY <1>1, <1>2, <2>1 DEF AnnotationsSurvive
<1>6. StoreInv BY <1>1, <1>2, <1>5 DEF StoreInv
<1> QED BY <1>4, <1>6

\* The calls that touch neither the image's place nor its annotations.
OtherCalls ==
  \/ LoadIndexFails \/ patch_write \/ revert_write \/ reanalyze \/ stop_joined
  \/ (\E o \in Offsets : patch(o, 1)) \/ unload \/ unpack_xor \/ revert_all \/ rebuild
  \/ rebuild_indexes_locked \/ analyze_stop

LEMMA OtherCallsFacts ==
  ASSUME OtherCalls
  PROVE  /\ UNCHANGED <<image, base, notes, misread, store, promised, unsaved>>
         /\ call.op # "save" /\ call'.op \notin {"load", "index", "save"}
<1>1. UNCHANGED <<image, base, notes, misread, store, promised, unsaved>>
  BY DEF OtherCalls, LoadIndexFails, patch_write, revert_write, reanalyze, stop_joined, patch,
         unload, unpack_xor, revert_all, rebuild, rebuild_indexes_locked, analyze_stop, Binary,
         ImageHistory
<1>2. call.op # "save"
  BY DEF OtherCalls, LoadIndexFails, patch_write, revert_write, reanalyze, stop_joined, patch,
         unload, unpack_xor, revert_all, rebuild, rebuild_indexes_locked, analyze_stop, Rest,
         Waiting, NoCall
<1>3. call'.op \notin {"load", "index", "save"}
  BY DEF OtherCalls, LoadIndexFails, patch_write, revert_write, reanalyze, stop_joined, patch,
         unload, unpack_xor, revert_all, rebuild, rebuild_indexes_locked, analyze_stop, Rest,
         NoCall
<1> QED BY <1>1, <1>2, <1>3

\* Every step keeps annotations what they are.
LEMMA PlacesStep == PlacesOK /\ [ImageNext]_imageVars => PlacesOK'
<1> SUFFICES ASSUME PlacesOK, [ImageNext]_imageVars PROVE PlacesOK'
  OBVIOUS
<1> USE OpenImageConstants
<1>1. CASE OtherCalls BY <1>1, OtherCallsFacts DEF PlacesOK
<1>2. CASE AnalysisThread \/ UNCHANGED imageVars
  <2>1. UNCHANGED <<image, base, notes, store, call>>
    BY <1>2 DEF AnalysisThread, AnalysisEnds, ReportReady, imageVars, Binary
  <2> QED BY <2>1 DEF PlacesOK
<1>3. CASE unload_locked \/ EngineDies \/ (LoadStart /\ Unloaded /\ call' = NoCall)
  <2>1. image' = NoImage /\ base' = 0 /\ notes' = {} /\ store' = store /\ call'.op = "none"
    BY <1>3 DEF unload_locked, EngineDies, LoadStart, Unloaded, NoCall
  <2> QED BY <2>1 DEF PlacesOK
<1>4. ASSUME LoadStart, ~(Unloaded /\ call' = NoCall) PROVE PlacesOK'
  <2>1. /\ call.op = "load" /\ image' = NoImage /\ base' = call.base /\ notes' = {} /\ store' = store
        /\ call' = [call EXCEPT !.op = "index"]
    BY <1>4 DEF LoadStart, Waiting
  <2>2. call \in LoadCall BY <2>1 DEF PlacesOK
  <2>3. call' \in LoadCall /\ call'.op = "index" /\ call'.base = call.base /\ call.base \in LoadBases
    BY <2>1, <2>2 DEF LoadCall
  <2> QED BY <2>1, <2>3 DEF PlacesOK
<1>5. ASSUME NEW i \in ImageFiles, NEW b \in LoadBases, load_file(i, b) PROVE PlacesOK'
  <2>1. UNCHANGED <<image, base, notes, store>> /\ call' = [op |-> "load", image |-> i, base |-> b]
    BY <1>5 DEF load_file, Binary
  <2>2. call' \in LoadCall /\ call'.op = "load" BY <2>1 DEF LoadCall
  <2> QED BY <2>1, <2>2 DEF PlacesOK
<1>6. CASE LoadEnd
  <2>1. /\ call.op = "index" /\ image' = call.image
        /\ notes' = load_meta(call.image, call.base) \/ notes' = {}
        /\ base' = base /\ store' = store /\ call'.op = "none"
    BY <1>6 DEF LoadEnd, NoCall
  <2>2. call.image \in ImageFiles /\ call.base \in LoadBases /\ base = call.base
    BY <2>1 DEF PlacesOK, LoadCall
  <2>3. notes' \subseteq Notes BY <2>1, <2>2, LoadMetaFacts
  <2> QED BY <2>1, <2>2, <2>3 DEF PlacesOK
<1>7. ASSUME NEW kind \in AnnotationKinds, NEW r \in Rvas, annotate(kind, r) PROVE PlacesOK'
  <2>1. /\ image # NoImage /\ notes' = Toggled(<<kind, base + r>>)
        /\ store' = [store EXCEPT ![image].torn = TRUE] \/ store' = store
        /\ call'.op = "save" \/ call' = call
        /\ call.op = "none" /\ UNCHANGED <<image, base>>
    BY <1>7 DEF annotate, Ready, Rest, NoCall
  <2>2. image \in ImageFiles /\ base \in LoadBases BY <2>1 DEF PlacesOK
  <2>3. <<kind, base + r>> \in Notes BY <2>2 DEF Notes
  <2>4. notes' \subseteq Notes BY <2>1, <2>3 DEF Toggled, PlacesOK
  <2>5. store' \in [ImageFiles -> Stores] BY <2>1, <2>2 DEF PlacesOK, Stores
  <2> QED BY <2>1, <2>2, <2>4, <2>5 DEF PlacesOK
<1>8. CASE save_meta
  <2>1. /\ call.op = "save" /\ call'.op = "none" /\ UNCHANGED <<image, base, notes>>
        /\ store' = [store EXCEPT ![image] = Saved] \/ store' = store
    BY <1>8 DEF save_meta, Binary, NoCall
  <2>2. image \in ImageFiles /\ base \in LoadBases /\ notes \subseteq Notes
    BY <2>1 DEF PlacesOK
  <2>3. Saved \in Stores BY <2>2 DEF Saved, Stores
  <2>4. store' \in [ImageFiles -> Stores] BY <2>1, <2>3 DEF PlacesOK
  <2> QED BY <2>1, <2>4 DEF PlacesOK
<1> QED BY <1>1, <1>2, <1>3, <1>4, <1>5, <1>6, <1>7, <1>8 DEF ImageNext, CallEnds, OtherCalls

\* Every step keeps the store and the open image at what the client was promised.
LEMMA StoreStep == PlacesOK /\ StoreInv /\ [ImageNext]_imageVars => StoreInv'
<1> SUFFICES ASSUME PlacesOK, StoreInv, [ImageNext]_imageVars PROVE StoreInv'
  OBVIOUS
<1> USE OpenImageConstants
<1>u. ASSUME UNCHANGED <<image, base, notes, misread, store, promised, unsaved>>,
             call' = call \/ (call.op # "save" /\ call'.op # "save")
      PROVE  StoreInv'
  BY <1>u DEF StoreInv, AnnotationsSurvive
\* Closing the image forgets nothing that is in the store.
<1>c. ASSUME image' = NoImage, UNCHANGED <<store, promised, unsaved>>, call.op # "save", call'.op # "save"
      PROVE  StoreInv'
  BY <1>c DEF StoreInv, AnnotationsSurvive
<1>1. CASE OtherCalls BY <1>1, <1>u, OtherCallsFacts
<1>2. CASE AnalysisThread \/ UNCHANGED imageVars
  <2>1. UNCHANGED <<image, base, notes, misread, store, promised, unsaved>> /\ call' = call
    BY <1>2 DEF AnalysisThread, AnalysisEnds, ReportReady, imageVars, Binary, ImageHistory
  <2> QED BY <1>u, <2>1
<1>3. CASE unload_locked \/ LoadStart
  <2>1. image' = NoImage /\ UNCHANGED <<store, promised, unsaved>> /\ call.op # "save"
    BY <1>3 DEF unload_locked, LoadStart, Unloaded, Waiting, ImageHistory
  <2>2. call'.op # "save"
    <3>1. CASE call' = NoCall BY <3>1 DEF NoCall
    <3>2. CASE call' = [call EXCEPT !.op = "index"] /\ call.op = "load"
      <4>1. call \in LoadCall BY <3>2 DEF PlacesOK
      <4> QED BY <3>2, <4>1 DEF LoadCall
    <3> QED BY <1>3, <3>1, <3>2 DEF unload_locked, LoadStart, Waiting
  <2> QED BY <1>c, <2>1, <2>2
<1>4. CASE EngineDies
  <2>1. /\ image' = NoImage /\ UNCHANGED <<store, promised>> /\ call'.op = "none"
        /\ unsaved' = IF call.op = "save" THEN unsaved \cup {image} ELSE unsaved
    BY <1>4 DEF EngineDies, Unloaded, NoCall
  <2> QED BY <2>1 DEF StoreInv, AnnotationsSurvive
<1>5. ASSUME NEW i \in ImageFiles, NEW b \in LoadBases, load_file(i, b) PROVE StoreInv'
  <2>1. /\ UNCHANGED <<image, base, notes, misread, store, promised, unsaved>> /\ call.op = "none"
        /\ call'.op = "load"
    BY <1>5 DEF load_file, Binary, Rest, NoCall
  <2> QED BY <1>u, <2>1
<1>6. CASE LoadEnd
  <2> DEFINE i == call.image
  <2>1. /\ call.op = "index" /\ image' = i /\ base' = base /\ UNCHANGED <<store, promised, unsaved>>
        /\ call'.op = "none"
    BY <1>6 DEF LoadEnd, NoCall
  <2>2. PICK ok \in BOOLEAN :
          /\ notes' = IF ok THEN load_meta(i, call.base) ELSE {}
          /\ misread' = (store[i].notes # {} /\ PastStore(i, call.base, ok))
    BY <1>6 DEF LoadEnd
  <2>3. i \in ImageFiles /\ call.base \in LoadBases /\ base = call.base
    BY <2>1 DEF PlacesOK, LoadCall
  <2>4. i \notin unsaved => ~store[i].torn BY <2>1, <2>3 DEF StoreInv
  <2>5. ASSUME ~misread', ~store[i].torn
        PROVE  PlacesIn(notes', base') = PlacesIn(store[i].notes, store[i].base)
    <3>1. CASE ok BY <2>1, <2>2, <2>3, <2>5, <3>1, LoadMetaFacts
    <3>2. CASE ~ok
      <4>1. notes' = {} /\ store[i].notes = {} BY <2>2, <2>5, <3>2 DEF PastStore
      <4> QED BY <4>1 DEF PlacesIn
    <3> QED BY <3>1, <3>2
  <2>6. i \notin unsaved /\ ~misread' => promised[i] = PlacesIn(notes', base')
    BY <2>3, <2>4, <2>5 DEF StoreInv, AnnotationsSurvive
  <2> HIDE DEF i
  <2> QED BY <2>1, <2>6 DEF StoreInv, AnnotationsSurvive
<1>7. ASSUME NEW kind \in AnnotationKinds, NEW r \in Rvas, annotate(kind, r) PROVE StoreInv'
  <2>1. /\ image # NoImage /\ call.op = "none" /\ UNCHANGED <<image, base>>
        /\ promised' = [promised EXCEPT ![image] = PlacesIn(notes', base)]
        /\ \/ /\ store' = [store EXCEPT ![image].torn = TRUE]
              /\ call'.op = "save" /\ unsaved' = unsaved
           \/ unsaved' = unsaved \cup {image} /\ store' = store /\ call' = call
    BY <1>7 DEF annotate, Ready, Rest, NoCall
  <2>2. image \in ImageFiles /\ base \in LoadBases BY <2>1 DEF PlacesOK
  <2>3. PlacesIn(notes', base) \in SUBSET Notes
    <3>1. PlacesOK' BY PlacesStep
    <3>2. notes' \in SUBSET Notes BY <3>1 DEF PlacesOK
    <3> QED BY <2>2, <3>2, PlacesAreNotes
  <2>4. /\ promised' \in [ImageFiles -> SUBSET Notes] /\ promised'[image] = PlacesIn(notes', base)
        /\ \A i \in ImageFiles : i # image => promised'[i] = promised[i]
    BY <2>1, <2>2, <2>3 DEF StoreInv
  <2>5. \A i \in ImageFiles : i # image => store'[i] = store[i] /\ (i \in unsaved' <=> i \in unsaved)
    BY <2>1 DEF PlacesOK
  <2>6. image \in unsaved' \/ (store'[image].torn = TRUE /\ call'.op = "save")
    BY <2>1, <2>2 DEF PlacesOK, Stores
  <2>7. ASSUME NEW i \in ImageFiles, i # image
        PROVE  /\ store'[i].torn => i \in unsaved'
               /\ i \notin unsaved' /\ ~store'[i].torn
                    => promised'[i] = PlacesIn(store'[i].notes, store'[i].base)
    BY <2>1, <2>4, <2>5, <2>7 DEF StoreInv, AnnotationsSurvive
  <2>8. AnnotationsSurvive' BY <2>1, <2>4, <2>6, <2>7 DEF AnnotationsSurvive
  <2>9. \A i \in ImageFiles : store'[i].torn => i \in unsaved' \/ (call'.op = "save" /\ image' = i)
    BY <2>1, <2>6, <2>7
  <2> QED BY <2>1, <2>4, <2>8, <2>9 DEF StoreInv
<1>8. CASE save_meta
  <2>1. /\ call.op = "save" /\ call'.op = "none" /\ UNCHANGED <<image, base, notes, misread, promised>>
        /\ \/ store' = [store EXCEPT ![image] = Saved] /\ unsaved' = unsaved \ {image}
           \/ unsaved' = unsaved \cup {image} /\ store' = store
    BY <1>8 DEF save_meta, Binary, NoCall
  <2>2. image \in ImageFiles /\ promised[image] = PlacesIn(notes, base)
    BY <2>1 DEF PlacesOK, StoreInv
  <2>3. \A i \in ImageFiles : i # image => store'[i] = store[i] /\ (i \in unsaved' <=> i \in unsaved)
    BY <2>1 DEF PlacesOK
  <2>4. Saved.notes = notes /\ Saved.base = base /\ Saved.torn = FALSE BY DEF Saved
  <2>5. image \in unsaved' \/ store'[image] = Saved BY <2>1, <2>2 DEF PlacesOK
  <2>6. ASSUME NEW i \in ImageFiles, i # image
        PROVE  /\ store'[i].torn => i \in unsaved'
               /\ i \notin unsaved' /\ ~store'[i].torn
                    => promised'[i] = PlacesIn(store'[i].notes, store'[i].base)
    BY <2>1, <2>3, <2>6 DEF StoreInv, AnnotationsSurvive
  <2>7. AnnotationsSurvive' BY <2>1, <2>2, <2>4, <2>5, <2>6 DEF AnnotationsSurvive
  <2> QED BY <2>1, <2>4, <2>5, <2>6, <2>7 DEF StoreInv
<1> QED BY <1>1, <1>2, <1>3, <1>4, <1>5, <1>6, <1>7, <1>8 DEF ImageNext, CallEnds, OtherCalls

\* Annotations are kept at the place in the image they were made for, for any
\* number of images, load bases (0 among them), crashes and loads: on disk unless
\* the image's last save was refused, failed or cut short, and in the open image
\* unless its load went past the store.  (binary_state.cpp:67-155, 361-392)
THEOREM AnnotationsAlwaysSurvive == ImageSpec => []AnnotationsSurvive
<1>1. PlacesOK /\ StoreInv /\ [ImageNext]_imageVars => (PlacesOK /\ StoreInv)'
  BY PlacesStep, StoreStep
<1>2. PlacesOK /\ StoreInv => AnnotationsSurvive BY DEF StoreInv
<1> QED BY <1>1, <1>2, AnnotationsInit, PTL DEF ImageSpec

-----------------------------------------------------------------------------
(* The types of the open image *)

\* The analysis and the flags; a call that will restart the analysis has a session.
AnalysisOK ==
  /\ worker \in {"none", "analyzing", "landed", "over"}
  /\ dirty \in BOOLEAN /\ hype \in BOOLEAN /\ cancelled \in BOOLEAN
  /\ hype_ready \in BOOLEAN /\ hype_error \in BOOLEAN
  /\ worker # "none" => hype
  /\ call.op = "reanalyze" => hype
  /\ indexed \in ImageBytes

ImageInv == JournalInv /\ PlacesOK /\ AnalysisOK

LEMMA ImageInvTypes == ImageInv => ImageTypeOK
<1> SUFFICES ASSUME ImageInv PROVE ImageTypeOK
  OBVIOUS
<1>1. notes \subseteq Notes BY DEF ImageInv, PlacesOK
<1>2. {dirty, hype, cancelled, hype_ready, hype_error} \subseteq BOOLEAN
  BY Zenon DEF ImageInv, AnalysisOK
<1>3. /\ image \in ImageFiles \cup {NoImage} /\ base \in LoadBases \cup {0}
      /\ file \in [Offsets -> {0, 1}]
  BY DEF ImageInv, PlacesOK, JournalInv, ImageBytes
<1>4. /\ indexed \in [Offsets -> {0, 1}]
      /\ worker \in {"none", "analyzing", "landed", "over"} /\ (worker # "none" => hype)
  BY DEF ImageInv, AnalysisOK, ImageBytes
<1> QED BY <1>1, <1>2, <1>3, <1>4, Zenon DEF ImageTypeOK

LEMMA AnalysisInit == ImageInit => AnalysisOK
<1> SUFFICES ASSUME ImageInit PROVE AnalysisOK
  OBVIOUS
<1>1. Original \in ImageBytes BY DEF Original, ImageBytes
<1>2. call.op = "none" BY DEF ImageInit, NoCall
<1>3. worker = "none" /\ indexed = Original BY DEF ImageInit
<1>4. /\ dirty \in BOOLEAN /\ hype \in BOOLEAN /\ cancelled \in BOOLEAN
      /\ hype_ready \in BOOLEAN /\ hype_error \in BOOLEAN
  BY Zenon DEF ImageInit
<1> QED BY <1>1, <1>2, <1>3, <1>4 DEF AnalysisOK

\* Every step keeps the analysis and the flags well typed.
LEMMA AnalysisStep == ImageInv /\ [ImageNext]_imageVars => AnalysisOK'
<1> SUFFICES ASSUME ImageInv, [ImageNext]_imageVars PROVE AnalysisOK'
  OBVIOUS
<1> USE OpenImageConstants
<1>t. /\ worker \in {"none", "analyzing", "landed", "over"}
      /\ dirty \in BOOLEAN /\ hype \in BOOLEAN /\ cancelled \in BOOLEAN
      /\ hype_ready \in BOOLEAN /\ hype_error \in BOOLEAN
      /\ worker # "none" => hype
      /\ call.op = "reanalyze" => hype
      /\ indexed \in ImageBytes /\ file \in ImageBytes
  BY DEF ImageInv, AnalysisOK, JournalInv
<1>o. Original \in ImageBytes BY DEF Original, ImageBytes
<1>1. ASSUME Unloaded, call' = NoCall PROVE AnalysisOK'
  <2>1. /\ worker' = "none" /\ indexed' = Original /\ call'.op = "none"
    BY <1>1 DEF Unloaded, NoCall
  <2>2. /\ dirty' \in BOOLEAN /\ hype' \in BOOLEAN /\ cancelled' \in BOOLEAN
        /\ hype_ready' \in BOOLEAN /\ hype_error' \in BOOLEAN
    BY <1>1, Zenon DEF Unloaded
  <2> QED BY <1>o, <2>1, <2>2 DEF AnalysisOK
<1>2. CASE unload_locked \/ EngineDies BY <1>1, <1>2 DEF unload_locked, EngineDies
<1>3. CASE LoadStart
  <2>1. CASE Unloaded /\ call' = NoCall BY <1>1, <2>1
  <2>2. CASE ~(Unloaded /\ call' = NoCall)
    <3>1. /\ indexed' = Original /\ call' = [call EXCEPT !.op = "index"] /\ call.op = "load"
      BY <1>3, <2>2 DEF LoadStart, Waiting
    <3>2. \E parsed \in BOOLEAN : hype' = parsed /\ worker' = IF parsed THEN "analyzing" ELSE "none"
      BY <1>3, <2>2 DEF LoadStart
    <3>3. /\ worker' \in {"none", "analyzing", "landed", "over"} /\ hype' \in BOOLEAN
          /\ worker' # "none" => hype'
      BY <3>2
    <3>4. /\ dirty' \in BOOLEAN /\ cancelled' \in BOOLEAN
          /\ hype_ready' \in BOOLEAN /\ hype_error' \in BOOLEAN
      BY <1>3, <2>2, Zenon DEF LoadStart
    <3>5. call'.op # "reanalyze"
      <4>1. call \in LoadCall BY <3>1 DEF ImageInv, PlacesOK
      <4> QED BY <3>1, <4>1 DEF LoadCall
    <3> QED BY <1>o, <3>1, <3>3, <3>4, <3>5 DEF AnalysisOK
  <2> QED BY <2>1, <2>2
\* Calls that leave the analysis as it is, but may ask it to stop.
<1>4. ASSUME UNCHANGED <<worker, hype, hype_ready, hype_error, indexed>>,
             dirty' \in BOOLEAN, RequestCancel \/ cancelled' = cancelled, call'.op # "reanalyze"
      PROVE  AnalysisOK'
  <2>1. cancelled' \in BOOLEAN BY <1>4, <1>t, Zenon DEF RequestCancel
  <2> QED BY <1>4, <1>t, <2>1 DEF AnalysisOK
<1>5. CASE LoadIndexFails \/ unload \/ analyze_stop \/ \E o \in Offsets : patch(o, 1)
  <2>1. /\ UNCHANGED <<worker, hype, hype_ready, hype_error, indexed, dirty>>
        /\ RequestCancel /\ call'.op # "reanalyze"
    BY <1>5 DEF LoadIndexFails, unload, analyze_stop, patch, Binary
  <2> QED BY <1>4, <1>t, <2>1
<1>6. ASSUME NEW i \in ImageFiles, NEW b \in LoadBases, load_file(i, b) PROVE AnalysisOK'
  <2>1. /\ UNCHANGED <<worker, hype, hype_ready, hype_error, indexed, dirty>>
        /\ RequestCancel /\ call'.op # "reanalyze"
    BY <1>6 DEF load_file, Binary
  <2> QED BY <1>4, <1>t, <2>1
<1>7. CASE revert_all
  <2>1. /\ UNCHANGED <<worker, hype, hype_ready, hype_error, indexed, dirty>>
        /\ RequestCancel \/ cancelled' = cancelled
        /\ call'.op # "reanalyze"
    BY <1>7 DEF revert_all, Binary
  <2> QED BY <1>4, <1>t, <2>1
<1>8. CASE patch_write \/ unpack_xor \/ revert_write \/ rebuild \/ stop_joined
  <2>1. /\ UNCHANGED <<worker, hype, hype_ready, hype_error, indexed, cancelled>>
        /\ call'.op # "reanalyze"
    BY <1>8 DEF patch_write, unpack_xor, revert_write, rebuild, stop_joined, Analysis, Binary, Rest,
                NoCall
  <2>2. dirty' \in BOOLEAN
    <3>1. CASE revert_write BY <3>1, Zenon DEF revert_write
    <3>2. CASE patch_write BY <3>2, Zenon DEF patch_write
    <3>3. CASE unpack_xor BY <3>3, Zenon DEF unpack_xor
    <3>4. CASE rebuild BY <3>4, Zenon DEF rebuild
    <3>5. CASE stop_joined
      <4>1. dirty' = dirty BY <3>5 DEF stop_joined, Binary
      <4> QED BY <1>t, <4>1
    <3> QED BY <1>8, <3>1, <3>2, <3>3, <3>4, <3>5
  <2> QED BY <1>4, <2>1, <2>2
<1>9. ASSUME NEW kind \in AnnotationKinds, NEW r \in Rvas, annotate(kind, r) PROVE AnalysisOK'
  <2>1. /\ UNCHANGED <<worker, hype, hype_ready, hype_error, indexed, dirty>>
        /\ cancelled' = cancelled /\ call'.op # "reanalyze"
    BY <1>9 DEF annotate, Analysis, Rest, NoCall
  <2> QED BY <1>4, <1>t, <2>1
<1>10. CASE LoadEnd \/ save_meta
  <2>1. /\ UNCHANGED <<worker, hype, hype_ready, hype_error, indexed, dirty, cancelled>>
        /\ call'.op = "none"
    BY <1>10 DEF LoadEnd, save_meta, NoCall, Binary, Analysis
  <2> QED BY <1>t, <2>1 DEF AnalysisOK
<1>13. CASE rebuild_indexes_locked
  <2>1. /\ UNCHANGED <<worker, hype, hype_ready, hype_error>>
        /\ indexed' = file /\ RequestCancel
        /\ call' = IF hype THEN [op |-> "reanalyze"] ELSE NoCall
    BY <1>13 DEF rebuild_indexes_locked
  <2>2. dirty' \in BOOLEAN BY <1>13, Zenon DEF rebuild_indexes_locked
  <2>3. cancelled' \in BOOLEAN BY <2>1, <1>t, Zenon DEF RequestCancel
  <2>4. call'.op = "reanalyze" => hype BY <2>1 DEF NoCall
  <2> QED BY <1>t, <2>1, <2>2, <2>3, <2>4 DEF AnalysisOK
<1>14. CASE reanalyze
  <2>1. /\ UNCHANGED <<hype, dirty, indexed>> /\ call'.op = "none"
        /\ call.op = "reanalyze" /\ BeginAnalysis
    BY <1>14 DEF reanalyze, Waiting, NoCall, Binary
  <2>2. hype_ready' \in BOOLEAN /\ hype_error' \in BOOLEAN BY <2>1, Zenon DEF BeginAnalysis
  <2>3. cancelled' \in BOOLEAN BY <1>t, <2>1, Zenon DEF BeginAnalysis
  <2>4. worker' \in {"none", "analyzing", "landed", "over"} BY <1>t, <2>1 DEF BeginAnalysis
  <2> QED BY <1>t, <2>1, <2>2, <2>3, <2>4 DEF AnalysisOK
<1>15. CASE AnalysisEnds
  <2>1. /\ UNCHANGED <<hype, cancelled, hype_ready, dirty, indexed, call>>
        /\ worker = "analyzing" /\ worker' \in {"landed", "over"}
    BY <1>15 DEF AnalysisEnds, Binary
  <2>2. hype_error' \in BOOLEAN BY <1>15, <1>t, Zenon DEF AnalysisEnds
  <2> QED BY <1>t, <2>1, <2>2 DEF AnalysisOK
<1>16. CASE ReportReady
  <2>1. /\ UNCHANGED <<hype, cancelled, hype_error, dirty, indexed, call>>
        /\ worker # "none" /\ worker' = "over"
    BY <1>16 DEF ReportReady, Binary
  <2>2. hype_ready' \in BOOLEAN BY <1>16, Zenon DEF ReportReady
  <2> QED BY <1>t, <2>1, <2>2 DEF AnalysisOK
<1>17. CASE UNCHANGED imageVars BY <1>17, <1>t DEF imageVars, AnalysisOK
<1> QED BY <1>2, <1>3, <1>5, <1>6, <1>7, <1>8, <1>9, <1>10, <1>13, <1>14, <1>15, <1>16, <1>17
        DEF ImageNext, CallEnds, AnalysisThread

LEMMA ImageStep == ImageInv /\ [ImageNext]_imageVars => ImageInv'
BY JournalStep, PlacesStep, AnalysisStep DEF ImageInv

-----------------------------------------------------------------------------
(* The debugger: the worker, the tool's thread and the stop they share *)

\* Where the worker waits for the client, and where it has an event in hand.
Parked == {"freezing", "paused", "eval", "asleep"}
Handling == {"hit", "tracing", "pausing"} \cup Parked
WorkerPlaces == Handling \cup {"none", "poll", "thawing", "done"}

ControlTyped ==
  /\ trap \in [Threads -> {"no", "bp", "step", "last"}] /\ cur \in Threads /\ paused_tid \in Threads
  /\ dbg \in {"idle", "running", "paused"} /\ mu \in {"free", "worker", "tool"}
  /\ wpc \in WorkerPlaces /\ tool \in {"rest", "frozen", "quit", "join"}

\* The thread of the event in hand stays on its exception, a published stop is
\* the one in hand, and once the quit flag is up nobody but detach() goes on.
ControlInv ==
  /\ ControlTyped
  /\ wpc \in Handling => trap[cur] # "no"
  /\ quit => tool = "join" \/ (wpc \in {"none", "done"} /\ dbg = "idle")
  /\ dbg = "paused" /\ tool # "join" => wpc \in Parked /\ paused_tid = cur
  /\ wpc = "none" => tool = "rest" /\ dbg = "idle"
  /\ wpc = "eval" => mu = "worker"
  /\ mu = "tool" <=> tool = "frozen"

controlVars == <<trap, cur, paused_tid, dbg, mu, wpc, tool, quit>>

LEMMA ControlInit == DebuggerInit => ControlInv
BY DEF DebuggerInit, ControlInv, ControlTyped, WorkerPlaces, Handling, Parked

\* Every step keeps the worker, the tool and the stop they share in agreement.
LEMMA ControlStep == ControlInv /\ [DebuggerNext]_debuggerVars => ControlInv'
<1> SUFFICES ASSUME ControlInv, [DebuggerNext]_debuggerVars PROVE ControlInv'
  OBVIOUS
<1> USE DEF ControlInv, ControlTyped, WorkerPlaces, Handling, Parked
<1>u. ASSUME UNCHANGED controlVars PROVE ControlInv'
  BY <1>u DEF controlVars
<1>1. ASSUME NEW t \in Threads, FindHit(t) \/ ForeignInt3(t) \/ OtherException(t) PROVE ControlInv'
  <2>1. /\ UNCHANGED <<trap, paused_tid, dbg, mu, tool, quit>>
        /\ cur' = t /\ wpc' \in {"hit", "pausing"} /\ wpc = "poll" /\ trap[t] # "no" /\ ~quit
    BY <1>1 DEF FindHit, ForeignInt3, OtherException, Polling, targetVars, engineVars
  <2> QED BY <2>1
<1>2. ASSUME NEW t \in Threads, TempLanding(t) PROVE ControlInv'
  <2>1. /\ UNCHANGED <<trap, paused_tid, dbg, mu, tool, quit>>
        /\ cur' = t /\ wpc' = "pausing" /\ wpc = "poll" /\ trap[t] # "no" /\ ~quit
    BY <1>2 DEF TempLanding, Polling
  <2> QED BY <2>1
<1>4. CASE HitTrace \/ HitStop
  <2>1. /\ UNCHANGED <<trap, cur, paused_tid, dbg, mu, tool, quit>>
        /\ wpc = "hit" /\ wpc' \in {"tracing", "pausing"}
    BY <1>4 DEF HitTrace, HitStop, targetVars
  <2> QED BY <2>1
<1>5. CASE TraceRelease
  <2>1. /\ UNCHANGED <<cur, paused_tid, dbg, mu, tool, quit>>
        /\ wpc = "tracing" /\ wpc' = "poll" /\ trap' = [trap EXCEPT ![cur] = "no"]
    BY <1>5 DEF TraceRelease, Release
  <2> QED BY <2>1
<1>6. CASE Pause
  <2>1. /\ UNCHANGED <<trap, cur, mu, tool, quit>> /\ paused_tid' = cur /\ dbg' = "paused"
        /\ wpc = "pausing" /\ wpc' \in {"freezing", "paused"}
    BY <1>6 DEF Pause, targetVars
  <2> QED BY <2>1
<1>7. CASE PauseFreeze \/ WaitTimeout
  <2>1. /\ UNCHANGED <<trap, cur, paused_tid, dbg, mu, tool, quit>>
        /\ wpc \in {"freezing", "asleep"} /\ wpc' = "paused"
    BY <1>7 DEF PauseFreeze, WaitTimeout, targetVars, engineVars
  <2> QED BY <2>1
<1>8. CASE EvalWait \/ Sleep
  <2>1. /\ UNCHANGED <<trap, cur, paused_tid, dbg, tool, quit>>
        /\ \/ wpc = "paused" /\ mu = "free" /\ wpc' = "eval" /\ mu' = "worker"
           \/ wpc = "eval" /\ wpc' = "asleep" /\ mu' = "free"
    BY <1>8 DEF EvalWait, Sleep, targetVars, engineVars
  <2> QED BY <2>1
<1>9. CASE Resume
  <2>1. /\ UNCHANGED <<cur, paused_tid, mu, tool, quit>> /\ ~quit
        /\ wpc = "paused" /\ wpc' \in {"thawing", "poll"} /\ dbg' = "running"
        /\ \E e \in {"no", "last"} : trap' = [trap EXCEPT ![cur] = e]
    BY <1>9 DEF Resume, LetGo, PassOn
  <2> QED BY <2>1
<1>10. CASE Thaw
  <2>1. /\ UNCHANGED <<trap, cur, paused_tid, dbg, mu, tool, quit>>
        /\ wpc = "thawing" /\ wpc' = "poll"
    BY <1>10 DEF Thaw
  <2> QED BY <2>1
<1>11. CASE WorkerQuit
  <2>1. /\ UNCHANGED <<cur, paused_tid, dbg, mu, tool, quit>> /\ quit
        /\ wpc \in {"poll", "paused"} /\ wpc' = "done"
        /\ trap' = trap \/ trap' = [t \in Threads |-> "no"]
    BY <1>11 DEF WorkerQuit
  <2> QED BY <2>1
<1>12. CASE TargetExited
  <2>1. /\ UNCHANGED <<trap, cur, paused_tid, mu, tool>>
        /\ wpc = "poll" /\ wpc' = "done" /\ dbg' = "idle"
    BY <1>12 DEF TargetExited, targetVars
  <2> QED BY <2>1
<1>13. ASSUME NEW m \in Modes, Attach(m) PROVE ControlInv'
  <2>1. /\ UNCHANGED <<cur, paused_tid, mu, tool>> /\ tool = "rest" /\ quit' = FALSE
        /\ wpc' = "poll" /\ dbg' = "running"
        /\ trap' = trap \/ \E t \in Threads : trap' = [trap EXCEPT ![t] = "bp"]
    BY <1>13 DEF Attach
  <2> QED BY <2>1
<1>14. CASE FreezeForEdit
  <2>1. /\ UNCHANGED <<trap, cur, paused_tid, dbg, wpc, quit>>
        /\ tool = "rest" /\ mu = "free" /\ dbg # "idle" /\ tool' = "frozen" /\ mu' = "tool"
    BY <1>14 DEF FreezeForEdit, Editing, Idle
  <2> QED BY <2>1
<1>15. ASSUME UNCHANGED <<trap, cur, paused_tid, dbg, wpc, quit>>, tool \in {"rest", "frozen"},
              mu # "worker", tool' = "rest", mu' = "free"
       PROVE  ControlInv'
  BY <1>15
<1>16. ASSUME NEW a \in BpAddrs, SetSwBreakpoint(a) PROVE ControlInv'
  <2>1. Flipping => tool \in {"rest", "frozen"} /\ mu # "worker" BY DEF Flipping, Editing, Idle
  <2> QED BY <1>15, <1>16, <2>1 DEF SetSwBreakpoint, EndFlip
<1>17. ASSUME NEW a \in BpAddrs, ClearBreakpoint(a) PROVE ControlInv'
  <2>1. Flipping => tool \in {"rest", "frozen"} /\ mu # "worker" BY DEF Flipping, Editing, Idle
  <2>2. UNCHANGED <<trap, cur, paused_tid, dbg, wpc, quit>> BY <1>17 DEF ClearBreakpoint
  <2>3. CASE bps[a].hw # 0
    <3>1. UNCHANGED <<tool, mu>> BY <1>17, <2>3 DEF ClearBreakpoint
    <3> QED BY <1>u, <2>2, <3>1 DEF controlVars
  <2>4. CASE bps[a].hw = 0
    <3>1. Flipping /\ EndFlip BY <1>17, <2>4 DEF ClearBreakpoint
    <3> QED BY <1>15, <2>1, <2>2, <3>1 DEF EndFlip
  <2> QED BY <2>3, <2>4
<1>18. ASSUME NEW c \in Commands, RequestResume(c) PROVE ControlInv'
  <2>1. UNCHANGED <<trap, cur, paused_tid, dbg, mu, tool, quit>> /\ Notify
    BY <1>18 DEF RequestResume, targetVars
  <2> QED BY <2>1 DEF Notify
<1>19. CASE DetachDisarm
  <2>1. /\ UNCHANGED <<trap, cur, paused_tid, dbg, mu, wpc, quit>>
        /\ tool = "rest" /\ mu = "free" /\ (dbg # "idle" \/ wpc # "none") /\ tool' = "quit"
    BY <1>19 DEF DetachDisarm
  <2> QED BY <2>1
<1>20. CASE DetachQuit
  <2>1. /\ UNCHANGED <<trap, cur, paused_tid, dbg, mu>>
        /\ tool = "quit" /\ tool' = "join" /\ Notify
    BY <1>20 DEF DetachQuit, targetVars
  <2> QED BY <2>1 DEF Notify
<1>21. CASE DetachEnd
  <2>1. /\ UNCHANGED <<cur, paused_tid, mu, quit>> /\ mu = "free"
        /\ tool' = "rest" /\ wpc' = "none" /\ dbg' = "idle" /\ trap' = [t \in Threads |-> "no"]
    BY <1>21 DEF DetachEnd
  <2> QED BY <2>1
<1>22. ASSUME NEW t \in Threads, Execute(t) \/ ExecuteInt3(t) \/ DebugRegisterHit(t)
       PROVE  ControlInv'
  <2>1. /\ UNCHANGED <<cur, paused_tid, dbg, mu, wpc, tool, quit>> /\ trap[t] = "no"
        /\ \E x \in {"no", "bp", "step"} : trap' = [trap EXCEPT ![t] = x]
    BY <1>22 DEF Execute, ExecuteInt3, DebugRegisterHit, Told, CanRun, engineVars, actorVars
  <2> QED BY <2>1
<1>23. CASE Die \/ SuspendAll \/ ResumeAll \/ UNCHANGED debuggerVars
  BY <1>23, <1>u DEF Die, SuspendAll, ResumeAll, controlVars, debuggerVars, targetVars, engineVars,
                     actorVars
<1>24. ASSUME NEW a \in BpAddrs, 
              SetHwBreakpoint(a) \/ \E k \in Kinds, o \in BOOLEAN : ConfigureBreakpoint(a, k, o)
       PROVE  ControlInv'
  BY <1>24, <1>u DEF SetHwBreakpoint, ConfigureBreakpoint, controlVars, targetVars, actorVars
<1> QED
  BY <1>1, <1>2, <1>4, <1>5, <1>6, <1>7, <1>8, <1>9, <1>10, <1>11, <1>12, <1>13, <1>14,
     <1>16, <1>17, <1>18, <1>19, <1>20, <1>21, <1>22, <1>23, <1>24
  DEF DebuggerNext, DebugWorker, DebugTool, Debuggee

\* A pause is somebody's pause: the thread whose registers the client reads and
\* edits is stopped on its exception, for any number of threads, edits and sessions.
THEOREM PauseIsHeld == DebuggerSpec => []PausedIsHeld
<1>1. ControlInv => PausedIsHeld
  BY DEF ControlInv, ControlTyped, Handling, Parked, PausedIsHeld
<1> QED BY <1>1, ControlInit, ControlStep, PTL DEF DebuggerSpec

-----------------------------------------------------------------------------
(* The debugger: breakpoint records and the bytes they stand for *)

BytesTyped ==
  /\ code \in [Addrs -> {"orig", "cc"}] /\ dr \in [HwSlots -> {0} \cup Addrs]
  /\ at \in [Threads -> Addrs] /\ site \in [Threads -> {0} \cup Addrs]
  /\ bps \in [Addrs -> BpRecords] /\ hit \in {0} \cup Addrs /\ plan \in PlanType
  /\ paused_at \in {0} \cup Addrs /\ leftover \subseteq Addrs

bytesVars == <<code, dr, at, site, bps, hit, plan, paused_at, leftover>>

LEMMA SuccInCode == \A a \in Addrs : Succ(a) \in Addrs
BY DebuggerConstants DEF Addrs, Succ

\* What becomes of one record: none, a new one, disarmed, armed.
LEMMA RecordShapes ==
  /\ NoBp \in BpRecords /\ NoBp.kind = "none" /\ NoBp.hw = 0 /\ NoBp.armed = FALSE
  /\ \A k \in Kinds \cup {"temp"}, s \in {0} \cup HwSlots, c \in {"orig", "cc"}, m \in BOOLEAN :
       /\ Bp(k, s, c, m) \in BpRecords
       /\ Bp(k, s, c, m).kind = k /\ Bp(k, s, c, m).hw = s
       /\ Bp(k, s, c, m).orig = c /\ Bp(k, s, c, m).armed = m
  /\ \A b \in BpRecords :
       /\ [b EXCEPT !.armed = FALSE] \in BpRecords
       /\ [b EXCEPT !.armed = FALSE].kind = b.kind /\ [b EXCEPT !.armed = FALSE].hw = b.hw
       /\ [b EXCEPT !.armed = FALSE].armed = FALSE
  /\ \A b \in BpRecords, c \in {"orig", "cc"} :
       /\ Armed(b, c) \in BpRecords
       /\ Armed(b, c).kind = b.kind /\ Armed(b, c).hw = b.hw
       /\ Armed(b, c).orig = c /\ Armed(b, c).armed = TRUE
<1>1. NoBp \in BpRecords /\ NoBp.kind = "none" /\ NoBp.hw = 0 /\ NoBp.armed = FALSE
  BY DEF NoBp, Bp, BpRecords
<1>2. ASSUME NEW k \in Kinds \cup {"temp"}, NEW s \in {0} \cup HwSlots, NEW c \in {"orig", "cc"},
             NEW m \in BOOLEAN
      PROVE  /\ Bp(k, s, c, m) \in BpRecords
             /\ Bp(k, s, c, m).kind = k /\ Bp(k, s, c, m).hw = s
             /\ Bp(k, s, c, m).orig = c /\ Bp(k, s, c, m).armed = m
  BY DEF Bp, BpRecords
<1>3. ASSUME NEW b \in BpRecords
      PROVE  /\ [b EXCEPT !.armed = FALSE] \in BpRecords
             /\ [b EXCEPT !.armed = FALSE].kind = b.kind /\ [b EXCEPT !.armed = FALSE].hw = b.hw
             /\ [b EXCEPT !.armed = FALSE].armed = FALSE
  BY DEF BpRecords
<1>4. ASSUME NEW b \in BpRecords, NEW c \in {"orig", "cc"}
      PROVE  /\ Armed(b, c) \in BpRecords
             /\ Armed(b, c).kind = b.kind /\ Armed(b, c).hw = b.hw
             /\ Armed(b, c).orig = c /\ Armed(b, c).armed = TRUE
  BY DEF Armed, BpRecords
<1> QED BY <1>1, <1>2, <1>3, <1>4

\* Putting bytes back, and the records of it.
LEMMA DisarmFacts ==
  ASSUME BytesTyped, NEW S
  PROVE  /\ Disarm(S) \in [Addrs -> {"orig", "cc"}] /\ Disarmed(S) \in [Addrs -> BpRecords]
         /\ \A a \in Addrs : Disarm(S)[a] = IF a \in S /\ bps[a].armed THEN bps[a].orig ELSE code[a]
         /\ \A a \in Addrs : Disarmed(S)[a] = IF a \in S THEN [bps[a] EXCEPT !.armed = FALSE] ELSE bps[a]
<1>1. \A a \in Addrs : bps[a] \in BpRecords /\ bps[a].orig \in {"orig", "cc"} /\ code[a] \in {"orig", "cc"}
  BY DEF BytesTyped, BpRecords
<1>2. \A a \in Addrs : [bps[a] EXCEPT !.armed = FALSE] \in BpRecords BY <1>1, RecordShapes
<1> QED BY <1>1, <1>2 DEF Disarm, Disarmed

\* Putting the breakpoint that was hit back.
LEMMA RehitFacts ==
  ASSUME BytesTyped
  PROVE  /\ RehitCode \in [Addrs -> {"orig", "cc"}] /\ RehitBps \in [Addrs -> BpRecords]
         /\ \A a \in Addrs : a # hit => RehitCode[a] = code[a] /\ RehitBps[a] = bps[a]
         /\ hit # 0 /\ bps[hit].once => RehitCode[hit] = code[hit] /\ RehitBps[hit] = NoBp
         /\ hit # 0 /\ ~bps[hit].once /\ bps[hit].armed
              => RehitCode[hit] = code[hit] /\ RehitBps[hit] = bps[hit]
         /\ hit # 0 /\ ~bps[hit].once /\ ~bps[hit].armed
              => RehitCode[hit] = "cc" /\ RehitBps[hit] = Armed(bps[hit], code[hit])
<1>1. code \in [Addrs -> {"orig", "cc"}] /\ bps \in [Addrs -> BpRecords] /\ hit \in {0} \cup Addrs
  BY DEF BytesTyped
<1>2. ASSUME hit # 0 PROVE NoBp \in BpRecords /\ Armed(bps[hit], code[hit]) \in BpRecords
  <2>1. bps[hit] \in BpRecords /\ code[hit] \in {"orig", "cc"} BY <1>1, <1>2
  <2> QED BY <2>1, RecordShapes
<1>3. CASE hit = 0
  <2>1. RehitCode = code /\ RehitBps = bps BY <1>3 DEF RehitCode, RehitBps
  <2> QED BY <1>1, <1>3, <2>1
<1>4. CASE hit # 0 /\ bps[hit].once
  <2>1. RehitCode = code /\ RehitBps = [bps EXCEPT ![hit] = NoBp] BY <1>4 DEF RehitCode, RehitBps
  <2> QED BY <1>1, <1>2, <1>4, <2>1
<1>5. CASE hit # 0 /\ ~bps[hit].once /\ bps[hit].armed
  <2>1. RehitCode = code /\ RehitBps = bps BY <1>5 DEF RehitCode, RehitBps
  <2> QED BY <1>1, <1>5, <2>1
<1>6. CASE hit # 0 /\ ~bps[hit].once /\ ~bps[hit].armed
  <2>1. /\ RehitCode = [code EXCEPT ![hit] = "cc"]
        /\ RehitBps = [bps EXCEPT ![hit] = Armed(bps[hit], code[hit])]
    BY <1>1, <1>6 DEF RehitCode, RehitBps
  <2> QED BY <1>1, <1>2, <1>6, <2>1
<1> QED BY <1>3, <1>4, <1>5, <1>6

\* Every plan of a step that sets a breakpoint sets it at a step site.
LEMMA PlannedFacts ==
  ASSUME NEW c \in Commands, paused_at \in {0} \cup Addrs
  PROVE  /\ Planned(c) \in PlanType
         /\ Planned(c).kind = "temp_breakpoint" => Planned(c).addr \in StepSites
<1> USE DebuggerConstants
<1>1. CASE c = "continue"
  <2>1. Planned(c) = [kind |-> "none", addr |-> 0] BY <1>1 DEF Planned, Plan
  <2> QED BY <2>1 DEF PlanType
<1>2. CASE c = "step_into"
  <2>1. Planned(c) = [kind |-> "trap_flag", addr |-> 0] BY <1>2 DEF Planned, Plan
  <2> QED BY <2>1 DEF PlanType
<1>3. CASE c = "step_over" /\ paused_at \in CallSites
  <2>1. Planned(c) = [kind |-> "temp_breakpoint", addr |-> Succ(paused_at)] BY <1>3 DEF Planned, Plan
  <2>2. Succ(paused_at) \in Addrs BY <1>3, SuccInCode
  <2> QED BY <1>3, <2>1, <2>2 DEF PlanType, StepSites
<1>4. CASE c = "step_over" /\ paused_at \notin CallSites
  <2>1. Planned(c) = [kind |-> "trap_flag", addr |-> 0] BY <1>4 DEF Planned, Plan
  <2> QED BY <2>1 DEF PlanType
<1>5. CASE c = "step_out"
  <2>1. Planned(c) = [kind |-> "temp_breakpoint", addr |-> RetAddr] BY <1>5 DEF Planned, Plan
  <2> QED BY <2>1 DEF PlanType, StepSites
<1> QED BY <1>1, <1>2, <1>3, <1>4, <1>5 DEF Commands

LEMMA BytesInit == DebuggerInit => BytesTyped
<1> SUFFICES ASSUME DebuggerInit PROVE BytesTyped
  OBVIOUS
<1>1. 1 \in Addrs BY DebuggerConstants DEF Addrs
<1>2. plan \in PlanType
  <2>1. plan = [kind |-> "none", addr |-> 0] BY DEF DebuggerInit, Plan
  <2> QED BY <2>1 DEF PlanType
<1> QED BY <1>1, <1>2, RecordShapes DEF DebuggerInit, BytesTyped

LEMMA BytesStep == ControlInv /\ BytesTyped /\ [DebuggerNext]_debuggerVars => BytesTyped'
<1> SUFFICES ASSUME ControlInv, BytesTyped, [DebuggerNext]_debuggerVars PROVE BytesTyped'
  OBVIOUS
<1> USE DebuggerConstants
<1>t. /\ code \in [Addrs -> {"orig", "cc"}] /\ dr \in [HwSlots -> {0} \cup Addrs]
      /\ at \in [Threads -> Addrs] /\ site \in [Threads -> {0} \cup Addrs]
      /\ bps \in [Addrs -> BpRecords] /\ hit \in {0} \cup Addrs /\ plan \in PlanType
      /\ paused_at \in {0} \cup Addrs /\ leftover \subseteq Addrs
      /\ cur \in Threads
  BY DEF BytesTyped, ControlInv, ControlTyped
<1>u. ASSUME UNCHANGED bytesVars PROVE BytesTyped'
  BY <1>u DEF bytesVars, BytesTyped
\* Steps that change the code, its records and the one that was hit.
<1>c. ASSUME UNCHANGED <<dr, at, site, plan, paused_at, leftover>>,
             code' \in [Addrs -> {"orig", "cc"}], bps' \in [Addrs -> BpRecords], hit' \in {0} \cup Addrs
      PROVE  BytesTyped'
  BY <1>c, <1>t DEF BytesTyped
<1>1. ASSUME NEW t \in Threads, FindHit(t) \/ ForeignInt3(t) \/ OtherException(t) PROVE BytesTyped'
  BY <1>1, <1>u DEF FindHit, ForeignInt3, OtherException, targetVars, engineVars, debuggerHistory, bytesVars
<1>2. CASE \/ PauseFreeze \/ EvalWait \/ Sleep \/ WaitTimeout \/ Thaw \/ WorkerQuit \/ TargetExited
           \/ FreezeForEdit \/ SuspendAll \/ ResumeAll \/ DetachQuit \/ Die \/ UNCHANGED debuggerVars
  <2>1. UNCHANGED bytesVars
    BY <1>2 DEF PauseFreeze, EvalWait, Sleep, WaitTimeout, Thaw, WorkerQuit, TargetExited,
                FreezeForEdit, SuspendAll, ResumeAll, DetachQuit, Die, debuggerVars, targetVars,
                engineVars, debuggerHistory, bytesVars
  <2> QED BY <1>u, <2>1
<1>3. CASE HitTrace
  <2>1. UNCHANGED <<code, dr, at, site, bps, plan, paused_at, leftover>> /\ hit' = site[cur]
    BY <1>3 DEF HitTrace, targetVars, debuggerHistory
  <2> QED BY <1>c, <1>t, <2>1
<1>4. CASE TraceRelease \/ HitStop
  <2>1. /\ UNCHANGED <<dr, at, site, plan, paused_at, leftover>> /\ hit' \in {hit, site[cur]}
        /\ code' = Disarm({site[cur]}) /\ bps' = Disarmed({site[cur]})
    BY <1>4 DEF TraceRelease, HitStop, debuggerHistory
  <2> QED BY <1>c, <1>t, <2>1, DisarmFacts
<1>5. ASSUME NEW t \in Threads, TempLanding(t) PROVE BytesTyped'
  <2>1. /\ UNCHANGED <<dr, at, site, plan, paused_at, leftover, hit>>
        /\ code' = Disarm({site[t]}) /\ bps' = [bps EXCEPT ![site[t]] = NoBp]
    BY <1>5 DEF TempLanding, debuggerHistory
  <2>2. bps' \in [Addrs -> BpRecords] BY <1>t, <2>1, RecordShapes
  <2> QED BY <1>c, <1>t, <2>1, <2>2, DisarmFacts
<1>7. CASE Pause
  <2>1. UNCHANGED <<code, dr, at, site, bps, hit, plan, leftover>> /\ paused_at' = at[cur]
    BY <1>7 DEF Pause, targetVars, debuggerHistory
  <2> QED BY <1>t, <2>1 DEF BytesTyped
<1>8. CASE Resume
  <2>1. UNCHANGED <<dr, at, site, plan, paused_at, leftover>> BY <1>8 DEF Resume
  <2>2. CASE plan.kind = "trap_flag"
    <3>1. UNCHANGED <<code, bps, hit>> BY <1>8, <2>2 DEF Resume
    <3> QED BY <1>c, <1>t, <2>1, <3>1
  <2>3. CASE plan.kind = "temp_breakpoint"
    <3>1. /\ bps' = IF Known(plan.addr) THEN RehitBps
                    ELSE [RehitBps EXCEPT ![plan.addr] = Bp("temp", 0, code[plan.addr], FALSE)]
          /\ code' = [RehitCode EXCEPT ![plan.addr] = "cc"] /\ hit' = 0
      BY <1>8, <2>3 DEF Resume
    <3>2. code' \in [Addrs -> {"orig", "cc"}] BY <3>1, RehitFacts
    <3>3. bps' \in [Addrs -> BpRecords]
      <4>1. CASE plan.addr = 0 \/ Known(plan.addr)
        <5>1. bps' = RehitBps \/ bps' = [RehitBps EXCEPT ![0] = Bp("temp", 0, code[0], FALSE)]
          BY <3>1, <4>1
        <5>2. 0 \notin Addrs BY DEF Addrs
        <5> QED BY <5>1, <5>2, RehitFacts
      <4>2. CASE plan.addr # 0 /\ ~Known(plan.addr)
        <5>1. plan.addr \in Addrs BY <1>t, <4>2 DEF PlanType
        <5>2. code[plan.addr] \in {"orig", "cc"} BY <1>t, <5>1
        <5>3. Bp("temp", 0, code[plan.addr], FALSE) \in BpRecords BY <5>2 DEF Bp, BpRecords
        <5> QED BY <3>1, <4>2, <5>1, <5>3, RehitFacts
      <4> QED BY <4>1, <4>2
    <3> QED BY <1>c, <2>1, <3>1, <3>2, <3>3
  <2>4. CASE plan.kind = "none"
    <3>1. code' = RehitCode /\ bps' = RehitBps /\ hit' = 0 BY <1>8, <2>4 DEF Resume, Rehit
    <3> QED BY <1>c, <2>1, <3>1, RehitFacts
  <2> QED BY <1>8, <2>2, <2>3, <2>4 DEF Resume
<1>9. ASSUME NEW m \in Modes, Attach(m) PROVE BytesTyped'
  <2>1. /\ UNCHANGED <<code, dr, at, bps, hit, plan, paused_at>>
        /\ site' = [t \in Threads |-> 0] /\ leftover' = {a \in Addrs : code[a] = "cc"}
    BY <1>9 DEF Attach
  <2> QED BY <1>t, <2>1 DEF BytesTyped
<1>10. ASSUME NEW a \in BpAddrs, SetSwBreakpoint(a) PROVE BytesTyped'
  <2>1. /\ UNCHANGED <<dr, at, site, plan, paused_at, leftover, hit>>
        /\ bps' = [bps EXCEPT ![a] = Bp("stop", 0, code[a], TRUE)] /\ code' = [code EXCEPT ![a] = "cc"]
    BY <1>10 DEF SetSwBreakpoint
  <2>2. Bp("stop", 0, code[a], TRUE) \in BpRecords
    <3>1. code[a] \in {"orig", "cc"} BY <1>t
    <3> QED BY <3>1 DEF Bp, BpRecords, Kinds
  <2>3. bps' \in [Addrs -> BpRecords] BY <1>t, <2>1, <2>2
  <2>4. code' \in [Addrs -> {"orig", "cc"}] BY <1>t, <2>1
  <2> QED BY <1>c, <1>t, <2>1, <2>3, <2>4
<1>11. ASSUME NEW a \in BpAddrs, NEW k \in Kinds, NEW o \in BOOLEAN, ConfigureBreakpoint(a, k, o)
       PROVE  BytesTyped'
  <2>1. /\ UNCHANGED <<code, dr, at, site, plan, paused_at, leftover, hit>>
        /\ bps' = [bps EXCEPT ![a].kind = k, ![a].once = o]
    BY <1>11 DEF ConfigureBreakpoint, targetVars, debuggerHistory
  <2>2. [bps[a] EXCEPT !.kind = k, !.once = o] \in BpRecords
    <3>1. bps[a] \in BpRecords BY <1>t
    <3> QED BY <3>1 DEF BpRecords, Kinds
  <2>3. bps' \in [Addrs -> BpRecords] BY <1>t, <2>1, <2>2
  <2> QED BY <1>c, <1>t, <2>1, <2>3
<1>12. ASSUME NEW a \in BpAddrs, SetHwBreakpoint(a) PROVE BytesTyped'
  <2>1. PICK s \in HwSlots : /\ dr' = [dr EXCEPT ![s] = a]
                             /\ bps' = [bps EXCEPT ![a] = Bp("stop", s, "cc", FALSE)]
    BY <1>12 DEF SetHwBreakpoint
  <2>2. UNCHANGED <<code, at, site, plan, paused_at, leftover, hit>> BY <1>12 DEF SetHwBreakpoint
  <2>3. Bp("stop", s, "cc", FALSE) \in BpRecords BY RecordShapes DEF Kinds
  <2>4. bps' \in [Addrs -> BpRecords] BY <1>t, <2>1, <2>3
  <2>5. dr' \in [HwSlots -> {0} \cup Addrs] BY <1>t, <2>1
  <2> QED BY <1>t, <2>2, <2>4, <2>5 DEF BytesTyped
<1>13. ASSUME NEW a \in BpAddrs, ClearBreakpoint(a) PROVE BytesTyped'
  <2>1. /\ UNCHANGED <<at, site, plan, paused_at, leftover, hit>> /\ dr' = dr
        /\ code' \in {code, Disarm({a})} /\ bps' = [bps EXCEPT ![a] = NoBp]
    BY <1>13 DEF ClearBreakpoint, ClearedSlots
  <2>2. bps' \in [Addrs -> BpRecords] BY <1>t, <2>1, RecordShapes
  <2> QED BY <1>c, <1>t, <2>1, <2>2, DisarmFacts
<1>14. ASSUME NEW c \in Commands, RequestResume(c) PROVE BytesTyped'
  <2>1. UNCHANGED <<code, dr, at, site, bps, hit, paused_at, leftover>> /\ plan' = Planned(c)
    BY <1>14 DEF RequestResume, targetVars
  <2>2. plan' \in PlanType BY <1>t, <2>1, PlannedFacts
  <2> QED BY <1>t, <2>1, <2>2 DEF BytesTyped
<1>15. CASE DetachDisarm
  <2>1. /\ UNCHANGED <<at, site, plan, paused_at, leftover, hit>> /\ dr' = dr
        /\ code' = Disarm(SwBps) /\ bps' = Disarmed(SwBps)
    BY <1>15 DEF DetachDisarm, ClearedSlots, debuggerHistory
  <2> QED BY <1>c, <1>t, <2>1, DisarmFacts
<1>16. CASE DetachEnd
  <2>1. /\ UNCHANGED <<code, dr, at, site, plan, paused_at, leftover>>
        /\ bps' = [a \in Addrs |-> NoBp] /\ hit' = 0
    BY <1>16 DEF DetachEnd, debuggerHistory
  <2>2. bps' \in [Addrs -> BpRecords] BY <2>1, RecordShapes
  <2> QED BY <1>c, <1>t, <2>1, <2>2
<1>17. ASSUME NEW t \in Threads, Execute(t) \/ ExecuteInt3(t) \/ DebugRegisterHit(t)
       PROVE  BytesTyped'
  <2>1. /\ UNCHANGED <<code, dr, bps, hit, plan, paused_at, leftover>>
        /\ at' = at \/ at' = [at EXCEPT ![t] = Succ(at[t])]
        /\ site' = site \/ \E s \in {0, at[t]} : site' = [site EXCEPT ![t] = s]
    BY <1>17 DEF Execute, ExecuteInt3, DebugRegisterHit, engineVars, debuggerHistory
  <2>2. at[t] \in Addrs /\ Succ(at[t]) \in Addrs BY <1>t, SuccInCode
  <2>3. at' \in [Threads -> Addrs] BY <1>t, <2>1, <2>2
  <2>4. site' \in [Threads -> {0} \cup Addrs] BY <1>t, <2>1, <2>2
  <2> QED BY <1>t, <2>1, <2>3, <2>4 DEF BytesTyped
<1> QED
  BY <1>1, <1>2, <1>3, <1>4, <1>5, <1>7, <1>8, <1>9, <1>10, <1>11, <1>12, <1>13, <1>14,
     <1>15, <1>16, <1>17
  DEF DebuggerNext, DebugWorker, DebugTool, Debuggee

\* A record and the byte at its address agree: armed means planted, and the
\* byte put aside is the target's own.
Sound(b, c) ==
  /\ b.armed <=> c = "cc"
  /\ b.armed => b.kind # "none" /\ b.hw = 0 /\ b.orig = "orig"

LEMMA SoundFacts ==
  /\ Sound(NoBp, "orig")
  /\ Sound(Bp("stop", 0, "orig", TRUE), "cc")
  /\ \A s \in HwSlots : Sound(Bp("stop", s, "cc", FALSE), "orig")
<1>1. Sound(NoBp, "orig") BY DEF Sound, NoBp, Bp
<1>2. Sound(Bp("stop", 0, "orig", TRUE), "cc") BY DEF Sound, Bp
<1>3. ASSUME NEW s \in HwSlots PROVE Sound(Bp("stop", s, "cc", FALSE), "orig") BY DEF Sound, Bp
<1> QED BY <1>1, <1>2, <1>3

\* What a sound record says, and what may become of it.
LEMMA SoundRecord ==
  ASSUME BytesTyped, NEW a \in Addrs, Sound(bps[a], code[a])
  PROVE  /\ bps[a].armed => bps[a].kind # "none" /\ bps[a].hw = 0 /\ bps[a].orig = "orig"
         /\ ~bps[a].armed => code[a] = "orig"
         /\ Sound([bps[a] EXCEPT !.armed = FALSE], "orig")
         /\ bps[a].kind # "none" /\ bps[a].hw = 0 => Sound(Armed(bps[a], "orig"), "cc")
         /\ \A k \in Kinds, o \in BOOLEAN : Sound([bps[a] EXCEPT !.kind = k, !.once = o], code[a])
<1> DEFINE b == bps[a]
           c == code[a]
<1>1. b \in BpRecords /\ c \in {"orig", "cc"} /\ Sound(b, c) BY DEF BytesTyped
<1> HIDE DEF b, c
<1>2. b.armed => b.kind # "none" /\ b.hw = 0 /\ b.orig = "orig" BY <1>1 DEF Sound
<1>3. ~b.armed => c = "orig" BY <1>1 DEF Sound
<1>4. Sound([b EXCEPT !.armed = FALSE], "orig") BY <1>1, RecordShapes DEF Sound
<1>5. b.kind # "none" /\ b.hw = 0 => Sound(Armed(b, "orig"), "cc") BY <1>1, RecordShapes DEF Sound
<1>6. ASSUME NEW k \in Kinds, NEW o \in BOOLEAN PROVE Sound([b EXCEPT !.kind = k, !.once = o], c)
  <2>1. /\ [b EXCEPT !.kind = k, !.once = o].armed = b.armed /\ [b EXCEPT !.kind = k, !.once = o].hw = b.hw
        /\ [b EXCEPT !.kind = k, !.once = o].orig = b.orig /\ [b EXCEPT !.kind = k, !.once = o].kind = k
    BY <1>1 DEF BpRecords
  <2> QED BY <1>1, <2>1 DEF Sound, Kinds
<1> QED BY <1>2, <1>3, <1>4, <1>5, <1>6 DEF b, c

\* The client's breakpoint sites that nothing but the session writes to.
Sites == BpAddrs \ (StepSites \cup leftover)

\* A site's record is sound, it exists while a pointer leads to it, and the
\* one that was hit is out of the code until it is put back.
Kept(a) ==
  /\ Sound(bps[a], code[a])
  /\ a \in Pointed => bps[a].kind # "none" /\ bps[a].hw = 0
  /\ hit = a /\ wpc # "tracing" => ~bps[a].armed

RecordsInv ==
  /\ plan.kind = "temp_breakpoint" => plan.addr \in StepSites
  /\ wpc \in {"hit", "tracing"} => site[cur] # 0
  /\ wpc = "tracing" => hit = site[cur]
  /\ tool = "frozen" => ~dangling
  /\ wpc = "none" => hit = 0 /\ bps = [a \in Addrs |-> NoBp]
  /\ wpc # "none" /\ ~dangling => \A a \in Sites : Kept(a)

LEMMA RecordsInit == DebuggerInit => RecordsInv
<1> SUFFICES ASSUME DebuggerInit PROVE RecordsInv
  OBVIOUS
<1>1. plan = [kind |-> "none", addr |-> 0] BY DEF DebuggerInit, Plan
<1>2. plan.kind # "temp_breakpoint" BY <1>1
<1> QED BY <1>2 DEF DebuggerInit, RecordsInv

LEMMA RecordsTraps == ControlInv /\ BytesTyped /\ RecordsInv => TrapsAreRecorded
<1> SUFFICES ASSUME ControlInv, BytesTyped, RecordsInv, dbg # "idle", ~dangling,
                    NEW a \in BpAddrs \ (StepSites \cup leftover), code[a] = "cc"
             PROVE  Known(a) /\ bps[a].hw = 0 /\ bps[a].orig = "orig"
  BY DEF TrapsAreRecorded
<1>1. Sound(bps[a], code[a]) BY DEF RecordsInv, ControlInv, Sites, Kept
<1>2. a \in Addrs /\ a # 0 BY DebuggerConstants DEF Addrs
<1> QED BY <1>1, <1>2 DEF Sound, Known

\* Every step keeps records and bytes in agreement.
LEMMA RecordsStep ==
  ControlInv /\ BytesTyped /\ RecordsInv /\ [DebuggerNext]_debuggerVars => RecordsInv'
<1> SUFFICES ASSUME ControlInv, BytesTyped, RecordsInv, [DebuggerNext]_debuggerVars PROVE RecordsInv'
  OBVIOUS
<1>t. /\ code \in [Addrs -> {"orig", "cc"}] /\ site \in [Threads -> {0} \cup Addrs]
      /\ bps \in [Addrs -> BpRecords] /\ hit \in {0} \cup Addrs /\ plan \in PlanType
      /\ cur \in Threads /\ leftover \subseteq Addrs
  BY DEF BytesTyped, ControlInv, ControlTyped
<1>a. \A a \in Sites : a \in Addrs /\ a # 0 /\ a \notin StepSites /\ bps[a] \in BpRecords
                       /\ code[a] \in {"orig", "cc"}
  BY <1>t, DebuggerConstants DEF Sites, Addrs
<1>i. /\ plan.kind = "temp_breakpoint" => plan.addr \in StepSites
      /\ wpc \in {"hit", "tracing"} => site[cur] # 0 /\ site[cur] \in Addrs
      /\ wpc = "tracing" => hit = site[cur]
      /\ tool = "frozen" => ~dangling
      /\ wpc = "none" => hit = 0 /\ bps = [a \in Addrs |-> NoBp]
      /\ wpc # "none" /\ ~dangling => \A a \in Sites : Kept(a)
  BY <1>t DEF RecordsInv
<1>n. wpc = "none" => tool = "rest" /\ dbg = "idle" BY DEF ControlInv
\* The worker's steps: the client and the session stay as they are.
<1>w. ASSUME wpc # "none", wpc' # "none", UNCHANGED <<plan, tool, leftover>>, tool = "frozen" => ~dangling',
             wpc' \in {"hit", "tracing"} => site'[cur'] # 0, wpc' = "tracing" => hit' = site'[cur'],
             ~dangling' => ~dangling,
             \A a \in Sites : ~dangling' /\ Kept(a) => Kept(a)'
      PROVE  RecordsInv'
  BY <1>i, <1>w DEF RecordsInv, Sites
\* The tool's steps: the worker and what it points to stay where they are.
<1>v. ASSUME wpc # "none", UNCHANGED <<wpc, cur, site, hit, leftover, plan>>, tool' = "frozen" => ~dangling',
             \A a \in Sites : ~dangling' => Kept(a)'
      PROVE  RecordsInv'
  BY <1>i, <1>v DEF RecordsInv, Sites
\* Steps after which the worker points to nothing it did not point to before.
<1>p. ASSUME NEW a \in Sites, Kept(a), UNCHANGED <<code, bps>>, Pointed' \subseteq Pointed,
             hit' = a /\ wpc' # "tracing" => ~bps[a].armed
      PROVE  Kept(a)'
  BY <1>p DEF Kept
<1>x. ASSUME NEW a \in Sites, Kept(a), code'[a] = code[a], bps'[a] = bps[a], Pointed' = Pointed,
             UNCHANGED <<hit, wpc>>
      PROVE  Kept(a)'
  BY <1>x DEF Kept
<1>q. ASSUME UNCHANGED <<code, bps, hit, plan, leftover, dangling>>, tool' = "frozen" => ~dangling,
             wpc' \notin {"hit", "tracing"}, wpc \notin {"hit", "tracing"}, wpc = "none" <=> wpc' = "none"
      PROVE  RecordsInv'
  <2>1. Pointed' = Pointed BY <1>q DEF Pointed
  <2> QED BY <1>i, <1>q, <2>1 DEF RecordsInv, Kept, Sites
<1>u. ASSUME UNCHANGED <<code, bps, hit, plan, leftover, dangling, wpc>>, tool' = "frozen" => ~dangling,
             wpc \in {"hit", "tracing"} => site'[cur'] = site[cur]
      PROVE  RecordsInv'
  <2>1. Pointed' = Pointed BY <1>u DEF Pointed
  <2> QED BY <1>i, <1>u, <2>1 DEF RecordsInv, Kept, Sites
<1>1. ASSUME NEW t \in Threads, FindHit(t) PROVE RecordsInv'
  <2>1. /\ UNCHANGED <<code, bps, hit, plan, leftover, dangling, site, tool>>
        /\ wpc = "poll" /\ wpc' = "hit" /\ cur' = t /\ ~dangling
        /\ site[t] # 0 /\ bps[site[t]].kind # "none" /\ bps[site[t]].armed
    BY <1>1 DEF FindHit, Polling, Known, targetVars, engineVars, debuggerHistory
  <2>2. Pointed' \subseteq Pointed \cup {site[t]} BY <2>1 DEF Pointed
  <2>3. ASSUME NEW a \in Sites, Kept(a) PROVE Kept(a)'
    <3>1. a = site[t] => bps[a].kind # "none" /\ bps[a].hw = 0
      BY <1>a, <2>1, <2>3, SoundRecord DEF Kept
    <3> QED BY <2>1, <2>2, <2>3, <3>1 DEF Kept
  <2> QED BY <1>w, <2>1, <2>3, <1>i
<1>2. ASSUME NEW t \in Threads, ForeignInt3(t) \/ OtherException(t) PROVE RecordsInv'
  BY <1>2, <1>q, <1>i DEF ForeignInt3, OtherException, Polling, targetVars, engineVars, debuggerHistory
<1>3. CASE HitTrace
  <2>1. /\ UNCHANGED <<code, bps, plan, leftover, dangling, site, tool, cur>>
        /\ wpc = "hit" /\ wpc' = "tracing" /\ hit' = site[cur]
    BY <1>3 DEF HitTrace, targetVars, debuggerHistory
  <2>2. Pointed' \subseteq Pointed BY <2>1 DEF Pointed
  <2>3. ASSUME NEW a \in Sites, Kept(a) PROVE Kept(a)' BY <1>p, <2>1, <2>2, <2>3
  <2> QED BY <1>i, <1>w, <2>1, <2>3
\* Taking a byte out keeps its site's record.
<1>d. ASSUME NEW a \in Sites, Kept(a), NEW S, code' = Disarm(S), bps' = Disarmed(S),
             Pointed' \subseteq Pointed, hit' = a => a \in S \/ (hit = a /\ wpc # "tracing")
      PROVE  Kept(a)'
  <2>1. /\ code'[a] = IF a \in S /\ bps[a].armed THEN bps[a].orig ELSE code[a]
        /\ bps'[a] = IF a \in S THEN [bps[a] EXCEPT !.armed = FALSE] ELSE bps[a]
    BY <1>a, <1>d, DisarmFacts
  <2>2. Sound(bps[a], code[a]) BY <1>d DEF Kept
  <2>3. CASE a \in S
    <3>1. code'[a] = "orig" BY <1>a, <2>1, <2>2, <2>3, SoundRecord
    <3>2. bps'[a] = [bps[a] EXCEPT !.armed = FALSE] BY <2>1, <2>3
    <3>3. Sound(bps'[a], code'[a]) BY <1>a, <2>2, <3>1, <3>2, SoundRecord
    <3>4. bps'[a].kind = bps[a].kind /\ bps'[a].hw = bps[a].hw /\ bps'[a].armed = FALSE
      BY <1>a, <3>2, RecordShapes
    <3> QED BY <1>d, <3>3, <3>4 DEF Kept
  <2>4. CASE a \notin S
    <3>1. code'[a] = code[a] /\ bps'[a] = bps[a] BY <2>1, <2>4
    <3> QED BY <1>d, <2>4, <3>1 DEF Kept
  <2> QED BY <2>3, <2>4
<1>4. CASE TraceRelease \/ HitStop
  <2>1. /\ UNCHANGED <<plan, leftover, dangling, site, tool, cur>>
        /\ wpc \in {"hit", "tracing"} /\ wpc' \in {"poll", "pausing"} /\ hit' \in {hit, site[cur]}
        /\ wpc = "tracing" => hit' = hit
        /\ wpc = "hit" => hit' = site[cur]
        /\ code' = Disarm({site[cur]}) /\ bps' = Disarmed({site[cur]})
    BY <1>4 DEF TraceRelease, HitStop, debuggerHistory
  <2>2. hit' = site[cur] BY <1>i, <2>1
  <2>3. Pointed' \subseteq Pointed BY <2>1, <2>2 DEF Pointed
  <2>4. ASSUME NEW a \in Sites, Kept(a) PROVE Kept(a)' BY <1>d, <2>1, <2>2, <2>3, <2>4
  <2> QED BY <1>i, <1>w, <2>1, <2>4
<1>5. ASSUME NEW t \in Threads, TempLanding(t) PROVE RecordsInv'
  <2>1. /\ UNCHANGED <<hit, plan, leftover, dangling, site, tool>> /\ wpc = "poll" /\ wpc' = "pausing"
        /\ code' = Disarm({site[t]}) /\ bps' = [bps EXCEPT ![site[t]] = NoBp]
        /\ plan = Plan("temp_breakpoint", site[t])
    BY <1>5 DEF TempLanding, Polling, IsTemp, debuggerHistory
  <2>2. plan.kind = "temp_breakpoint" /\ plan.addr = site[t] BY <2>1 DEF Plan
  <2>3. site[t] \in StepSites BY <1>i, <2>2
  <2>4. Pointed' = Pointed BY <2>1 DEF Pointed
  <2>5. ASSUME NEW a \in Sites, Kept(a) PROVE Kept(a)'
    <3>1. a # site[t] BY <1>a, <2>3
    <3>2. code'[a] = code[a] /\ bps'[a] = bps[a] BY <1>a, <1>t, <2>1, <3>1, DisarmFacts
    <3> QED BY <2>1, <2>4, <2>5, <3>2 DEF Kept
  <2> QED BY <1>i, <1>w, <2>1, <2>5
\* Putting the breakpoint that was hit back keeps every site's record.
<1>h. ASSUME NEW a \in Sites, Kept(a), wpc # "tracing"
      PROVE  Sound(RehitBps[a], RehitCode[a])
  <2>1. CASE a # hit BY <1>a, <1>h, <2>1, RehitFacts DEF Kept
  <2>2. CASE a = hit
    <3>1. a \in Pointed BY <1>a, <2>2 DEF Pointed
    <3>2. Sound(bps[a], code[a]) /\ bps[a].kind # "none" /\ bps[a].hw = 0 /\ ~bps[a].armed
      BY <1>h, <2>2, <3>1 DEF Kept
    <3>3. code[a] = "orig" BY <1>a, <3>2, SoundRecord
    <3>4. CASE bps[a].once BY <1>a, <2>2, <3>3, <3>4, RehitFacts, SoundFacts
    <3>5. CASE ~bps[a].once
      <4>1. RehitCode[a] = "cc" /\ RehitBps[a] = Armed(bps[a], "orig")
        BY <1>a, <2>2, <3>2, <3>3, <3>5, RehitFacts
      <4> QED BY <1>a, <3>2, <4>1, SoundRecord
    <3> QED BY <3>4, <3>5
  <2> QED BY <2>1, <2>2
<1>7. CASE Pause \/ PauseFreeze \/ EvalWait \/ Sleep \/ WaitTimeout \/ Thaw \/ WorkerQuit \/ TargetExited
  <2>1. /\ UNCHANGED <<code, bps, hit, plan, leftover, dangling, tool>>
        /\ wpc \in {"pausing", "freezing", "paused", "eval", "asleep", "thawing", "poll"}
        /\ wpc' \in {"freezing", "paused", "eval", "asleep", "poll", "done"}
    BY <1>7 DEF Pause, PauseFreeze, EvalWait, Sleep, WaitTimeout, Thaw, WorkerQuit, TargetExited,
                targetVars, engineVars, debuggerHistory
  <2> QED BY <1>i, <1>q, <2>1
<1>8. CASE Resume
  <2>1. /\ UNCHANGED <<plan, leftover, tool, cur, site, mu>> /\ ~dangling /\ mu = "free"
        /\ wpc = "paused" /\ wpc' \in {"thawing", "poll"}
    BY <1>8 DEF Resume
  <2>2. tool # "frozen" BY <2>1 DEF ControlInv
  <2>3. ASSUME \A a \in Sites : ~dangling' /\ Kept(a) => Kept(a)' PROVE RecordsInv'
    BY <1>w, <2>1, <2>2, <2>3
  <2>4. CASE plan.kind = "trap_flag"
    <3>1. UNCHANGED <<code, bps, hit>> BY <1>8, <2>4 DEF Resume
    <3>2. Pointed' \subseteq Pointed BY <2>1, <3>1 DEF Pointed
    <3>3. ASSUME NEW a \in Sites, Kept(a) PROVE Kept(a)' BY <2>1, <3>1, <3>2, <3>3 DEF Kept
    <3> QED BY <2>3, <3>3
  <2>5. CASE plan.kind # "trap_flag"
    <3>1. hit' = 0 BY <1>8, <2>5 DEF Resume
    <3>2. Pointed' = {} BY <2>1, <3>1 DEF Pointed
    <3>3. ASSUME NEW a \in Sites PROVE code'[a] = RehitCode[a] /\ bps'[a] = RehitBps[a]
      <4>1. CASE plan.kind = "temp_breakpoint"
        <5>1. /\ bps' = IF Known(plan.addr) THEN RehitBps
                        ELSE [RehitBps EXCEPT ![plan.addr] = Bp("temp", 0, code[plan.addr], FALSE)]
              /\ code' = [RehitCode EXCEPT ![plan.addr] = "cc"]
          BY <1>8, <4>1 DEF Resume
        <5>2. a # plan.addr BY <1>a, <1>i, <4>1
        <5> QED BY <1>a, <5>1, <5>2, RehitFacts
      <4>2. CASE plan.kind # "temp_breakpoint"
        <5>1. code' = RehitCode /\ bps' = RehitBps BY <1>8, <2>5, <4>2 DEF Resume, Rehit
        <5> QED BY <5>1
      <4> QED BY <4>1, <4>2
    <3>4. ASSUME NEW a \in Sites, Kept(a) PROVE Kept(a)'
      <4>1. Sound(RehitBps[a], RehitCode[a]) BY <1>h, <2>1, <3>4
      <4> QED BY <1>a, <3>1, <3>2, <3>3, <4>1 DEF Kept
    <3> QED BY <2>3, <3>4
  <2> QED BY <2>4, <2>5
<1>9. ASSUME NEW m \in Modes, Attach(m) PROVE RecordsInv'
  <2>1. /\ UNCHANGED <<code, bps, hit, plan, tool>> /\ wpc = "none" /\ wpc' = "poll" /\ tool = "rest"
        /\ leftover' = {a \in Addrs : code[a] = "cc"}
    BY <1>9 DEF Attach
  <2>2. hit = 0 /\ \A a \in Addrs : bps[a] = NoBp BY <1>i, <2>1
  <2>3. Pointed' = {} BY <2>1, <2>2 DEF Pointed
  <2>4. ASSUME NEW a \in Sites' PROVE Kept(a)'
    <3>1. a \in Addrs /\ a # 0 /\ a \notin leftover' BY DebuggerConstants DEF Sites, Addrs
    <3>2. code[a] = "orig" BY <1>t, <2>1, <3>1
    <3>3. bps'[a] = NoBp /\ code'[a] = "orig" BY <2>1, <2>2, <3>1, <3>2
    <3> QED BY <2>1, <2>2, <2>3, <3>1, <3>3, SoundFacts DEF Kept
  <2> QED BY <1>i, <2>1, <2>4 DEF RecordsInv
<1>10. CASE FreezeForEdit
  <2>1. UNCHANGED <<code, bps, hit, plan, leftover, dangling, wpc, site, cur>> /\ ~dangling
    BY <1>10 DEF FreezeForEdit, Editing, Idle, debuggerHistory
  <2> QED BY <1>u, <2>1
\* An edit is made while the pointers are good and a session is on.
<1>e. Flipping \/ Editing => ~dangling /\ wpc # "none"
  BY <1>i, <1>n DEF Flipping, Editing, Idle
<1>11. ASSUME NEW a \in BpAddrs, SetSwBreakpoint(a) PROVE RecordsInv'
  <2>1. /\ UNCHANGED <<wpc, cur, site, hit, leftover, plan>> /\ Flipping /\ ~Known(a) /\ tool' = "rest"
        /\ bps' = [bps EXCEPT ![a] = Bp("stop", 0, code[a], TRUE)] /\ code' = [code EXCEPT ![a] = "cc"]
    BY <1>11 DEF SetSwBreakpoint, NewSite, EndFlip
  <2>2. Pointed' = Pointed BY <2>1 DEF Pointed
  <2>3. ASSUME NEW b \in Sites PROVE Kept(b)'
    <3>1. Kept(b) BY <1>e, <1>i, <2>1
    <3>2. CASE b # a
      <4>1. code'[b] = code[b] /\ bps'[b] = bps[b] BY <1>a, <1>t, <2>1, <3>2
      <4>2. UNCHANGED <<hit, wpc>> BY <2>1
      <4> QED BY <1>x, <2>2, <3>1, <4>1, <4>2
    <3>3. CASE b = a
      <4>1. bps[a].kind = "none" BY <1>a, <2>1, <3>3 DEF Known
      <4>2. a \notin Pointed /\ hit # a BY <1>a, <3>1, <3>3, <4>1 DEF Kept, Pointed
      <4>3. code[a] = "orig" BY <1>a, <3>1, <3>3, <4>1, SoundRecord DEF Kept
      <4>4. bps'[a] = Bp("stop", 0, "orig", TRUE) /\ code'[a] = "cc" BY <1>a, <1>t, <2>1, <3>3, <4>3
      <4> QED BY <2>1, <2>2, <3>3, <4>2, <4>4, SoundFacts DEF Kept
    <3> QED BY <3>2, <3>3
  <2> QED BY <1>e, <1>v, <2>1, <2>3
<1>12. ASSUME NEW a \in BpAddrs, NEW k \in Kinds, NEW o \in BOOLEAN, ConfigureBreakpoint(a, k, o)
       PROVE  RecordsInv'
  <2>1. /\ UNCHANGED <<code, dangling, wpc, cur, site, hit, leftover, plan, tool>> /\ ~dangling /\ dbg # "idle"
        /\ bps' = [bps EXCEPT ![a].kind = k, ![a].once = o]
    BY <1>12 DEF ConfigureBreakpoint, Idle, targetVars, actorVars, debuggerHistory
  <2>2. Pointed' = Pointed BY <2>1 DEF Pointed
  <2>3. ASSUME NEW b \in Sites PROVE Kept(b)'
    <3>1. Kept(b) BY <1>i, <1>n, <2>1
    <3>2. CASE b # a
      <4>1. code'[b] = code[b] /\ bps'[b] = bps[b] BY <1>a, <1>t, <2>1, <3>2
      <4>2. UNCHANGED <<hit, wpc>> BY <2>1
      <4> QED BY <1>x, <2>2, <3>1, <4>1, <4>2
    <3>3. CASE b = a
      <4>1. bps'[a] = [bps[a] EXCEPT !.kind = k, !.once = o] /\ code'[a] = code[a] BY <1>a, <1>t, <2>1, <3>3
      <4>2. bps'[a].armed = bps[a].armed /\ bps'[a].hw = bps[a].hw /\ bps'[a].kind = k
        BY <1>a, <3>3, <4>1 DEF BpRecords
      <4>3. Sound(bps'[a], code'[a])
        <5>1. Sound(bps[a], code[a]) /\ a \in Addrs BY <1>a, <3>1, <3>3 DEF Kept
        <5>2. Sound([bps[a] EXCEPT !.kind = k, !.once = o], code[a]) BY <5>1, SoundRecord
        <5> QED BY <4>1, <5>2
      <4>4. k # "none" BY DEF Kinds
      <4>5. UNCHANGED <<hit, wpc>> BY <2>1
      <4> QED BY <2>2, <3>1, <3>3, <4>2, <4>3, <4>4, <4>5 DEF Kept
    <3> QED BY <3>2, <3>3
  <2> QED BY <1>n, <1>v, <2>1, <2>3
<1>13. ASSUME NEW a \in BpAddrs, SetHwBreakpoint(a) PROVE RecordsInv'
  <2>1. /\ UNCHANGED <<code, wpc, cur, site, hit, leftover, plan, tool>> /\ Editing /\ ~Known(a)
        /\ \E s \in HwSlots : bps' = [bps EXCEPT ![a] = Bp("stop", s, "cc", FALSE)]
    BY <1>13 DEF SetHwBreakpoint, NewSite, actorVars
  <2>2. Pointed' = Pointed /\ tool = "rest" BY <2>1 DEF Pointed, Editing, Idle
  <2>3. ASSUME NEW b \in Sites PROVE Kept(b)'
    <3>1. Kept(b) BY <1>e, <1>i, <2>1
    <3>2. CASE b # a
      <4>1. code'[b] = code[b] /\ bps'[b] = bps[b] BY <1>a, <1>t, <2>1, <3>2
      <4>2. UNCHANGED <<hit, wpc>> BY <2>1
      <4> QED BY <1>x, <2>2, <3>1, <4>1, <4>2
    <3>3. CASE b = a
      <4>1. bps[a].kind = "none" BY <1>a, <2>1, <3>3 DEF Known
      <4>2. a \notin Pointed /\ hit # a BY <1>a, <3>1, <3>3, <4>1 DEF Kept, Pointed
      <4>3. code[a] = "orig" BY <1>a, <3>1, <3>3, <4>1, SoundRecord DEF Kept
      <4>4. \E s \in HwSlots : bps'[a] = Bp("stop", s, "cc", FALSE) BY <1>a, <1>t, <2>1, <3>3
      <4> QED BY <2>1, <2>2, <3>3, <4>2, <4>3, <4>4, SoundFacts DEF Kept
    <3> QED BY <3>2, <3>3
  <2> QED BY <1>e, <1>v, <2>1, <2>2, <2>3
<1>14. ASSUME NEW a \in BpAddrs, ClearBreakpoint(a) PROVE RecordsInv'
  <2>1. /\ UNCHANGED <<wpc, cur, site, hit, leftover, plan>> /\ bps' = [bps EXCEPT ![a] = NoBp]
        /\ Edit(a)
    BY <1>14 DEF ClearBreakpoint
  <2>2. \/ bps[a].hw # 0 /\ Editing /\ code' = code /\ tool' = tool
        \/ bps[a].hw = 0 /\ Flipping /\ code' = Disarm({a}) /\ tool' = "rest"
    BY <1>14 DEF ClearBreakpoint, EndFlip
  <2>3. Pointed' = Pointed /\ tool' # "frozen" BY <2>1, <2>2 DEF Pointed, Editing, Idle
  <2>4. a \in Pointed => dangling' BY <2>1 DEF Edit
  <2>5. ASSUME NEW b \in Sites, ~dangling' PROVE Kept(b)'
    <3>1. Kept(b) BY <1>e, <1>i, <2>1, <2>2
    <3>2. CASE b # a
      <4>1. code'[b] = code[b] /\ bps'[b] = bps[b] BY <1>a, <1>t, <2>1, <2>2, <3>2, DisarmFacts
      <4>2. UNCHANGED <<hit, wpc>> BY <2>1
      <4> QED BY <1>x, <2>3, <3>1, <4>1, <4>2
    <3>3. CASE b = a
      <4>1. a \notin Pointed /\ hit # a BY <1>a, <2>4, <2>5, <3>3 DEF Pointed
      <4>2. Sound(bps[a], code[a]) /\ a \in Addrs /\ bps[a] \in BpRecords /\ code[a] \in {"orig", "cc"}
        BY <1>a, <3>1, <3>3 DEF Kept
      <4>3. code'[a] = "orig"
        <5>1. CASE bps[a].hw # 0
          <6>1. ~bps[a].armed BY <4>2, <5>1 DEF Sound
          <6>2. code[a] = "orig" BY <4>2, <6>1, SoundRecord
          <6> QED BY <2>2, <5>1, <6>2
        <5>2. CASE bps[a].hw = 0
          <6>1. code'[a] = IF bps[a].armed THEN bps[a].orig ELSE code[a] BY <2>2, <4>2, <5>2, DisarmFacts
          <6>2. CASE bps[a].armed
            <7>1. bps[a].orig = "orig" BY <4>2, <6>2 DEF Sound
            <7> QED BY <6>1, <6>2, <7>1
          <6>3. CASE ~bps[a].armed
            <7>1. code[a] = "orig" BY <4>2, <6>3, SoundRecord
            <7> QED BY <6>1, <6>3, <7>1
          <6> QED BY <6>2, <6>3
        <5> QED BY <5>1, <5>2
      <4>4. bps'[a] = NoBp BY <1>t, <2>1, <4>2
      <4> QED BY <2>1, <2>3, <3>3, <4>1, <4>3, <4>4, SoundFacts DEF Kept
    <3> QED BY <3>2, <3>3
  <2> QED BY <1>e, <1>v, <2>1, <2>2, <2>3, <2>5
<1>15. ASSUME NEW c \in Commands, RequestResume(c) PROVE RecordsInv'
  <2>1. /\ UNCHANGED <<code, bps, hit, leftover, dangling, site, cur, tool>> /\ plan' = Planned(c) /\ Notify
    BY <1>15 DEF RequestResume, targetVars
  <2>2. plan'.kind = "temp_breakpoint" => plan'.addr \in StepSites
    BY <2>1, PlannedFacts DEF BytesTyped
  <2>3. /\ wpc' \in {"hit", "tracing"} <=> wpc \in {"hit", "tracing"}
        /\ wpc' = "none" <=> wpc = "none"
        /\ wpc' = "tracing" <=> wpc = "tracing"
    BY <2>1 DEF Notify
  <2>4. Pointed' = Pointed BY <2>1, <2>3 DEF Pointed
  <2>5. ASSUME NEW a \in Sites, Kept(a) PROVE Kept(a)' BY <2>1, <2>3, <2>4, <2>5 DEF Kept
  <2>6. Sites' = Sites BY <2>1 DEF Sites
  <2> QED BY <1>i, <2>1, <2>2, <2>3, <2>5, <2>6 DEF RecordsInv
<1>16. CASE SuspendAll \/ ResumeAll \/ Die \/ UNCHANGED debuggerVars
  <2>1. UNCHANGED <<code, bps, hit, plan, leftover, dangling, wpc, site, cur, tool>>
    BY <1>16 DEF SuspendAll, ResumeAll, Die, debuggerVars, targetVars, engineVars, actorVars,
                 debuggerHistory
  <2> QED BY <1>i, <1>u, <2>1
<1>17. CASE DetachDisarm
  <2>1. /\ UNCHANGED <<hit, plan, leftover, dangling, wpc, site, cur>> /\ tool' = "quit" /\ ~dangling
        /\ code' = Disarm(SwBps) /\ bps' = Disarmed(SwBps) /\ (dbg # "idle" \/ wpc # "none")
    BY <1>17 DEF DetachDisarm, debuggerHistory
  <2>2. Pointed' = Pointed BY <2>1 DEF Pointed
  <2>3. ASSUME NEW a \in Sites PROVE Kept(a)'
    <3>1. Kept(a) BY <1>i, <1>n, <2>1
    <3>2. hit = a => a \in SwBps
      <4>1. hit = a => a \in Pointed BY <1>a DEF Pointed
      <4> QED BY <1>a, <3>1, <4>1 DEF Kept, SwBps
    <3> QED BY <1>d, <2>1, <2>2, <3>1, <3>2
  <2> QED BY <1>n, <1>v, <2>1, <2>3
<1>18. CASE DetachQuit
  <2>1. /\ UNCHANGED <<code, bps, hit, plan, leftover, dangling, site, cur>> /\ tool' = "join" /\ Notify
    BY <1>18 DEF DetachQuit, targetVars, debuggerHistory
  <2>2. CASE wpc = "asleep"
    <3>1. wpc' = "paused" BY <2>1, <2>2 DEF Notify
    <3> QED BY <1>q, <2>1, <2>2, <3>1
  <2>3. CASE wpc # "asleep"
    <3>1. wpc' = wpc BY <2>1, <2>3 DEF Notify
    <3> QED BY <1>u, <2>1, <3>1
  <2> QED BY <2>2, <2>3
<1>19. CASE DetachEnd
  <2>1. /\ UNCHANGED plan /\ wpc' = "none" /\ tool' = "rest" /\ hit' = 0 /\ bps' = [a \in Addrs |-> NoBp]
    BY <1>19 DEF DetachEnd
  <2> QED BY <1>i, <2>1 DEF RecordsInv
<1>20. ASSUME NEW t \in Threads, Execute(t) \/ ExecuteInt3(t) \/ DebugRegisterHit(t)
       PROVE  RecordsInv'
  <2>1. /\ UNCHANGED <<code, bps, hit, plan, leftover, dangling, wpc, cur, tool>> /\ trap[t] = "no"
        /\ site' = site \/ \E x : site' = [site EXCEPT ![t] = x]
    BY <1>20 DEF Execute, ExecuteInt3, DebugRegisterHit, CanRun, engineVars, actorVars, debuggerHistory
  <2>2. wpc \in {"hit", "tracing"} => cur # t BY <2>1 DEF ControlInv, Handling
  <2>3. wpc \in {"hit", "tracing"} => site'[cur'] = site[cur] BY <1>t, <2>1, <2>2
  <2> QED BY <1>i, <1>u, <2>1, <2>3
<1> QED
  BY <1>1, <1>2, <1>3, <1>4, <1>5, <1>7, <1>8, <1>9, <1>10, <1>11, <1>12, <1>13, <1>14,
     <1>15, <1>16, <1>17, <1>18, <1>19, <1>20
  DEF DebuggerNext, DebugWorker, DebugTool, Debuggee

DebuggerInv == ControlInv /\ BytesTyped /\ RecordsInv

\* A byte the session replaced can be put back: every int3 at a client's
\* breakpoint has a record that put the target's own byte aside, for any number of threads,
\* breakpoints, edits and sessions.
THEOREM TrapsAlwaysRecorded == DebuggerSpec => []TrapsAreRecorded
<1>1. DebuggerInit => DebuggerInv BY ControlInit, BytesInit, RecordsInit DEF DebuggerInv
<1>2. DebuggerInv /\ [DebuggerNext]_debuggerVars => DebuggerInv'
  BY ControlStep, BytesStep, RecordsStep DEF DebuggerInv
<1>3. DebuggerInv => TrapsAreRecorded BY RecordsTraps DEF DebuggerInv
<1> QED BY <1>1, <1>2, <1>3, PTL DEF DebuggerSpec

-----------------------------------------------------------------------------
(* The debugger: how often a thread can be suspended *)

\* The worker is about to freeze the target without the mutex.
Racing == {"hit", "tracing", "freezing"}

\* An edit that holds the freeze may yet be raced, or has been.
Spare == IF tool = "frozen" /\ wpc \notin Racing THEN 1 ELSE 0
FrozenOnce == IF frozen THEN 1 ELSE 0
HeldOnce == IF held THEN 1 ELSE 0
Suspensions == edits + Spare + FrozenOnce + HeldOnce

SuspendInv ==
  /\ edits \in Nat /\ edits <= MaxEdits /\ (tool = "frozen" => edits < MaxEdits)
  /\ susp \in [Threads -> Nat] /\ \A t \in Threads : susp[t] <= Suspensions

\* One call of the freeze or of the thaw.
FreezeStep ==
  /\ susp' \in [Threads -> Nat]
  /\ \/ (frozen' <=> frozen) /\ \A t \in Threads : susp'[t] <= susp[t]
     \/ ~frozen /\ frozen' /\ \A t \in Threads : susp'[t] <= susp[t] + 1
     \/ frozen /\ ~frozen' /\ \A t \in Threads : susp'[t] = 0 \/ susp'[t] + 1 <= susp[t]

LEMMA FreezeFacts ==
  ASSUME susp \in [Threads -> Nat]
  PROVE  /\ UNCHANGED <<frozen, susp>> => FreezeStep
         /\ \A ex : kfreeze_world(ex) => FreezeStep
         /\ kunfreeze_world => FreezeStep
<1>1. ASSUME UNCHANGED <<frozen, susp>> PROVE FreezeStep
  BY <1>1 DEF FreezeStep
<1>2. ASSUME NEW ex, kfreeze_world(ex) PROVE FreezeStep
  <2>1. CASE Stealth /\ ~frozen
    <3>1. frozen' /\ susp' = [t \in Threads |-> IF t \in ex THEN susp[t] ELSE susp[t] + 1]
      BY <1>2, <2>1 DEF kfreeze_world
    <3>2. susp' \in [Threads -> Nat] /\ \A t \in Threads : susp'[t] <= susp[t] + 1 BY <3>1
    <3> QED BY <2>1, <3>1, <3>2 DEF FreezeStep
  <2>2. CASE ~(Stealth /\ ~frozen) BY <1>1, <1>2, <2>2 DEF kfreeze_world
  <2> QED BY <2>1, <2>2
<1>4. ASSUME kunfreeze_world PROVE FreezeStep
  <2>1. CASE frozen
    <3>1. ~frozen' /\ susp' = [t \in Threads |-> IF susp[t] > 0 THEN susp[t] - 1 ELSE 0]
      BY <1>4, <2>1 DEF kunfreeze_world, Resumed
    <3>2. /\ susp' \in [Threads -> Nat]
          /\ \A t \in Threads : susp'[t] = 0 \/ susp'[t] + 1 <= susp[t]
      BY <3>1
    <3> QED BY <2>1, <3>1, <3>2 DEF FreezeStep
  <2>2. CASE ~frozen BY <1>1, <1>4, <2>2 DEF kunfreeze_world
  <2> QED BY <2>1, <2>2
<1> QED BY <1>1, <1>2, <1>4

LEMMA SuspendInit == DebuggerInit => SuspendInv
BY DebuggerConstants DEF DebuggerInit, SuspendInv, Suspensions, Spare, FrozenOnce, HeldOnce

\* Every step leaves a thread suspended at most once by the freeze, once by the
\* client and once for every edit that was raced.
LEMMA SuspendStep == ControlInv /\ SuspendInv /\ [DebuggerNext]_debuggerVars => SuspendInv'
<1> SUFFICES ASSUME ControlInv, SuspendInv, [DebuggerNext]_debuggerVars PROVE SuspendInv'
  OBVIOUS
<1> USE DebuggerConstants
<1>t. /\ edits \in Nat /\ edits <= MaxEdits /\ (tool = "frozen" => edits < MaxEdits)
      /\ susp \in [Threads -> Nat] /\ \A t \in Threads : susp[t] \in Nat /\ susp[t] <= Suspensions
  BY DEF SuspendInv
<1>m. mu = "tool" <=> tool = "frozen" BY DEF ControlInv
<1>s. /\ Spare \in Nat /\ Spare' \in Nat /\ Spare <= 1
      /\ FrozenOnce \in Nat /\ FrozenOnce' \in Nat /\ HeldOnce \in Nat /\ HeldOnce' \in Nat
  BY DEF Spare, FrozenOnce, HeldOnce
<1>f. ASSUME FreezeStep, UNCHANGED <<held, edits>>, tool' = "frozen" => edits < MaxEdits, Spare <= Spare'
      PROVE  SuspendInv'
  <2>1. Suspensions \in Nat /\ Suspensions' \in Nat BY <1>f, <1>t DEF Suspensions, Spare, FrozenOnce, HeldOnce
  <2>2. susp' \in [Threads -> Nat] BY <1>f DEF FreezeStep
  <2>3. ASSUME NEW t \in Threads PROVE susp'[t] <= Suspensions'
    <3>1. susp[t] \in Nat /\ susp'[t] \in Nat /\ susp[t] <= Suspensions BY <1>t, <2>2
    <3>2. CASE (frozen' <=> frozen) /\ susp'[t] <= susp[t]
      <4>1. Suspensions <= Suspensions' BY <1>f, <1>t, <3>2 DEF Suspensions, Spare, FrozenOnce, HeldOnce
      <4> QED BY <2>1, <3>1, <3>2, <4>1
    <3>3. CASE ~frozen /\ frozen' /\ susp'[t] <= susp[t] + 1
      <4>1. Suspensions + 1 <= Suspensions' BY <1>f, <1>t, <3>3 DEF Suspensions, Spare, FrozenOnce, HeldOnce
      <4> QED BY <2>1, <3>1, <3>3, <4>1
    <3>4. CASE frozen /\ ~frozen' /\ (susp'[t] = 0 \/ susp'[t] + 1 <= susp[t])
      <4>1. Suspensions <= Suspensions' + 1 BY <1>f, <1>t, <3>4 DEF Suspensions, Spare, FrozenOnce, HeldOnce
      <4> QED BY <2>1, <3>1, <3>4, <4>1
    <3> QED BY <1>f, <3>2, <3>3, <3>4 DEF FreezeStep
  <2> QED BY <1>f, <1>t, <2>2, <2>3 DEF SuspendInv
\* An edit counts whether it was raced or not.
<1>e. ASSUME FreezeStep, held' = held, edits' = edits + 1, edits < MaxEdits, tool' # "frozen"
      PROVE  SuspendInv'
  <2>1. Suspensions \in Nat /\ Suspensions' \in Nat BY <1>e, <1>t DEF Suspensions, Spare, FrozenOnce, HeldOnce
  <2>2. susp' \in [Threads -> Nat] BY <1>e DEF FreezeStep
  <2>3. ASSUME NEW t \in Threads PROVE susp'[t] <= Suspensions'
    <3>1. susp[t] \in Nat /\ susp'[t] \in Nat /\ susp[t] <= Suspensions BY <1>t, <2>2
    <3>2. CASE (frozen' <=> frozen) /\ susp'[t] <= susp[t]
      <4>1. Suspensions <= Suspensions' BY <1>e, <1>t, <3>2 DEF Suspensions, Spare, FrozenOnce, HeldOnce
      <4> QED BY <2>1, <3>1, <3>2, <4>1
    <3>3. CASE ~frozen /\ frozen' /\ susp'[t] <= susp[t] + 1
      <4>1. Suspensions + 1 <= Suspensions' BY <1>e, <1>t, <3>3 DEF Suspensions, Spare, FrozenOnce, HeldOnce
      <4> QED BY <2>1, <3>1, <3>3, <4>1
    <3>4. CASE frozen /\ ~frozen' /\ (susp'[t] = 0 \/ susp'[t] + 1 <= susp[t])
      <4>1. Suspensions <= Suspensions' + 1 BY <1>e, <1>t, <3>4 DEF Suspensions, Spare, FrozenOnce, HeldOnce
      <4> QED BY <2>1, <3>1, <3>4, <4>1
    <3> QED BY <1>e, <3>2, <3>3, <3>4 DEF FreezeStep
  <2> QED BY <1>e, <1>t, <2>2, <2>3 DEF SuspendInv
<1>u. ASSUME UNCHANGED <<susp, frozen, held, edits>>, tool' = "frozen" => edits < MaxEdits, Spare <= Spare'
      PROVE  SuspendInv'
  BY <1>f, <1>t, <1>u, FreezeFacts
<1>z. tool # "frozen" => Spare = 0 BY DEF Spare
<1>1. ASSUME NEW t \in Threads, FindHit(t) \/ ForeignInt3(t) \/ OtherException(t) PROVE SuspendInv'
  <2>1. UNCHANGED <<susp, frozen, held, edits, tool>> /\ mu = "free"
    BY <1>1 DEF FindHit, ForeignInt3, OtherException, targetVars, engineVars, debuggerHistory
  <2> QED BY <1>m, <1>s, <1>t, <1>u, <1>z, <2>1
<1>2. CASE HitTrace \/ Pause \/ EvalWait \/ Resume
  <2>1. UNCHANGED <<susp, frozen, held, edits, tool>> /\ mu = "free"
    BY <1>2 DEF HitTrace, Pause, EvalWait, Resume, targetVars, engineVars, debuggerHistory
  <2> QED BY <1>m, <1>s, <1>t, <1>u, <1>z, <2>1
<1>3. ASSUME NEW t \in Threads, TempLanding(t) PROVE SuspendInv'
  <2>1. UNCHANGED <<held, edits, tool>> /\ mu = "free" /\ kfreeze_world({})
    BY <1>3 DEF TempLanding, debuggerHistory
  <2>3. FreezeStep BY <1>t, <2>1, FreezeFacts
  <2> QED BY <1>f, <1>m, <1>s, <1>t, <1>z, <2>1, <2>3
<1>4. CASE TraceRelease \/ HitStop \/ PauseFreeze
  <2>1. /\ UNCHANGED <<held, edits, tool>> /\ wpc \in Racing /\ wpc' \notin Racing
        /\ \E ex : WorkerFreeze(ex)
    BY <1>4 DEF TraceRelease, HitStop, PauseFreeze, debuggerHistory, Racing
  <2>2. Spare = 0 BY <2>1 DEF Spare
  <2>3. ASSUME FreezeStep PROVE SuspendInv' BY <1>f, <1>s, <1>t, <2>1, <2>2, <2>3
  <2>4. CASE \E ex : kfreeze_world(ex) BY <1>t, <2>3, <2>4, FreezeFacts
  <2>5. ASSUME NEW ex, mu = "tool", frozen',
               susp' = [t \in Threads |-> IF t \in ex THEN susp[t] ELSE susp[t] + 1]
        PROVE  SuspendInv'
    <3>1. Spare' = 1 BY <1>m, <2>1, <2>5 DEF Spare
    <3>2. /\ susp' \in [Threads -> Nat]
          /\ \A t \in Threads : susp[t] \in Nat /\ susp'[t] \in Nat /\ susp'[t] <= susp[t] + 1
      BY <1>t, <2>5
    <3>3. Suspensions \in Nat /\ Suspensions' \in Nat /\ Suspensions + 1 <= Suspensions'
      BY <1>s, <1>t, <2>1, <2>2, <2>5, <3>1 DEF Suspensions, FrozenOnce, HeldOnce
    <3>4. \A t \in Threads : susp'[t] <= Suspensions' BY <1>t, <3>2, <3>3
    <3> QED BY <1>t, <2>1, <3>2, <3>4 DEF SuspendInv
  <2> QED BY <2>1, <2>4, <2>5 DEF WorkerFreeze
<1>5. CASE Sleep \/ WaitTimeout \/ WorkerQuit \/ TargetExited
  <2>1. UNCHANGED <<susp, frozen, held, edits, tool>> /\ wpc' \notin Racing
    BY <1>5 DEF Sleep, WaitTimeout, WorkerQuit, TargetExited, targetVars, engineVars,
                debuggerHistory, Racing
  <2>2. Spare <= Spare' BY <2>1 DEF Spare
  <2> QED BY <1>t, <1>u, <2>1, <2>2
<1>6. CASE Thaw
  <2>1. UNCHANGED <<held, edits, tool>> /\ wpc' \notin Racing /\ kunfreeze_world
    BY <1>6 DEF Thaw, debuggerHistory, Racing
  <2>2. Spare <= Spare' BY <2>1 DEF Spare
  <2> QED BY <1>f, <1>t, <2>1, <2>2, FreezeFacts
<1>7. ASSUME NEW m \in Modes, Attach(m) PROVE SuspendInv'
  <2>1. UNCHANGED <<susp, frozen, held, edits, tool>> /\ tool = "rest" BY <1>7 DEF Attach
  <2> QED BY <1>s, <1>t, <1>u, <1>z, <2>1
<1>8. CASE FreezeForEdit
  <2>1. UNCHANGED <<held, edits>> /\ tool = "rest" /\ edits < MaxEdits /\ kfreeze_world({})
    BY <1>8 DEF FreezeForEdit, Editing, Idle, debuggerHistory
  <2> QED BY <1>f, <1>s, <1>t, <1>z, <2>1, FreezeFacts
<1>9. ASSUME NEW a \in BpAddrs, SetSwBreakpoint(a) PROVE SuspendInv'
  <2>1. held' = held /\ edits' = edits + 1 /\ Flipping /\ tool' = "rest" /\ kunfreeze_world
    BY <1>9 DEF SetSwBreakpoint, Edit, EndFlip
  <2>2. edits < MaxEdits BY <2>1 DEF Flipping, Editing
  <2> QED BY <1>e, <1>t, <2>1, <2>2, FreezeFacts
<1>10. ASSUME NEW a \in BpAddrs, SetHwBreakpoint(a) PROVE SuspendInv'
  <2>1. /\ UNCHANGED <<susp, frozen, held, tool>> /\ edits' = edits + 1 /\ tool = "rest" /\ edits < MaxEdits
    BY <1>10 DEF SetHwBreakpoint, Edit, Editing, Idle, actorVars
  <2> QED BY <1>e, <1>t, <2>1, FreezeFacts
<1>11. ASSUME NEW a \in BpAddrs, ClearBreakpoint(a) PROVE SuspendInv'
  <2>1. held' = held /\ edits' = edits + 1 BY <1>11 DEF ClearBreakpoint, Edit
  <2>2. CASE bps[a].hw # 0
    <3>1. UNCHANGED <<susp, frozen, tool>> /\ tool = "rest" /\ edits < MaxEdits
      BY <1>11, <2>2 DEF ClearBreakpoint, Editing, Idle
    <3> QED BY <1>e, <1>t, <2>1, <3>1, FreezeFacts
  <2>3. CASE bps[a].hw = 0
    <3>1. Flipping /\ tool' = "rest" /\ kunfreeze_world BY <1>11, <2>3 DEF ClearBreakpoint, EndFlip
    <3>2. edits < MaxEdits BY <3>1 DEF Flipping, Editing
    <3> QED BY <1>e, <1>t, <2>1, <3>1, <3>2, FreezeFacts
  <2> QED BY <2>2, <2>3
<1>12. ASSUME NEW c \in Commands, RequestResume(c) PROVE SuspendInv'
  <2>1. UNCHANGED <<susp, frozen, held, edits, tool>> /\ Notify BY <1>12 DEF RequestResume, targetVars
  <2>2. Spare <= Spare' BY <2>1 DEF Spare, Notify, Racing
  <2> QED BY <1>t, <1>u, <2>1, <2>2
<1>13. CASE SuspendAll
  <2>1. /\ UNCHANGED <<frozen, edits, tool, wpc>> /\ ~held /\ held'
        /\ susp' = [t \in Threads |-> susp[t] + 1]
    BY <1>13 DEF SuspendAll, engineVars, actorVars
  <2>2. Spare' = Spare BY <2>1 DEF Spare
  <2>3. Suspensions \in Nat /\ Suspensions' = Suspensions + 1 BY <1>s, <1>t, <2>1, <2>2 DEF Suspensions, FrozenOnce, HeldOnce
  <2>4. susp' \in [Threads -> Nat] /\ \A t \in Threads : susp'[t] <= Suspensions'
    BY <1>t, <2>1, <2>3
  <2> QED BY <1>t, <2>1, <2>4 DEF SuspendInv
<1>14. CASE ResumeAll
  <2>1. /\ UNCHANGED <<frozen, edits, tool, wpc>> /\ held /\ ~held'
        /\ susp' = [t \in Threads |-> IF susp[t] > 0 THEN susp[t] - 1 ELSE 0]
    BY <1>14 DEF ResumeAll, Resumed, engineVars, actorVars
  <2>2. Spare' = Spare BY <2>1 DEF Spare
  <2>3. Suspensions' \in Nat /\ Suspensions = Suspensions' + 1 BY <1>s, <1>t, <2>1, <2>2 DEF Suspensions, FrozenOnce, HeldOnce
  <2>4. susp' \in [Threads -> Nat] /\ \A t \in Threads : susp'[t] <= Suspensions'
    BY <1>t, <2>1, <2>3
  <2> QED BY <1>t, <2>1, <2>4 DEF SuspendInv
<1>15. CASE DetachDisarm
  <2>1. UNCHANGED <<held, edits>> /\ tool = "rest" /\ tool' = "quit" /\ kfreeze_world({})
    BY <1>15 DEF DetachDisarm, debuggerHistory
  <2> QED BY <1>f, <1>s, <1>t, <1>z, <2>1, FreezeFacts
<1>16. CASE DetachQuit
  <2>1. UNCHANGED <<susp, frozen, held, edits>> /\ tool = "quit" /\ tool' = "join"
    BY <1>16 DEF DetachQuit, targetVars, debuggerHistory
  <2> QED BY <1>s, <1>u, <1>z, <2>1
<1>17. CASE DetachEnd
  <2>1. UNCHANGED <<held, edits>> /\ tool = "join" /\ tool' = "rest" /\ kunfreeze_world
    BY <1>17 DEF DetachEnd, debuggerHistory
  <2> QED BY <1>f, <1>s, <1>t, <1>z, <2>1, FreezeFacts
<1>18. CASE Die \/ UNCHANGED debuggerVars
  <2>1. UNCHANGED <<susp, frozen, held, edits, tool, wpc>>
    BY <1>18 DEF Die, debuggerVars, targetVars, engineVars, actorVars, debuggerHistory
  <2>2. Spare <= Spare' BY <1>s, <2>1 DEF Spare
  <2> QED BY <1>t, <1>u, <2>1, <2>2
<1>19. ASSUME NEW t \in Threads, Execute(t) \/ ExecuteInt3(t) \/ DebugRegisterHit(t)
       PROVE  SuspendInv'
  <2>1. UNCHANGED <<susp, frozen, held, edits, tool, wpc>>
    BY <1>19 DEF Execute, ExecuteInt3, DebugRegisterHit, engineVars, actorVars, debuggerHistory
  <2>2. Spare <= Spare' BY <1>s, <2>1 DEF Spare
  <2> QED BY <1>t, <1>u, <2>1, <2>2
<1>20. ASSUME NEW a \in BpAddrs, NEW k \in Kinds, NEW o \in BOOLEAN, ConfigureBreakpoint(a, k, o)
       PROVE  SuspendInv'
  <2>1. UNCHANGED <<susp, frozen, held, edits, tool, wpc>>
    BY <1>20 DEF ConfigureBreakpoint, targetVars, actorVars, debuggerHistory
  <2>2. Spare <= Spare' BY <1>s, <2>1 DEF Spare
  <2> QED BY <1>t, <1>u, <2>1, <2>2
<1> QED
  BY <1>1, <1>2, <1>3, <1>4, <1>5, <1>6, <1>7, <1>8, <1>9, <1>10, <1>11, <1>12, <1>13, <1>14,
     <1>15, <1>16, <1>17, <1>18, <1>19, <1>20
  DEF DebuggerNext, DebugWorker, DebugTool, Debuggee

-----------------------------------------------------------------------------
(* The debugger: flags, and the type invariant *)

FlagsTyped ==
  /\ tf \in [Threads -> BOOLEAN] /\ alive \in BOOLEAN /\ mode \in Modes \cup {"idle"}
  /\ resume \in {"none", "apply_plan", "step_rearm"}
  /\ quit \in BOOLEAN /\ frozen \in BOOLEAN /\ held \in BOOLEAN /\ dangling \in BOOLEAN

LEMMA FlagsInit == DebuggerInit => FlagsTyped
BY DEF DebuggerInit, FlagsTyped

LEMMA FlagsStep == FlagsTyped /\ [DebuggerNext]_debuggerVars => FlagsTyped'
<1> SUFFICES ASSUME FlagsTyped, [DebuggerNext]_debuggerVars PROVE FlagsTyped'
  OBVIOUS
<1>t. /\ tf \in [Threads -> BOOLEAN] /\ alive \in BOOLEAN /\ mode \in Modes \cup {"idle"}
      /\ resume \in {"none", "apply_plan", "step_rearm"}
      /\ quit \in BOOLEAN /\ frozen \in BOOLEAN /\ held \in BOOLEAN /\ dangling \in BOOLEAN
  BY DEF FlagsTyped
<1>f. /\ \A ex : kfreeze_world(ex) \/ WorkerFreeze(ex) => frozen' \in BOOLEAN
      /\ kunfreeze_world => frozen' \in BOOLEAN
  <2>1. ASSUME NEW ex, kfreeze_world(ex) \/ WorkerFreeze(ex)
        PROVE  frozen' = TRUE \/ frozen' = FALSE \/ frozen' = frozen
    BY <2>1 DEF kfreeze_world, WorkerFreeze
  <2>2. ASSUME kunfreeze_world PROVE frozen' = FALSE \/ frozen' = frozen
    BY <2>2 DEF kunfreeze_world
  <2> QED BY <1>t, <2>1, <2>2, Zenon
\* Steps that change at most the trap flags, the resume mode and the freeze.
<1>r. ASSUME UNCHANGED <<alive, mode, quit, held, dangling>>, tf' \in [Threads -> BOOLEAN],
             resume' \in {"none", "apply_plan", "step_rearm"}, frozen' \in BOOLEAN
      PROVE  FlagsTyped'
  BY <1>r, <1>t DEF FlagsTyped
<1>1. ASSUME NEW t \in Threads, FindHit(t) \/ ForeignInt3(t) \/ OtherException(t) PROVE FlagsTyped'
  <2>1. UNCHANGED <<tf, alive, mode, resume, quit, frozen, held, dangling>>
    BY <1>1 DEF FindHit, ForeignInt3, OtherException, targetVars, engineVars, debuggerHistory
  <2> QED BY <1>r, <1>t, <2>1
<1>2. CASE EvalWait \/ Sleep \/ WaitTimeout \/ UNCHANGED debuggerVars
  <2>1. UNCHANGED <<tf, alive, mode, resume, quit, frozen, held, dangling>>
    BY <1>2 DEF EvalWait, Sleep, WaitTimeout, debuggerVars, targetVars, engineVars, debuggerHistory
  <2> QED BY <1>r, <1>t, <2>1
<1>3. CASE HitTrace \/ Pause
  <2>1. /\ UNCHANGED <<tf, alive, mode, quit, frozen, held, dangling>>
        /\ resume' \in {"none", "step_rearm", resume}
    BY <1>3 DEF HitTrace, Pause, targetVars, debuggerHistory
  <2> QED BY <1>r, <1>t, <2>1
<1>6. CASE WorkerQuit
  <2>1. /\ UNCHANGED <<tf, mode, quit, frozen, held, dangling>>
        /\ resume' \in {"none", resume}
    BY <1>6 DEF WorkerQuit, debuggerHistory
  <2>2. alive' \in BOOLEAN BY <1>6, Zenon DEF WorkerQuit
  <2> QED BY <1>t, <2>1, <2>2 DEF FlagsTyped
<1>4. CASE TraceRelease \/ HitStop \/ PauseFreeze
  <2>1. /\ UNCHANGED <<alive, mode, resume, quit, held, dangling>>
        /\ tf' = tf \/ tf' = [tf EXCEPT ![cur] = TRUE]
        /\ \E ex : WorkerFreeze(ex)
    BY <1>4 DEF TraceRelease, HitStop, PauseFreeze, debuggerHistory
  <2>2. tf' \in [Threads -> BOOLEAN] BY <1>t, <2>1
  <2> QED BY <1>f, <1>r, <1>t, <2>1, <2>2
<1>5. ASSUME NEW t \in Threads, TempLanding(t) PROVE FlagsTyped'
  <2>1. UNCHANGED <<tf, alive, mode, resume, quit, held, dangling>> /\ kfreeze_world({})
    BY <1>5 DEF TempLanding, debuggerHistory
  <2> QED BY <1>f, <1>r, <1>t, <2>1
<1>7. CASE Resume
  <2>1. UNCHANGED <<mode, quit, frozen, held>> /\ dangling = FALSE BY <1>7, <1>t DEF Resume
  <2>2. /\ tf' = tf \/ tf' = [tf EXCEPT ![cur] = TRUE]
        /\ resume' \in {"none", "step_rearm"}
    BY <1>7 DEF Resume
  <2>3. alive' \in BOOLEAN BY <1>7, Zenon DEF Resume, LetGo, PassOn
  <2>4. dangling' \in BOOLEAN
    <3>1. dangling' = dangling \/ dangling' \in BOOLEAN \/ dangling' \in {FALSE} BY <1>7 DEF Resume
    <3> QED BY <1>t, <3>1, Zenon
  <2>5. tf' \in [Threads -> BOOLEAN] BY <1>t, <2>2
  <2> QED BY <1>t, <2>1, <2>2, <2>3, <2>4, <2>5 DEF FlagsTyped
<1>8. CASE Thaw
  <2>1. UNCHANGED <<tf, alive, mode, resume, quit, held, dangling>> /\ kunfreeze_world
    BY <1>8 DEF Thaw, debuggerHistory
  <2> QED BY <1>f, <1>r, <1>t, <2>1
<1>9. CASE TargetExited
  <2>1. UNCHANGED <<tf, alive, mode, resume, frozen, held, dangling>>
    BY <1>9 DEF TargetExited, targetVars, debuggerHistory
  <2>2. quit' \in BOOLEAN BY <1>9, Zenon DEF TargetExited
  <2> QED BY <1>t, <2>1, <2>2 DEF FlagsTyped
<1>10. ASSUME NEW m \in Modes, Attach(m) PROVE FlagsTyped'
  <2>1. /\ UNCHANGED <<tf, alive, resume, frozen, held, dangling>>
        /\ mode' = m /\ quit' = FALSE
    BY <1>10 DEF Attach
  <2> QED BY <1>t, <2>1 DEF FlagsTyped
<1>11. CASE FreezeForEdit \/ DetachDisarm
  <2>1. UNCHANGED <<tf, alive, mode, resume, quit, held, dangling>> /\ kfreeze_world({})
    BY <1>11 DEF FreezeForEdit, DetachDisarm, debuggerHistory
  <2> QED BY <1>f, <1>r, <1>t, <2>1
<1>e. ASSUME NEW a, Edit(a) PROVE dangling' \in BOOLEAN BY <1>e, Zenon DEF Edit
<1>12. ASSUME NEW a \in BpAddrs, SetSwBreakpoint(a) \/ SetHwBreakpoint(a) \/ ClearBreakpoint(a)
       PROVE  FlagsTyped'
  <2>1. /\ UNCHANGED <<tf, alive, mode, resume, quit, held>>
        /\ Edit(0) \/ Edit(a)
        /\ frozen' = frozen \/ kunfreeze_world
    BY <1>12 DEF SetSwBreakpoint, SetHwBreakpoint, ClearBreakpoint, EndFlip
  <2>2. dangling' \in BOOLEAN BY <1>e, <2>1
  <2>3. frozen' \in BOOLEAN BY <1>f, <1>t, <2>1
  <2> QED BY <1>t, <2>1, <2>2, <2>3 DEF FlagsTyped
<1>13. ASSUME NEW a \in BpAddrs, NEW k \in Kinds, NEW o \in BOOLEAN, ConfigureBreakpoint(a, k, o)
       PROVE  FlagsTyped'
  <2>1. UNCHANGED <<tf, alive, mode, resume, quit, frozen, held, dangling>>
    BY <1>13 DEF ConfigureBreakpoint, targetVars, debuggerHistory
  <2> QED BY <1>r, <1>t, <2>1
<1>14. ASSUME NEW c \in Commands, RequestResume(c) PROVE FlagsTyped'
  <2>1. UNCHANGED <<tf, alive, mode, quit, frozen, held, dangling>> /\ resume' = "apply_plan"
    BY <1>14 DEF RequestResume, targetVars
  <2> QED BY <1>r, <1>t, <2>1
<1>15. CASE SuspendAll \/ ResumeAll
  <2>1. /\ UNCHANGED <<tf, alive, mode, resume, quit, frozen, dangling>>
        /\ held' = TRUE \/ held' = FALSE
    BY <1>15 DEF SuspendAll, ResumeAll, engineVars
  <2> QED BY <1>t, <2>1 DEF FlagsTyped
<1>16. CASE DetachQuit
  <2>1. UNCHANGED <<tf, alive, mode, resume, frozen, held, dangling>> /\ quit' = TRUE
    BY <1>16 DEF DetachQuit, targetVars, debuggerHistory
  <2> QED BY <1>t, <2>1 DEF FlagsTyped
<1>17. CASE DetachEnd
  <2>1. /\ UNCHANGED <<alive, resume, quit, held, dangling>> /\ mode' = "idle"
        /\ kunfreeze_world
    BY <1>17 DEF DetachEnd, debuggerHistory
  <2>2. tf' \in [Threads -> BOOLEAN]
    <3>1. tf' = tf \/ tf' = [t \in Threads |-> tf[t] /\ trap[t] = "no"] BY <1>17, Zenon DEF DetachEnd
    <3>2. [t \in Threads |-> tf[t] /\ trap[t] = "no"] \in [Threads -> BOOLEAN] BY Zenon
    <3> QED BY <1>t, <3>1, <3>2, Zenon
  <2> QED BY <1>f, <1>t, <2>1, <2>2 DEF FlagsTyped
<1>18. ASSUME NEW t \in Threads, Execute(t) \/ ExecuteInt3(t) \/ DebugRegisterHit(t)
       PROVE  FlagsTyped'
  <2>1. /\ UNCHANGED <<alive, mode, resume, quit, frozen, held, dangling>>
        /\ tf' = tf \/ tf' = [tf EXCEPT ![t] = FALSE]
    BY <1>18 DEF Execute, ExecuteInt3, DebugRegisterHit, engineVars, debuggerHistory
  <2> QED BY <1>r, <1>t, <2>1
<1>19. CASE Die
  <2>1. /\ UNCHANGED <<tf, mode, resume, quit, frozen, held, dangling>> /\ alive' = FALSE
    BY <1>19 DEF Die, engineVars, debuggerHistory
  <2> QED BY <1>t, <2>1 DEF FlagsTyped
<1> QED
  BY <1>1, <1>2, <1>3, <1>4, <1>5, <1>6, <1>7, <1>8, <1>9, <1>10, <1>11, <1>12, <1>13, <1>14,
     <1>15, <1>16, <1>17, <1>18, <1>19
  DEF DebuggerNext, DebugWorker, DebugTool, Debuggee

DebuggerTyped == ControlInv /\ BytesTyped /\ SuspendInv /\ FlagsTyped

LEMMA DebuggerTypes == DebuggerTyped => DebuggerTypeOK
<1> SUFFICES ASSUME DebuggerTyped PROVE DebuggerTypeOK
  OBVIOUS
<1>1. edits \in 0 .. MaxEdits BY DebuggerConstants DEF DebuggerTyped, SuspendInv
<1>2. susp \in [Threads -> 0 .. SuspendLimit]
  <2>1. Suspensions <= SuspendLimit /\ SuspendLimit \in Nat /\ Suspensions \in Nat
    BY DEF DebuggerTyped, SuspendInv, Suspensions, SuspendLimit, Spare, FrozenOnce, HeldOnce
  <2>2. ASSUME NEW t \in Threads PROVE susp[t] \in 0 .. SuspendLimit
    <3>1. susp[t] \in Nat /\ susp[t] <= Suspensions BY DEF DebuggerTyped, SuspendInv
    <3> QED BY <2>1, <3>1
  <2> QED BY <2>2 DEF DebuggerTyped, SuspendInv
<1>3. ControlTyped /\ BytesTyped /\ FlagsTyped BY DEF DebuggerTyped, ControlInv
<1> QED BY <1>1, <1>2, <1>3
        DEF DebuggerTypeOK, ControlTyped, BytesTyped, FlagsTyped, WorkerPlaces, Handling, Parked

LEMMA DebuggerTypedInit == DebuggerInit => DebuggerTyped
BY ControlInit, BytesInit, SuspendInit, FlagsInit DEF DebuggerTyped

LEMMA DebuggerTypedStep == DebuggerTyped /\ [DebuggerNext]_debuggerVars => DebuggerTyped'
BY ControlStep, BytesStep, SuspendStep, FlagsStep DEF DebuggerTyped

-----------------------------------------------------------------------------
(* The scanner: what the helpers of its actions compute.                   *)

\* A finite set of things with an integer address has one of the highest.
LEMMA HighestAddress ==
  ASSUME NEW S, IsFiniteSet(S), S # {}, \A x \in S : x.addr \in Int
  PROVE  \E x \in S : \A y \in S : y.addr <= x.addr
<1> DEFINE Has(T) == T # {} => \E x \in T : \A y \in T : y.addr <= x.addr
           N == {n \in Nat : \A T \in SUBSET S : Cardinality(T) = n => Has(T)}
<1>1. 0 \in N
  <2> SUFFICES ASSUME NEW T \in SUBSET S, Cardinality(T) = 0 PROVE T = {}
    OBVIOUS
  <2>1. IsFiniteSet(T) BY FS_Subset
  <2> QED BY <2>1, FS_EmptySet
<1>2. ASSUME NEW n \in Nat, n \in N PROVE n + 1 \in N
  <2> SUFFICES ASSUME NEW T \in SUBSET S, Cardinality(T) = n + 1, T # {} PROVE Has(T)
    OBVIOUS
  <2>1. PICK z \in T : TRUE OBVIOUS
  <2> DEFINE U == T \ {z}
  <2>2. IsFiniteSet(T) BY FS_Subset
  <2>3. Cardinality(U) = n
    <3>1. Cardinality(T \ {z}) = Cardinality(T) - 1 BY <2>2, FS_RemoveElement, Zenon
    <3>2. n + 1 - 1 = n OBVIOUS
    <3> QED BY <3>1, <3>2
  <2>4. Has(U) BY <1>2, <2>3
  <2>5. CASE U = {}
    <3>1. \A y \in T : y = z BY <2>5
    <3>2. z.addr <= z.addr BY <2>1
    <3> QED BY <2>1, <3>1, <3>2
  <2>6. CASE U # {}
    <3>1. PICK x \in U : \A y \in U : y.addr <= x.addr BY <2>4, <2>6
    <3>2. x.addr \in Int /\ z.addr \in Int /\ x \in T BY <2>1, <3>1
    <3>3. CASE z.addr <= x.addr
      <4>1. \A y \in T : y.addr <= x.addr BY <3>1, <3>3
      <4> QED BY <3>2, <4>1
    <3>4. CASE ~ (z.addr <= x.addr)
      <4>1. \A y \in T : y.addr \in Int OBVIOUS
      <4>2. \A y \in U : y.addr <= z.addr BY <3>1, <3>2, <3>4, <4>1
      <4>3. z.addr <= z.addr BY <3>2
      <4>4. \A y \in T : y.addr <= z.addr BY <4>2, <4>3
      <4> QED BY <2>1, <4>4
    <3> QED BY <3>3, <3>4
  <2> QED BY <2>5, <2>6
<1> HIDE DEF N
<1>3. Nat \subseteq N BY <1>1, <1>2, SetInduction
<1>4. Cardinality(S) \in N BY <1>3, FS_CardinalityType
<1> QED BY <1>4 DEF N

\* q lists the elements of S by their address.
Sorted(S, q) ==
  /\ \A x \in S : \E k \in DOMAIN q : q[k] = x
  /\ \A k, m \in DOMAIN q : k < m => q[k].addr <= q[m].addr

\* A finite set can be sorted: its highest element goes behind the others.
LEMMA SortExists ==
  ASSUME NEW S, IsFiniteSet(S), \A x \in S : x.addr \in Int
  PROVE  \E q \in [1 .. Cardinality(S) -> S] : Sorted(S, q)
<1> DEFINE Has(T) == \E q \in [1 .. Cardinality(T) -> T] : Sorted(T, q)
           N == {n \in Nat : \A T \in SUBSET S : Cardinality(T) = n => Has(T)}
<1>1. 0 \in N
  <2> SUFFICES ASSUME NEW T \in SUBSET S, Cardinality(T) = 0 PROVE Has(T)
    OBVIOUS
  <2>1. IsFiniteSet(T) BY FS_Subset
  <2>2. T = {} BY <2>1, FS_EmptySet
  <2>3. 1 .. Cardinality(T) = {} OBVIOUS
  <2> DEFINE q == [k \in 1 .. Cardinality(T) |-> k]
  <2>4. q \in [1 .. Cardinality(T) -> T] BY <2>3
  <2>5. DOMAIN q = {} BY <2>3
  <2>6. Sorted(T, q) BY <2>2, <2>5 DEF Sorted
  <2> QED BY <2>4, <2>6
<1>2. ASSUME NEW n \in Nat, n \in N PROVE n + 1 \in N
  <2> SUFFICES ASSUME NEW T \in SUBSET S, Cardinality(T) = n + 1 PROVE Has(T)
    OBVIOUS
  <2>1. IsFiniteSet(T) BY FS_Subset
  <2>2. T # {} BY FS_EmptySet
  <2>3. PICK z \in T : \A y \in T : y.addr <= z.addr BY <2>1, <2>2, HighestAddress
  <2> DEFINE U == T \ {z}
  <2>4. Cardinality(U) = n
    <3>1. Cardinality(T \ {z}) = Cardinality(T) - 1 BY <2>1, FS_RemoveElement, Zenon
    <3>2. n + 1 - 1 = n OBVIOUS
    <3> QED BY <3>1, <3>2
  <2>5. Has(U) BY <1>2, <2>4
  <2>6. PICK p \in [1 .. n -> U] : Sorted(U, p) BY <2>4, <2>5
  <2> DEFINE q == [k \in 1 .. n + 1 |-> IF k <= n THEN p[k] ELSE z]
  <2>7. q \in [1 .. n + 1 -> T] BY <2>3, <2>6
  <2>8. /\ \A k \in 1 .. n : q[k] = p[k] /\ k \in 1 .. n + 1
        /\ q[n + 1] = z /\ n + 1 \in 1 .. n + 1 /\ DOMAIN q = 1 .. n + 1 /\ DOMAIN p = 1 .. n
    BY <2>6
  <2> HIDE DEF q
  <2>9. ASSUME NEW x \in T PROVE \E k \in DOMAIN q : q[k] = x
    <3>1. CASE x = z BY <2>8, <3>1
    <3>2. CASE x # z
      <4>1. PICK k \in 1 .. n : p[k] = x BY <2>6, <2>8, <3>2 DEF Sorted
      <4> QED BY <2>8, <4>1
    <3> QED BY <3>1, <3>2
  <2>10. ASSUME NEW k \in DOMAIN q, NEW m \in DOMAIN q, k < m PROVE q[k].addr <= q[m].addr
    <3>1. k \in 1 .. n /\ m \in 1 .. n + 1 BY <2>8, <2>10
    <3>2. CASE m \in 1 .. n BY <2>6, <2>8, <2>10, <3>1, <3>2 DEF Sorted
    <3>3. CASE m = n + 1
      <4>1. p[k] \in T BY <2>6, <3>1
      <4> QED BY <2>3, <2>8, <3>1, <3>3, <4>1
    <3> QED BY <3>1, <3>2, <3>3
  <2>11. Sorted(T, q) BY <2>9, <2>10 DEF Sorted
  <2> QED BY <2>7, <2>11
<1> HIDE DEF N
<1>3. Nat \subseteq N BY <1>1, <1>2, SetInduction
<1>4. Cardinality(S) \in N BY <1>3, FS_CardinalityType
<1> QED BY <1>4 DEF N

\* So InOrder is a listing of its argument.
LEMMA InOrderFacts ==
  ASSUME NEW S, IsFiniteSet(S), \A x \in S : x.addr \in Int
  PROVE  /\ Cardinality(S) \in Nat
         /\ InOrder(S) \in [1 .. Cardinality(S) -> S]
         /\ InOrder(S) \in Seq(S) /\ Len(InOrder(S)) = Cardinality(S)
         /\ \A x \in S : \E k \in 1 .. Cardinality(S) : InOrder(S)[k] = x
<1>1. Cardinality(S) \in Nat BY FS_CardinalityType
<1>2. /\ InOrder(S) \in [1 .. Cardinality(S) -> S]
      /\ Sorted(S, InOrder(S))
  <2>1. \E q \in [1 .. Cardinality(S) -> S] : Sorted(S, q) BY SortExists
  <2>2. InOrder(S) = CHOOSE q \in [1 .. Cardinality(S) -> S] : Sorted(S, q)
    BY DEF InOrder, Sorted
  <2> QED BY <2>1, <2>2
<1> QED BY <1>1, <1>2 DEF Sorted

\* The elements of a sequence are where the sequence's are.
LEMMA ElementOf == ASSUME NEW A, NEW s \in Seq(A), NEW k \in DOMAIN s PROVE s[k] \in A
  OBVIOUS

\* Every region lies in the modelled space, which ends where the last one does.
LEMMA RegionsInSpace ==
  \A k \in DOMAIN Regions : Bytes(Regions[k].base, Regions[k].size) \subseteq Space
<1> SUFFICES ASSUME NEW j \in DOMAIN Regions
             PROVE  Bytes(Regions[j].base, Regions[j].size) \subseteq Space
  OBVIOUS
<1> DEFINE end(k) == Regions[k].base + Regions[k].size
           E == {[addr |-> end(k)] : k \in DOMAIN Regions}
           f == [k \in 1 .. Len(Regions) |-> [addr |-> end(k)]]
<1>1. /\ Regions \in Seq([base : Nat, size : Nat \ {0}])
      /\ DOMAIN Regions = 1 .. Len(Regions) /\ Len(Regions) \in Nat
  BY ScannerConstants
<1>2. \A k \in DOMAIN Regions : /\ end(k) \in Int
                                /\ Regions[k].base \in Int /\ Regions[k].size \in Int
                                /\ Regions[k].base >= 0
  <2>1. \A k \in DOMAIN Regions : Regions[k] \in [base : Nat, size : Nat \ {0}]
    BY <1>1, ElementOf
  <2> QED BY <2>1
<1>3. IsFiniteSet(E)
  <2>1. f \in Surjection(1 .. Len(Regions), E) BY <1>1 DEF Surjection
  <2>2. IsFiniteSet(1 .. Len(Regions)) BY <1>1, FS_Interval
  <2> QED BY <2>1, <2>2, FS_Surjection
<1>4. \A x \in E : x.addr \in Int BY <1>2
<1>5. E # {} OBVIOUS
<1>6. \E x \in E : \A y \in E : y.addr <= x.addr
  <2> HIDE DEF E
  <2> QED BY <1>3, <1>4, <1>5, HighestAddress
<1>7. PICK m \in DOMAIN Regions : \A k \in DOMAIN Regions : end(k) <= end(m)
  <2>1. PICK x \in E : \A y \in E : y.addr <= x.addr BY <1>6
  <2>2. PICK m \in DOMAIN Regions : x = [addr |-> end(m)] BY <2>1
  <2>3. x.addr = end(m) BY <2>2
  <2>4. ASSUME NEW k \in DOMAIN Regions PROVE end(k) <= end(m)
    <3>1. [addr |-> end(k)] \in E OBVIOUS
    <3>2. [addr |-> end(k)].addr <= x.addr BY <2>1, <3>1
    <3> QED BY <2>3, <3>2
  <2> QED BY <2>4
<1> DEFINE top == CHOOSE e \in Ends : \A g \in Ends : g <= e
<1>8. Ends = {end(k) : k \in DOMAIN Regions} BY DEF Ends
<1>9. \E e \in Ends : \A g \in Ends : g <= e BY <1>7, <1>8
<1>10. top \in Ends /\ \A g \in Ends : g <= top BY <1>9
<1>11. top \in Int /\ end(j) <= top
  <2> HIDE DEF top
  <2>1. end(j) \in Ends BY <1>8
  <2> QED BY <1>2, <1>8, <1>10, <2>1
<1>12. Space = 0 .. top - 1 BY DEF Space
<1> HIDE DEF top
<1> QED BY <1>2, <1>11, <1>12 DEF Bytes

\* An area a worker walks, and what a region leaves of itself after begin.
ScanArea ==
  {r \in [base : Nat, size : Nat \ {0}, chunk : Nat \ {0}, old : Seq({0, 1})] :
      Bytes(r.base, r.size) \subseteq Space}
Start0(r, begin) == IF r.base < begin THEN begin ELSE r.base
Clip(r, begin) == [base |-> Start0(r, begin), size |-> (r.base + r.size) - Start0(r, begin),
                   chunk |-> Chunk, old |-> <<>>]

LEMMA ClipFacts ==
  ASSUME NEW k \in DOMAIN Regions, NEW begin \in Nat, Regions[k].base + Regions[k].size > begin
  PROVE  Clip(Regions[k], begin) \in ScanArea
<1> DEFINE r == Regions[k]
           c == Clip(r, begin)
<1>1. r.base \in Nat /\ r.size \in Nat /\ r.size > 0 /\ Chunk \in Nat \ {0}
  <2>0. Regions \in Seq([base : Nat, size : Nat \ {0}]) BY ScannerConstants
  <2>1. Regions[k] \in [base : Nat, size : Nat \ {0}] BY <2>0, ElementOf
  <2> QED BY <2>1, ScannerConstants
<1>2. c.base \in Nat /\ c.size \in Nat \ {0} /\ c.base + c.size = r.base + r.size /\ r.base <= c.base
  BY <1>1 DEF Clip, Start0
<1>3. c \in [base : Nat, size : Nat \ {0}, chunk : Nat \ {0}, old : Seq({0, 1})]
  BY <1>1, <1>2 DEF Clip
<1>4. Bytes(c.base, c.size) \subseteq Bytes(r.base, r.size)
  <2> HIDE DEF c, r
  <2> QED BY <1>1, <1>2 DEF Bytes
<1>5. Bytes(r.base, r.size) \subseteq Space BY RegionsInSpace
<1> QED BY <1>3, <1>4, <1>5 DEF ScanArea

\* The function that the definition of filter_regions introduces, up to n.
FilterStep(begin, f, k) ==
  IF k = 0 THEN <<>>
  ELSE IF Regions[k].base + Regions[k].size > begin THEN Append(f[k - 1], Clip(Regions[k], begin))
  ELSE f[k - 1]
FilterOf(begin, f, n) == f = [k \in 0 .. n |-> FilterStep(begin, f, k)]

LEMMA FilterExists ==
  ASSUME NEW begin
  PROVE  \A n \in Nat : \E f : FilterOf(begin, f, n)
<1> DEFINE S == {n \in Nat : \E f : FilterOf(begin, f, n)}
<1>1. 0 \in S
  <2> DEFINE g == [k \in 0 .. 0 |-> <<>>]
  <2>1. g = [k \in 0 .. 0 |-> FilterStep(begin, g, k)] BY DEF FilterStep
  <2> QED BY <2>1 DEF FilterOf
<1>2. ASSUME NEW n \in Nat, n \in S PROVE n + 1 \in S
  <2>1. PICK f : FilterOf(begin, f, n) BY <1>2
  <2> DEFINE g == [k \in 0 .. n + 1 |-> IF k = n + 1 THEN FilterStep(begin, f, k) ELSE f[k]]
  <2>2. \A k \in 0 .. n + 1 : g[k] = FilterStep(begin, g, k)
    <3> SUFFICES ASSUME NEW k \in 0 .. n + 1 PROVE g[k] = FilterStep(begin, g, k)
      OBVIOUS
    <3>0. f = [i \in 0 .. n |-> FilterStep(begin, f, i)] BY <2>1 DEF FilterOf
    <3>1. CASE k = 0
      <4>1. k # n + 1 /\ k \in 0 .. n BY <3>1
      <4>2. g[k] = f[k] BY <4>1
      <4>3. f[k] = FilterStep(begin, f, k) BY <3>0, <4>1
      <4> QED BY <3>1, <4>2, <4>3 DEF FilterStep
    <3>2. CASE k # 0
      <4>1. k - 1 \in 0 .. n /\ k - 1 \in 0 .. n + 1 /\ k - 1 # n + 1 BY <3>2
      <4>2. g[k - 1] = f[k - 1] BY <4>1
      <4>3. FilterStep(begin, g, k) = FilterStep(begin, f, k) BY <4>2 DEF FilterStep
      <4>4. CASE k = n + 1 BY <4>3, <4>4
      <4>5. CASE k # n + 1
        <5>1. k \in 0 .. n BY <4>5
        <5>2. f[k] = FilterStep(begin, f, k) BY <3>0, <5>1
        <5> QED BY <4>3, <4>5, <5>2
      <4> QED BY <4>4, <4>5
    <3> QED BY <3>1, <3>2
  <2>3. g = [k \in 0 .. n + 1 |-> FilterStep(begin, g, k)]
    <3> HIDE DEF FilterStep
    <3> QED BY <2>2
  <2> HIDE DEF g
  <2> QED BY <2>3 DEF FilterOf
<1> HIDE DEF S
<1>3. Nat \subseteq S BY <1>1, <1>2, SetInduction
<1> QED BY <1>3 DEF S

\* The areas of a first scan.
LEMMA FilterFacts ==
  ASSUME NEW begin \in Nat
  PROVE  filter_regions(begin) \in Seq({r \in ScanArea : r.old = <<>>})
<1> DEFINE f == CHOOSE f : FilterOf(begin, f, Len(Regions))
           A == {r \in ScanArea : r.old = <<>>}
<1>1. Regions \in Seq([base : Nat, size : Nat \ {0}]) /\ Len(Regions) \in Nat
      /\ DOMAIN Regions = 1 .. Len(Regions)
  BY ScannerConstants
<1>2. FilterOf(begin, f, Len(Regions)) BY <1>1, FilterExists
<1>3. filter_regions(begin) = f[Len(Regions)]
  BY DEF filter_regions, FilterOf, FilterStep, Clip, Start0
<1> HIDE DEF f
<1>4. \A k \in 0 .. Len(Regions) : f[k] = FilterStep(begin, f, k)
  BY <1>2 DEF FilterOf
<1> DEFINE S == {n \in Nat : n <= Len(Regions) => f[n] \in Seq(A)}
<1>5. 0 \in S
  <2>1. 0 \in 0 .. Len(Regions) BY <1>1
  <2>2. f[0] = <<>> BY <1>4, <2>1 DEF FilterStep
  <2>3. f[0] \in Seq(A)
    <3> HIDE DEF A
    <3> QED BY <2>2
  <2> QED BY <2>3
<1>6. ASSUME NEW n \in Nat, n \in S PROVE n + 1 \in S
  <2> SUFFICES ASSUME n + 1 <= Len(Regions) PROVE f[n + 1] \in Seq(A)
    OBVIOUS
  <2>1. n + 1 \in 0 .. Len(Regions) /\ n + 1 # 0 /\ n + 1 - 1 = n /\ n <= Len(Regions)
        /\ n + 1 \in DOMAIN Regions
    BY <1>1
  <2>2. f[n] \in Seq(A) BY <1>6, <2>1
  <2>3. CASE Regions[n + 1].base + Regions[n + 1].size > begin
    <3>1. f[n + 1] = Append(f[n], Clip(Regions[n + 1], begin))
      <4>1. f[n + 1] = FilterStep(begin, f, n + 1) BY <1>4, <2>1
      <4> QED BY <2>1, <2>3, <4>1 DEF FilterStep
    <3>2. Clip(Regions[n + 1], begin) \in A BY <2>1, <2>3, ClipFacts DEF Clip
    <3> HIDE DEF A
    <3> QED BY <2>2, <3>1, <3>2
  <2>4. CASE ~ (Regions[n + 1].base + Regions[n + 1].size > begin)
    <3>1. f[n + 1] = FilterStep(begin, f, n + 1) BY <1>4, <2>1
    <3>2. f[n + 1] = f[n] BY <2>1, <2>4, <3>1 DEF FilterStep
    <3> HIDE DEF A
    <3> QED BY <2>2, <3>2
  <2> QED BY <2>3, <2>4
<1> HIDE DEF S
<1>7. Nat \subseteq S BY <1>5, <1>6, SetInduction
<1> QED BY <1>1, <1>3, <1>7 DEF S

\* The function that the definition of Flat introduces, up to worker n.
FlatStep(f, k) == IF k = 0 THEN <<>> ELSE f[k - 1] \o job[k].rows
FlatOf(f, n) == f = [k \in 0 .. n |-> FlatStep(f, k)]

LEMMA FlatExists == \A n \in Nat : \E f : FlatOf(f, n)
<1> DEFINE S == {n \in Nat : \E f : FlatOf(f, n)}
<1>1. 0 \in S
  <2> DEFINE g == [k \in 0 .. 0 |-> <<>>]
  <2>1. g = [k \in 0 .. 0 |-> FlatStep(g, k)] BY DEF FlatStep
  <2> QED BY <2>1 DEF FlatOf
<1>2. ASSUME NEW n \in Nat, n \in S PROVE n + 1 \in S
  <2>1. PICK f : FlatOf(f, n) BY <1>2
  <2> DEFINE g == [k \in 0 .. n + 1 |-> IF k = n + 1 THEN FlatStep(f, k) ELSE f[k]]
  <2>2. \A k \in 0 .. n + 1 : g[k] = FlatStep(g, k)
    <3> SUFFICES ASSUME NEW k \in 0 .. n + 1 PROVE g[k] = FlatStep(g, k)
      OBVIOUS
    <3>0. f = [i \in 0 .. n |-> FlatStep(f, i)] BY <2>1 DEF FlatOf
    <3>1. CASE k = 0
      <4>1. k # n + 1 /\ k \in 0 .. n BY <3>1
      <4>2. g[k] = f[k] BY <4>1
      <4>3. f[k] = FlatStep(f, k) BY <3>0, <4>1
      <4> QED BY <3>1, <4>2, <4>3 DEF FlatStep
    <3>2. CASE k # 0
      <4>1. k - 1 \in 0 .. n /\ k - 1 \in 0 .. n + 1 /\ k - 1 # n + 1 BY <3>2
      <4>2. g[k - 1] = f[k - 1] BY <4>1
      <4>3. FlatStep(g, k) = FlatStep(f, k) BY <4>2 DEF FlatStep
      <4>4. CASE k = n + 1 BY <4>3, <4>4
      <4>5. CASE k # n + 1
        <5>1. k \in 0 .. n BY <4>5
        <5>2. f[k] = FlatStep(f, k) BY <3>0, <5>1
        <5> QED BY <4>3, <4>5, <5>2
      <4> QED BY <4>4, <4>5
    <3> QED BY <3>1, <3>2
  <2>3. g = [k \in 0 .. n + 1 |-> FlatStep(g, k)]
    <3> HIDE DEF FlatStep
    <3> QED BY <2>2
  <2> HIDE DEF g
  <2> QED BY <2>3 DEF FlatOf
<1> HIDE DEF S
<1>3. Nat \subseteq S BY <1>1, <1>2, SetInduction
<1> QED BY <1>3 DEF S

\* c has the elements of s and of t and no other.
Gathers(c, s, t) ==
  /\ \A k \in DOMAIN c : (\E i \in DOMAIN s : c[k] = s[i]) \/ (\E i \in DOMAIN t : c[k] = t[i])
  /\ \A i \in DOMAIN s : \E k \in DOMAIN c : c[k] = s[i]
  /\ \A i \in DOMAIN t : \E k \in DOMAIN c : c[k] = t[i]

\* The elements of a concatenation are those of its parts.
LEMMA ConcatElements ==
  ASSUME NEW A, NEW s \in Seq(A), NEW t \in Seq(A)
  PROVE  s \o t \in Seq(A) /\ Gathers(s \o t, s, t)
<1> DEFINE c == s \o t
<1>1. /\ c \in Seq(A) /\ Len(c) = Len(s) + Len(t)
      /\ \A i \in 1 .. Len(s) : c[i] = s[i] /\ i \in 1 .. Len(c)
      /\ DOMAIN c = 1 .. Len(c) /\ DOMAIN s = 1 .. Len(s) /\ DOMAIN t = 1 .. Len(t)
      /\ Len(s) \in Nat /\ Len(t) \in Nat
  OBVIOUS
<1>2. \A i \in 1 .. Len(t) : c[Len(s) + i] = t[i] /\ Len(s) + i \in 1 .. Len(c)
  OBVIOUS
<1>3. \A k \in 1 .. Len(c) : k > Len(s) => c[k] = t[k - Len(s)] /\ k - Len(s) \in 1 .. Len(t)
  OBVIOUS
<1> HIDE DEF c
<1>4. ASSUME NEW k \in DOMAIN c
      PROVE  (\E i \in DOMAIN s : c[k] = s[i]) \/ (\E i \in DOMAIN t : c[k] = t[i])
  <2>1. CASE k <= Len(s)
    <3>1. k \in 1 .. Len(s) BY <1>1, <1>4, <2>1
    <3> QED BY <1>1, <3>1
  <2>2. CASE k > Len(s) BY <1>1, <1>3, <2>2
  <2> QED BY <1>1, <2>1, <2>2
<1>5. \A i \in DOMAIN s : \E k \in DOMAIN c : c[k] = s[i] BY <1>1
<1>6. \A i \in DOMAIN t : \E k \in DOMAIN c : c[k] = t[i] BY <1>1, <1>2
<1>7. Gathers(c, s, t) BY <1>4, <1>5, <1>6 DEF Gathers
<1> QED BY <1>1, <1>7 DEF c

\* What merge_workers gathers: the rows of the workers and nothing else.
LEMMA FlatFacts ==
  ASSUME NEW A, \A w \in Workers : job[w].rows \in Seq(A)
  PROVE  /\ Flat \in Seq(A)
         /\ \A k \in DOMAIN Flat :
               \E w \in Workers : \E i \in DOMAIN job[w].rows : Flat[k] = job[w].rows[i]
         /\ \A w \in Workers : \A i \in DOMAIN job[w].rows :
               \E k \in DOMAIN Flat : Flat[k] = job[w].rows[i]
<1> DEFINE N == Cardinality(Workers)
           f == CHOOSE f : FlatOf(f, N)
<1>1. N \in Nat /\ Workers = 1 .. N BY ScannerConstants, FS_CardinalityType
<1>2. FlatOf(f, N) BY <1>1, FlatExists
<1>3. Flat = f[N] BY DEF Flat, FlatOf, FlatStep
<1> HIDE DEF f, N
<1>4. \A k \in 0 .. N : f[k] = FlatStep(f, k) BY <1>2 DEF FlatOf
<1> DEFINE Good(n) ==
             /\ f[n] \in Seq(A)
             /\ \A k \in DOMAIN f[n] :
                   \E w \in 1 .. n : \E i \in DOMAIN job[w].rows : f[n][k] = job[w].rows[i]
             /\ \A w \in 1 .. n : \A i \in DOMAIN job[w].rows :
                   \E k \in DOMAIN f[n] : f[n][k] = job[w].rows[i]
           S == {n \in Nat : n <= N => Good(n)}
<1>5. 0 \in S
  <2>1. 0 \in 0 .. N BY <1>1
  <2>2. f[0] = <<>> BY <1>4, <2>1 DEF FlatStep
  <2>3. Good(0) BY <2>2
  <2> QED BY <2>3
<1>6. ASSUME NEW n \in Nat, n \in S PROVE n + 1 \in S
  <2> SUFFICES ASSUME n + 1 <= N PROVE Good(n + 1)
    OBVIOUS
  <2>1. n + 1 \in 0 .. N /\ n + 1 # 0 /\ (n + 1) - 1 = n /\ n <= N /\ n + 1 \in Workers
    BY <1>1
  <2>2. Good(n) BY <1>6, <2>1
  <2> DEFINE t == job[n + 1].rows
             g == f[n]
  <2>3. f[n + 1] = g \o t
    <3>1. f[n + 1] = FlatStep(f, n + 1) BY <1>4, <2>1
    <3>2. f[n + 1] = f[(n + 1) - 1] \o job[n + 1].rows BY <2>1, <3>1, Zenon DEF FlatStep
    <3> QED BY <2>1, <3>2, Zenon
  <2>4. t \in Seq(A) /\ g \in Seq(A) BY <2>1, <2>2
  <2>g. /\ \A k \in DOMAIN g :
              \E w \in 1 .. n : \E i \in DOMAIN job[w].rows : g[k] = job[w].rows[i]
        /\ \A w \in 1 .. n : \A i \in DOMAIN job[w].rows :
              \E k \in DOMAIN g : g[k] = job[w].rows[i]
    BY <2>2
  <2> HIDE DEF t, g
  <2> DEFINE c == g \o t
  <2>5. c \in Seq(A) /\ Gathers(c, g, t) BY <2>4, ConcatElements
  <2> HIDE DEF c
  <2>6. ASSUME NEW k \in DOMAIN c
        PROVE  \E w \in 1 .. n + 1 : \E i \in DOMAIN job[w].rows : c[k] = job[w].rows[i]
    <3>1. CASE \E i \in DOMAIN g : c[k] = g[i]
      <4>1. PICK i \in DOMAIN g : c[k] = g[i] BY <3>1
      <4>2. PICK w \in 1 .. n : \E m \in DOMAIN job[w].rows : g[i] = job[w].rows[m] BY <2>g
      <4>3. w \in 1 .. n + 1 OBVIOUS
      <4> QED BY <4>1, <4>2, <4>3
    <3>2. CASE \E i \in DOMAIN t : c[k] = t[i]
      <4>1. n + 1 \in 1 .. n + 1 OBVIOUS
      <4> QED BY <3>2, <4>1 DEF t
    <3> QED BY <2>5, <3>1, <3>2 DEF Gathers
  <2>7. ASSUME NEW w \in 1 .. n + 1, NEW i \in DOMAIN job[w].rows
        PROVE  \E k \in DOMAIN c : c[k] = job[w].rows[i]
    <3>1. CASE w = n + 1 BY <2>5, <3>1 DEF t, Gathers
    <3>2. CASE w # n + 1
      <4>1. w \in 1 .. n BY <3>2
      <4>2. PICK m \in DOMAIN g : g[m] = job[w].rows[i] BY <2>g, <4>1
      <4> QED BY <2>5, <4>2 DEF Gathers
    <3> QED BY <3>1, <3>2
  <2>8. f[n + 1] = c BY <2>3 DEF c
  <2> QED BY <2>5, <2>6, <2>7, <2>8
<1> HIDE DEF S
<1>7. Nat \subseteq S BY <1>5, <1>6, SetInduction
<1>8. Good(N)
  <2> HIDE DEF Good
  <2> QED BY <1>1, <1>7 DEF S
<1> QED BY <1>1, <1>3, <1>8

-----------------------------------------------------------------------------
(* The scanner: its types, and the truth of its rows.                      *)

ScanBits == [1 .. Slot -> {0, 1}]
ScanRow == {r \in [addr : Space, bits : ScanBits] : Bytes(r.addr, Slot) \subseteq Space}
ScanSeg == [addr : Nat, len : Nat \ {0}]
ScanCopy == {r \in [addr : Nat, old : Seq({0, 1}) \ {<<>>}] : Bytes(r.addr, Len(r.old)) \subseteq Space}
ScanJob == [area : Nat \ {0}, off : Nat, segs : Seq(ScanSeg), rows : Seq(ScanRow),
            copies : SUBSET ScanCopy, truncated : BOOLEAN, todo : SUBSET Nat, done : BOOLEAN]

\* What a worker holds, of the areas and the rows that are shared out.
JobOK(j) ==
  /\ j \in ScanJob /\ IsFiniteSet(j.copies) /\ j.todo \subseteq DOMAIN rows
  /\ j.off > 0 => j.area <= Len(areas)

ScanTyped ==
  /\ bytes \in [Space -> {0, 1}] /\ scan \in {"no", "values", "stash", "compare", "rows"}
  /\ areas \in Seq(ScanArea) /\ rows \in Seq(ScanRow)
  /\ job \in [Workers -> ScanJob] /\ \A w \in Workers : JobOK(job[w])
  /\ results \subseteq ScanRow /\ IsFiniteSet(results) /\ Cardinality(results) <= MaxResults
  /\ stash \subseteq ScanCopy /\ IsFiniteSet(stash)
  /\ truncated \in BOOLEAN /\ next_row \in Nat

\* A row is true; a worker's are; those of the scan are, wherever they lie.
RowTrue(r) ==
  Still(Bytes(r.addr, Slot)) => r.bits = Load(bytes, r.addr) /\ (check = "exact" => r.bits = Wanted)
JobTrue(j) == \A i \in DOMAIN j.rows : RowTrue(j.rows[i])
ScanTruth ==
  /\ scan # "no" => \A w \in Workers : JobTrue(job[w])
  /\ scan = "no" => \A r \in results : RowTrue(r)

LEMMA ScanNumbers ==
  /\ Page \in Nat /\ Page > 0 /\ Slot \in Nat /\ Slot > 0 /\ Chunk \in Nat /\ Chunk > 0
  /\ MaxResults \in Nat /\ MaxResults > 0 /\ Batch \in Nat /\ Batch > 0 /\ MaxStash \in Nat
  /\ Cardinality(Workers) \in Nat /\ Workers = 1 .. Cardinality(Workers)
  /\ Space \subseteq Nat
<1>1. {Page, Slot, Chunk, MaxResults, Batch} \subseteq Nat \ {0} /\ MaxStash \in Nat
  BY ScannerConstants
<1>2. Cardinality(Workers) \in Nat /\ Workers = 1 .. Cardinality(Workers)
  BY ScannerConstants, FS_CardinalityType
<1>3. Space \subseteq Nat BY DEF Space
<1> QED BY <1>1, <1>2, <1>3

LEMMA SpaceNumbers == \A b \in Space : b \in Nat /\ b \in Int
  BY DEF Space

LEMMA FreshJob ==
  ASSUME NEW w \in Workers
  PROVE  /\ Fresh(w) \in ScanJob /\ IsFiniteSet(Fresh(w).copies) /\ Fresh(w).todo = {}
         /\ Fresh(w).off = 0 /\ Fresh(w).rows = <<>>
<1>1. w \in Nat \ {0} BY ScanNumbers
<1>2. IsFiniteSet({}) BY FS_EmptySet
<1> HIDE DEF ScanRow, ScanCopy, ScanSeg
<1> QED BY <1>1, <1>2 DEF Fresh, ScanJob

LEMMA ScanInitTyped == ScanInit => ScanTyped /\ ScanTruth
<1> SUFFICES ASSUME ScanInit PROVE ScanTyped /\ ScanTruth
  OBVIOUS
<1>1. bytes \in [Space -> {0, 1}] BY ScannerConstants DEF ScanInit
<1>2. job = [w \in Workers |-> Fresh(w)] BY DEF ScanInit
<1>3. job \in [Workers -> ScanJob] /\ \A w \in Workers : JobOK(job[w])
  BY <1>2, FreshJob DEF JobOK
<1>4. IsFiniteSet({}) /\ Cardinality({}) = 0 BY FS_EmptySet
<1>5. areas = <<>> /\ rows = <<>> /\ results = {} /\ stash = {} /\ scan = "no"
      /\ truncated = FALSE /\ next_row = 1
  BY DEF ScanInit
<1>6. areas \in Seq(ScanArea) /\ rows \in Seq(ScanRow)
  <2> HIDE DEF ScanArea, ScanRow
  <2> QED BY <1>5
<1>7. Cardinality(results) <= MaxResults BY <1>4, <1>5, ScanNumbers
<1>8. ScanTyped BY <1>1, <1>3, <1>4, <1>5, <1>6, <1>7 DEF ScanTyped
<1> QED BY <1>5, <1>8 DEF ScanTruth

\* The rows of a run that could be read are true, and in the target.
LEMMA RunRows ==
  ASSUME ScanTyped, NEW w \in Workers, NEW start \in Nat, NEW len \in Nat, ReadOK(start, len)
  PROVE  LET S == {[addr |-> a, bits |-> Load(bytes, a)] : a \in Hits(w, start, len)}
         IN /\ IsFiniteSet(S) /\ S \subseteq ScanRow /\ \A x \in S : x.addr \in Int
            /\ \A x \in S : RowTrue(x)
<1> DEFINE H == Hits(w, start, len)
           row(a) == [addr |-> a, bits |-> Load(bytes, a)]
           S == {row(a) : a \in H}
           f == [a \in H |-> row(a)]
<1>1. H \subseteq start .. start + len - Slot BY DEF Hits
<1>2. IsFiniteSet(H)
  <2>1. start + len - Slot \in Int /\ start \in Int BY ScanNumbers
  <2>2. IsFiniteSet(start .. start + len - Slot) BY <2>1, FS_Interval
  <2> HIDE DEF H
  <2> QED BY <1>1, <2>2, FS_Subset
<1>3. IsFiniteSet(S)
  <2> HIDE DEF H
  <2>1. f \in Surjection(H, S) BY DEF Surjection
  <2> QED BY <1>2, <2>1, FS_Surjection
<1>4. ASSUME NEW a \in H PROVE row(a) \in ScanRow /\ a \in Int /\ RowTrue(row(a))
  <2>1. a \in Int /\ start <= a /\ a <= start + len - Slot /\ Slot \in Int /\ Slot > 0
    BY <1>1, ScanNumbers
  <2>2. Bytes(a, Slot) \subseteq Bytes(start, len) BY <2>1 DEF Bytes
  <2>3. Bytes(a, Slot) \subseteq Space BY <2>2 DEF ReadOK
  <2>4. \A i \in 1 .. Slot : a + i - 1 \in Bytes(a, Slot) BY <2>1 DEF Bytes
  <2>5. Load(bytes, a) \in ScanBits
    <3>1. \A i \in 1 .. Slot : bytes[a + i - 1] \in {0, 1} BY <2>3, <2>4 DEF ScanTyped
    <3> QED BY <3>1 DEF Load, ScanBits
  <2>6. a \in Space
    <3>1. a \in Bytes(a, Slot) BY <2>1 DEF Bytes
    <3> QED BY <2>3, <3>1
  <2>7. row(a).addr = a /\ row(a).bits = Load(bytes, a) OBVIOUS
  <2>8. row(a) \in ScanRow
    <3>1. row(a) \in [addr : Space, bits : ScanBits] BY <2>5, <2>6
    <3> QED BY <2>3, <2>7, <3>1 DEF ScanRow
  <2>9. check = "exact" => Load(bytes, a) = Wanted BY DEF Hits, check_value
  <2> QED BY <2>1, <2>7, <2>8, <2>9 DEF RowTrue
<1> HIDE DEF H
<1>5. S \subseteq ScanRow /\ (\A x \in S : x.addr \in Int) /\ \A x \in S : RowTrue(x)
  <2> SUFFICES ASSUME NEW a \in H
               PROVE  row(a) \in ScanRow /\ row(a).addr \in Int /\ RowTrue(row(a))
    OBVIOUS
  <2>1. row(a).addr = a OBVIOUS
  <2> QED BY <1>4, <2>1
<1> QED BY <1>3, <1>5 DEF H

\* What scan_run leaves the worker with: rows t more, and truncated as c says.
RanTo(w, start, len, t, c) ==
  /\ scan_run(w, start, len) = [job[w] EXCEPT !.rows = job[w].rows \o t, !.truncated = c]
  /\ \A i \in DOMAIN t : RowTrue(t[i])
  /\ ~c => /\ ~job[w].truncated
           /\ \A a \in Hits(w, start, len) : \E i \in DOMAIN t : t[i].addr = a

LEMMA ScanRunFacts ==
  ASSUME ScanTyped, NEW w \in Workers, NEW start \in Nat, NEW len \in Nat, ReadOK(start, len)
  PROVE  \E t \in Seq(ScanRow), c \in BOOLEAN : RanTo(w, start, len, t, c)
<1> DEFINE H == Hits(w, start, len)
           S == {[addr |-> a, bits |-> Load(bytes, a)] : a \in H}
           found == InOrder(S)
           room == MaxResults - Len(job[w].rows)
           full == Len(found) >= room
           m == IF full THEN room ELSE Len(found)
           t == SubSeq(found, 1, m)
           c == job[w].truncated \/ full
<1>1. IsFiniteSet(S) /\ S \subseteq ScanRow /\ (\A x \in S : x.addr \in Int) /\ \A x \in S : RowTrue(x)
  BY RunRows
<1>2. scan_run(w, start, len) = [job[w] EXCEPT !.rows = job[w].rows \o t, !.truncated = c]
  <2> HIDE DEF H
  <2> QED BY DEF scan_run, H
<1>3. \A a \in H : \E x \in S : x.addr = a
  <2> SUFFICES ASSUME NEW a \in H PROVE \E x \in S : x.addr = a
    OBVIOUS
  <2> HIDE DEF H
  <2>1. [addr |-> a, bits |-> Load(bytes, a)] \in S OBVIOUS
  <2>2. [addr |-> a, bits |-> Load(bytes, a)].addr = a OBVIOUS
  <2> QED BY <2>1, <2>2
<1> HIDE DEF S
<1>4. /\ found \in Seq(S) /\ Len(found) \in Nat /\ Cardinality(S) = Len(found)
      /\ \A x \in S : \E k \in 1 .. Cardinality(S) : found[k] = x
  BY <1>1, InOrderFacts
<1>5. job[w].rows \in Seq(ScanRow) /\ job[w].truncated \in BOOLEAN
  <2> HIDE DEF ScanRow, ScanSeg, ScanCopy
  <2> QED BY DEF ScanTyped, ScanJob
<1>6. MaxResults \in Nat BY ScanNumbers
<1>7. Len(job[w].rows) \in Nat /\ room \in Int
  <2> HIDE DEF ScanRow
  <2> QED BY <1>5, <1>6
<1> HIDE DEF found, room
<1>8. m \in Int /\ m <= Len(found) BY <1>4, <1>7
<1>9. t \in Seq(S) /\ (\A i \in DOMAIN t : t[i] \in S)
      /\ (~full => t = found)
  <2>1. \A i \in 1 .. m : i \in DOMAIN found BY <1>4, <1>8
  <2>2. t \in Seq(S) BY <1>4, <1>8, <2>1
  <2>3. ~full => m = Len(found) OBVIOUS
  <2>4. m = Len(found) => t = found
    <3> HIDE DEF m
    <3> QED BY <1>4
  <2> HIDE DEF t, m
  <2> QED BY <2>2, <2>3, <2>4
<1> HIDE DEF t
<1>10. t \in Seq(ScanRow)
  <2> HIDE DEF ScanRow
  <2> QED BY <1>1, <1>9
<1>11. \A i \in DOMAIN t : RowTrue(t[i]) BY <1>1, <1>9
<1>12. c \in BOOLEAN BY <1>5
<1>13. ASSUME ~c PROVE ~job[w].truncated /\ \A a \in H : \E i \in DOMAIN t : t[i].addr = a
  <2>1. ~job[w].truncated /\ ~full BY <1>13
  <2>2. t = found /\ DOMAIN found = 1 .. Cardinality(S) BY <1>4, <1>9, <2>1
  <2>3. ASSUME NEW a \in H PROVE \E i \in DOMAIN t : t[i].addr = a
    <3>1. PICK x \in S : x.addr = a BY <1>3
    <3>2. PICK k \in 1 .. Cardinality(S) : found[k] = x BY <1>4
    <3> QED BY <2>2, <3>1, <3>2
  <2> QED BY <2>1, <2>3
<1> HIDE DEF c
<1>14. RanTo(w, start, len, t, c) BY <1>2, <1>11, <1>13 DEF RanTo
<1> QED BY <1>10, <1>12, <1>14

\* The two halves of a segment that is longer than a leaf, and their seam.
LEMMA CutFacts ==
  ASSUME NEW s \in ScanSeg, s.len > Page
  PROVE  /\ Cut(s) \in Nat \ {0} /\ Cut(s) < s.len
         /\ \E q \in Nat : Cut(s) = q * Page
         /\ Halves(s) \in Seq(ScanSeg) /\ Len(Halves(s)) = 2
<1> DEFINE h == s.len \div 2
           q == h \div Page
           c == q * Page
<1>1. s.len \in Nat /\ s.addr \in Nat /\ Page \in Nat /\ Page > 0 BY ScanNumbers DEF ScanSeg
<1>2. h \in Nat /\ h < s.len BY <1>1
<1> HIDE DEF h
<1>3. q \in Nat /\ q * Page <= h BY <1>1, <1>2
<1>4. c \in Nat BY <1>1, <1>3
<1>5. Cut(s) = IF c > Page THEN c ELSE Page BY DEF Cut, h
<1> HIDE DEF q
<1>6. Cut(s) \in Nat \ {0} /\ Cut(s) < s.len BY <1>1, <1>2, <1>3, <1>4, <1>5
<1>7. \E k \in Nat : Cut(s) = k * Page
  <2>1. CASE c > Page BY <1>3, <1>5, <2>1
  <2>2. CASE ~ (c > Page)
    <3>1. Cut(s) = 1 * Page BY <1>1, <1>5, <2>2
    <3> QED BY <3>1
  <2> QED BY <2>1, <2>2
<1>8. [addr |-> s.addr, len |-> Cut(s)] \in ScanSeg
      /\ [addr |-> s.addr + Cut(s), len |-> s.len - Cut(s)] \in ScanSeg
  BY <1>1, <1>6 DEF ScanSeg
<1>9. Halves(s) \in Seq(ScanSeg) /\ Len(Halves(s)) = 2
  <2> HIDE DEF ScanSeg
  <2> QED BY <1>8 DEF Halves
<1> QED BY <1>6, <1>7, <1>9

\* A step of worker w: it replaces its own record, and what it shares stays.
WorkerStep(w) == TakeArea(w) \/ TakeChunk(w) \/ ReadSegment(w) \/ TakeRows(w) \/ CheckRow(w)

LEMMA JobShapes ==
  ASSUME ScanTyped, NEW w \in Workers
  PROVE  /\ job[w].area \in Nat \ {0} /\ job[w].off \in Nat
         /\ job[w].segs \in Seq(ScanSeg) /\ job[w].rows \in Seq(ScanRow)
         /\ job[w].copies \in SUBSET ScanCopy /\ job[w].truncated \in BOOLEAN
         /\ job[w].todo \in SUBSET Nat /\ job[w].done \in BOOLEAN
         /\ job[w] \in ScanJob /\ JobOK(job[w])
<1>1. job[w] \in ScanJob /\ JobOK(job[w]) BY DEF ScanTyped
<1> HIDE DEF ScanRow, ScanCopy, ScanSeg
<1> QED BY <1>1 DEF ScanJob

LEMMA AreaShapes ==
  ASSUME ScanTyped, NEW w \in Workers, job[w].off > 0
  PROVE  /\ job[w].area \in DOMAIN areas /\ Area(w) \in ScanArea
         /\ Area(w).base \in Nat /\ Area(w).size \in Nat \ {0} /\ Area(w).chunk \in Nat \ {0}
         /\ Area(w).old \in Seq({0, 1}) /\ Bytes(Area(w).base, Area(w).size) \subseteq Space
<1>1. job[w].area \in Nat \ {0} /\ job[w].area <= Len(areas) /\ areas \in Seq(ScanArea)
  BY JobShapes DEF JobOK, ScanTyped
<1>2. job[w].area \in DOMAIN areas
  <2> HIDE DEF ScanArea
  <2> QED BY <1>1
<1>3. Area(w) \in ScanArea BY <1>1, <1>2, ElementOf DEF Area
<1> QED BY <1>2, <1>3 DEF ScanArea

LEMMA JobStep ==
  ASSUME ScanTyped, NEW w \in Workers, WorkerStep(w)
  PROVE  \E j : /\ job' = [job EXCEPT ![w] = j] /\ JobOK(j)
                /\ JobTrue(job[w]) => JobTrue(j)
<1> DEFINE o == job[w]
<1>j. /\ o.area \in Nat \ {0} /\ o.off \in Nat
      /\ o.segs \in Seq(ScanSeg) /\ o.rows \in Seq(ScanRow)
      /\ o.copies \in SUBSET ScanCopy /\ o.truncated \in BOOLEAN
      /\ o.todo \in SUBSET Nat /\ o.done \in BOOLEAN
      /\ o \in ScanJob /\ JobOK(o)
  BY JobShapes
<1>n. Cardinality(Workers) \in Nat BY ScanNumbers
<1>1. CASE TakeArea(w)
  <2> DEFINE j == IF aborted \/ tok \/ o.area > Len(areas)
                  THEN [o EXCEPT !.done = TRUE] ELSE [o EXCEPT !.off = 1]
  <2>1. job' = [job EXCEPT ![w] = j] BY <1>1 DEF TakeArea, SetJob
  <2>l. Len(areas) \in Nat
    <3> HIDE DEF ScanArea
    <3> QED BY DEF ScanTyped
  <2> HIDE DEF o
  <2>2. JobOK(j)
    <3> HIDE DEF ScanRow, ScanCopy, ScanSeg
    <3>1. CASE aborted \/ tok \/ o.area > Len(areas)
      <4>1. j = [o EXCEPT !.done = TRUE] BY <3>1
      <4>2. j \in ScanJob BY <1>j, <4>1 DEF ScanJob
      <4>3. j.copies = o.copies /\ j.todo = o.todo /\ j.off = o.off /\ j.area = o.area
        BY <1>j, <4>1 DEF ScanJob
      <4> QED BY <1>j, <4>2, <4>3 DEF JobOK
    <3>2. CASE ~(aborted \/ tok \/ o.area > Len(areas))
      <4>1. j = [o EXCEPT !.off = 1] BY <3>2
      <4>2. j \in ScanJob BY <1>j, <4>1 DEF ScanJob
      <4>3. j.copies = o.copies /\ j.todo = o.todo /\ j.area = o.area
        BY <1>j, <4>1 DEF ScanJob
      <4>4. j.area <= Len(areas) BY <1>j, <2>l, <3>2, <4>3
      <4> QED BY <1>j, <4>2, <4>3, <4>4 DEF JobOK
    <3> QED BY <3>1, <3>2
  <2>3. j.rows = o.rows
    <3> HIDE DEF ScanRow, ScanCopy, ScanSeg
    <3> QED BY <1>j DEF ScanJob
  <2>4. JobTrue(o) => JobTrue(j) BY <2>3 DEF JobTrue
  <2> QED BY <2>1, <2>2, <2>4 DEF o
<1>2. CASE TakeChunk(w)
  <2>0. o.off > 0 BY <1>2 DEF TakeChunk
  <2>a. Area(w).base \in Nat /\ Area(w).size \in Nat \ {0} /\ Area(w).chunk \in Nat \ {0}
    BY <2>0, AreaShapes
  <2> DEFINE left == Area(w).size - o.off + 1
             want == IF Area(w).chunk < left THEN Area(w).chunk ELSE left
             seg == [addr |-> Area(w).base + o.off - 1, len |-> want]
             far == o.area + Cardinality(Workers)
             on == o.off + want
             j1 == [o EXCEPT !.area = far, !.off = 0, !.done = o.truncated]
             j2 == [o EXCEPT !.off = on, !.segs = <<seg>>]
  <2>1. CASE o.off > Area(w).size \/ o.truncated \/ tok
    <3>1. job' = [job EXCEPT ![w] = j1] BY <1>2, <2>1 DEF TakeChunk, SetJob
    <3>0. far \in Nat \ {0} BY <1>j, <1>n
    <3> HIDE DEF o, far, ScanRow, ScanCopy, ScanSeg
    <3>2. j1 \in ScanJob BY <1>j, <3>0 DEF ScanJob
    <3>3. j1.copies = o.copies /\ j1.todo = o.todo /\ j1.off = 0 /\ j1.rows = o.rows
      BY <1>j DEF ScanJob
    <3>4. JobOK(j1) BY <1>j, <3>2, <3>3 DEF JobOK
    <3>5. JobTrue(o) => JobTrue(j1) BY <3>3 DEF JobTrue
    <3> QED BY <3>1, <3>4, <3>5 DEF o
  <2>2. CASE ~(o.off > Area(w).size \/ o.truncated \/ tok)
    <3>1. job' = [job EXCEPT ![w] = j2] BY <1>2, <2>2 DEF TakeChunk, SetJob
    <3> HIDE DEF o
    <3>2. left \in Nat \ {0} BY <1>j, <2>a, <2>2
    <3> HIDE DEF left
    <3>3. want \in Nat \ {0} BY <2>a, <3>2
    <3> HIDE DEF want
    <3>4. seg \in ScanSeg BY <1>j, <2>0, <2>a, <3>3 DEF ScanSeg
    <3>o. on \in Nat /\ on > 0 BY <1>j, <3>3
    <3> HIDE DEF on, seg, ScanRow, ScanCopy, ScanSeg
    <3>5. <<seg>> \in Seq(ScanSeg) BY <3>4
    <3>6. j2 \in ScanJob BY <1>j, <3>o, <3>5 DEF ScanJob
    <3>7. j2.copies = o.copies /\ j2.todo = o.todo /\ j2.area = o.area /\ j2.rows = o.rows
      BY <1>j DEF ScanJob
    <3>8. JobOK(j2) BY <1>j, <2>0, <3>6, <3>7 DEF JobOK
    <3>9. JobTrue(o) => JobTrue(j2) BY <3>7 DEF JobTrue
    <3> QED BY <3>1, <3>8, <3>9 DEF o
  <2> QED BY <2>1, <2>2
<1>3. CASE ReadSegment(w)
  <2> DEFINE s == Last(o.segs)
             rest == Front(o.segs)
  <2>1. s \in ScanSeg /\ rest \in Seq(ScanSeg)
    <3>1. o.segs # <<>> BY <1>3 DEF ReadSegment
    <3> HIDE DEF ScanSeg, o
    <3> QED BY <1>j, <3>1 DEF Last, Front
  <2>s. s.addr \in Nat /\ s.len \in Nat \ {0} BY <2>1 DEF ScanSeg
  <2>2. CASE tok
    <3> DEFINE j == [o EXCEPT !.segs = <<>>]
    <3>1. job' = [job EXCEPT ![w] = j] BY <1>3, <2>2 DEF ReadSegment, SetJob
    <3> HIDE DEF o, ScanRow, ScanCopy, ScanSeg
    <3>e. <<>> \in Seq(ScanSeg) OBVIOUS
    <3>2. j \in ScanJob BY <1>j, <3>e DEF ScanJob
    <3>3. j.copies = o.copies /\ j.todo = o.todo /\ j.area = o.area /\ j.rows = o.rows /\ j.off = o.off
      BY <1>j DEF ScanJob
    <3>4. JobOK(j) BY <1>j, <3>2, <3>3 DEF JobOK
    <3>5. JobTrue(o) => JobTrue(j) BY <3>3 DEF JobTrue
    <3> QED BY <3>1, <3>4, <3>5 DEF o
  <2>3. CASE ~tok /\ ReadOK(s.addr, s.len) /\ scan = "stash"
    <3> DEFINE over == stash_used + s.len > MaxStash
               copy == [addr |-> s.addr, old |-> [i \in 1 .. s.len |-> bytes[s.addr + i - 1]]]
               cs == IF over THEN o.copies ELSE o.copies \cup {copy}
               tr == o.truncated \/ over
               j == [o EXCEPT !.segs = rest, !.truncated = tr, !.copies = cs]
    <3>1. job' = [job EXCEPT ![w] = j] BY <1>3, <2>3 DEF ReadSegment, SetJob
    <3>2. copy \in ScanCopy
      <4>1. \A i \in 1 .. s.len : s.addr + i - 1 \in Bytes(s.addr, s.len) BY <2>s DEF Bytes
      <4>2. Bytes(s.addr, s.len) \subseteq Space BY <2>3 DEF ReadOK
      <4>3. \A i \in 1 .. s.len : bytes[s.addr + i - 1] \in {0, 1} BY <4>1, <4>2 DEF ScanTyped
      <4> HIDE DEF s
      <4>4. copy.old \in Seq({0, 1}) /\ Len(copy.old) = s.len BY <2>s, <4>3
      <4>5. copy.addr = s.addr /\ copy.old # <<>> BY <2>s, <4>4
      <4>6. copy \in [addr : Nat, old : Seq({0, 1}) \ {<<>>}]
        <5>1. copy.old \in Seq({0, 1}) \ {<<>>} BY <4>4, <4>5
        <5> QED BY <2>s, <5>1
      <4> HIDE DEF copy
      <4> QED BY <4>2, <4>4, <4>5, <4>6 DEF ScanCopy
    <3>3. cs \in SUBSET ScanCopy BY <1>j, <3>2
    <3>4. IsFiniteSet(cs)
      <4> HIDE DEF copy, over
      <4> QED BY <1>j, FS_AddElement DEF JobOK
    <3>5. tr \in BOOLEAN BY <1>j
    <3> HIDE DEF o, cs, tr, rest, ScanRow, ScanCopy, ScanSeg
    <3>6. j \in ScanJob BY <1>j, <2>1, <3>3, <3>5 DEF ScanJob
    <3>7. j.copies = cs /\ j.todo = o.todo /\ j.area = o.area /\ j.rows = o.rows /\ j.off = o.off
      BY <1>j DEF ScanJob
    <3>8. JobOK(j) BY <1>j, <3>4, <3>6, <3>7 DEF JobOK
    <3>9. JobTrue(o) => JobTrue(j) BY <3>7 DEF JobTrue
    <3> QED BY <3>1, <3>8, <3>9 DEF o
  <2>4. CASE ~tok /\ ReadOK(s.addr, s.len) /\ scan # "stash"
    <3>1. job' = [job EXCEPT ![w] = [scan_run(w, s.addr, s.len) EXCEPT !.segs = rest]]
      BY <1>3, <2>4 DEF ReadSegment, SetJob
    <3>p. PICK t \in Seq(ScanRow), c \in BOOLEAN : RanTo(w, s.addr, s.len, t, c)
      <4> HIDE DEF s
      <4> QED BY <2>s, <2>4, ScanRunFacts
    <3>2. /\ scan_run(w, s.addr, s.len) = [job[w] EXCEPT !.rows = job[w].rows \o t, !.truncated = c]
          /\ \A i \in DOMAIN t : RowTrue(t[i])
      BY <3>p DEF RanTo
    <3> DEFINE rs == o.rows \o t
               k == [o EXCEPT !.rows = rs, !.truncated = c]
               j == [k EXCEPT !.segs = rest]
    <3>3. job' = [job EXCEPT ![w] = j] BY <3>1, <3>2
    <3>4. rs \in Seq(ScanRow) /\ Gathers(rs, o.rows, t) BY <1>j, <3>2, ConcatElements
    <3>5. JobTrue(o) => \A i \in DOMAIN rs : RowTrue(rs[i])
      <4> HIDE DEF o, rs
      <4> QED BY <3>2, <3>4 DEF JobTrue, Gathers
    <3> HIDE DEF o, rs, rest, ScanRow, ScanCopy, ScanSeg
    <3>6. k \in ScanJob BY <1>j, <3>2, <3>4 DEF ScanJob
    <3>7. k.copies = o.copies /\ k.todo = o.todo /\ k.area = o.area /\ k.rows = rs /\ k.off = o.off
      BY <1>j DEF ScanJob
    <3> HIDE DEF k
    <3>8. j \in ScanJob BY <2>1, <3>6 DEF ScanJob
    <3>9. j.copies = k.copies /\ j.todo = k.todo /\ j.area = k.area /\ j.rows = k.rows /\ j.off = k.off
      BY <3>6 DEF ScanJob
    <3>10. JobOK(j) BY <1>j, <3>7, <3>8, <3>9 DEF JobOK
    <3>11. JobTrue(o) => JobTrue(j) BY <3>5, <3>7, <3>9 DEF JobTrue
    <3> QED BY <3>3, <3>10, <3>11 DEF o
  <2>5. CASE ~tok /\ ~ReadOK(s.addr, s.len)
    <3> DEFINE sg == IF s.len <= Page THEN rest ELSE rest \o Halves(s)
               j == [o EXCEPT !.segs = sg]
    <3>1. job' = [job EXCEPT ![w] = j] BY <1>3, <2>5 DEF ReadSegment, SetJob
    <3>2. sg \in Seq(ScanSeg)
      <4>1. CASE s.len <= Page BY <2>1, <4>1
      <4>2. CASE ~(s.len <= Page)
        <5>1. s.len > Page BY <2>s, <4>2, ScanNumbers
        <5>2. Halves(s) \in Seq(ScanSeg) BY <2>1, <5>1, CutFacts
        <5> HIDE DEF s, rest, ScanSeg
        <5> QED BY <2>1, <4>2, <5>2
      <4> QED BY <4>1, <4>2
    <3> HIDE DEF o, sg, ScanRow, ScanCopy, ScanSeg
    <3>3. j \in ScanJob BY <1>j, <3>2 DEF ScanJob
    <3>4. j.copies = o.copies /\ j.todo = o.todo /\ j.area = o.area /\ j.rows = o.rows /\ j.off = o.off
      BY <1>j DEF ScanJob
    <3>5. JobOK(j) BY <1>j, <3>3, <3>4 DEF JobOK
    <3>6. JobTrue(o) => JobTrue(j) BY <3>4 DEF JobTrue
    <3> QED BY <3>1, <3>5, <3>6 DEF o
  <2> QED BY <2>2, <2>3, <2>4, <2>5
<1>r. rows \in Seq(ScanRow) /\ DOMAIN rows \subseteq Nat
  <2> HIDE DEF ScanRow
  <2> QED BY DEF ScanTyped
<1>4. CASE TakeRows(w)
  <2> DEFINE td == {k \in DOMAIN rows : k \in next_row .. next_row + Batch - 1}
             j == IF tok \/ next_row > Len(rows) THEN [o EXCEPT !.done = TRUE]
                  ELSE [o EXCEPT !.todo = td]
  <2>1. job' = [job EXCEPT ![w] = j] BY <1>4 DEF TakeRows, SetJob
  <2>2. td \subseteq DOMAIN rows /\ td \in SUBSET Nat BY <1>r
  <2> HIDE DEF o, td, ScanRow, ScanCopy, ScanSeg
  <2>3. j \in ScanJob BY <1>j, <2>2 DEF ScanJob
  <2>4. /\ j.copies = o.copies /\ (j.todo = o.todo \/ j.todo = td)
        /\ j.area = o.area /\ j.rows = o.rows /\ j.off = o.off
    BY <1>j DEF ScanJob
  <2>5. JobOK(j) BY <1>j, <2>2, <2>3, <2>4 DEF JobOK
  <2>6. JobTrue(o) => JobTrue(j) BY <2>4 DEF JobTrue
  <2> QED BY <2>1, <2>5, <2>6 DEF o
<1>5. CASE CheckRow(w)
  <2> DEFINE k == CHOOSE k \in o.todo : \A m \in o.todo : k <= m
             a == rows[k].addr
             match == ReadOK(a, Slot) /\ check_value(Load(bytes, a), rows[k].bits)
             full == match /\ Len(o.rows) + 1 >= MaxResults
             row == FreshRow(rows[k])
             rs == IF match THEN Append(o.rows, row) ELSE o.rows
             td == o.todo \ {k}
             tr == o.truncated \/ full
             j == [o EXCEPT !.todo = td, !.rows = rs, !.truncated = tr, !.done = full]
  <2>1. job' = [job EXCEPT ![w] = j] BY <1>5, Zenon DEF CheckRow, SetJob
  <2>2. k \in o.todo
    <3>1. o.todo # {} BY <1>5 DEF CheckRow
    <3>2. \E x \in o.todo : \A m \in o.todo : x <= m BY <1>j, <3>1, LeastNatural
    <3> QED BY <3>2, Zenon
  <2> HIDE DEF k
  <2>3. k \in DOMAIN rows BY <1>j, <2>2 DEF JobOK
  <2>4. rows[k] \in ScanRow BY <1>r, <2>3, ElementOf
  <2>5. a \in Int 
    <3>1. a \in Space BY <2>4 DEF ScanRow
    <3> HIDE DEF a
    <3> QED BY <3>1, ScanNumbers
  <2>6. ASSUME match PROVE row \in ScanRow /\ RowTrue(row)
    <3>1. Bytes(a, Slot) \subseteq Space BY <2>6 DEF ReadOK
    <3>2. \A i \in 1 .. Slot : a + i - 1 \in Bytes(a, Slot)
      <4> HIDE DEF a
      <4> QED BY <2>5, ScanNumbers DEF Bytes
    <3>3. Load(bytes, a) \in ScanBits
      <4> HIDE DEF a
      <4>1. \A i \in 1 .. Slot : bytes[a + i - 1] \in {0, 1} BY <3>1, <3>2 DEF ScanTyped
      <4> QED BY <4>1 DEF Load, ScanBits
    <3>4. row.addr = a /\ row.bits = Load(bytes, a) BY DEF FreshRow
    <3>5. row \in [addr : Space, bits : ScanBits] BY <2>4, <3>3 DEF FreshRow, ScanRow
    <3>6. row \in ScanRow BY <3>1, <3>4, <3>5 DEF ScanRow
    <3>7. check = "exact" => Load(bytes, a) = Wanted BY <2>6 DEF check_value
    <3> QED BY <3>4, <3>6, <3>7 DEF RowTrue
  <2>7. rs \in Seq(ScanRow) /\ (JobTrue(o) => \A i \in DOMAIN rs : RowTrue(rs[i]))
    <3>1. CASE ~match BY <1>j, <3>1 DEF JobTrue
    <3>2. CASE match
      <4>1. row \in ScanRow /\ RowTrue(row) BY <2>6, <3>2
      <4>2. rs = Append(o.rows, row) BY <3>2
      <4> HIDE DEF o, row, match, rs, ScanRow
      <4>3. /\ rs \in Seq(ScanRow)
            /\ \A i \in DOMAIN rs : (i \in DOMAIN o.rows /\ rs[i] = o.rows[i]) \/ rs[i] = row
        BY <1>j, <4>1, <4>2
      <4> QED BY <4>1, <4>3 DEF JobTrue
    <3> QED BY <3>1, <3>2
  <2>8. td \in SUBSET Nat /\ td \subseteq o.todo BY <1>j
  <2>9. full \in BOOLEAN /\ tr \in BOOLEAN
    <3> HIDE DEF match
    <3> QED BY <1>j
  <2> HIDE DEF o, rs, td, tr, full, ScanRow, ScanCopy, ScanSeg
  <2>10. j \in ScanJob BY <1>j, <2>7, <2>8, <2>9 DEF ScanJob
  <2>11. j.copies = o.copies /\ j.todo = td /\ j.area = o.area /\ j.rows = rs /\ j.off = o.off
    BY <1>j DEF ScanJob
  <2>12. JobOK(j) BY <1>j, <2>8, <2>10, <2>11 DEF JobOK
  <2>13. JobTrue(o) => JobTrue(j) BY <2>7, <2>11 DEF JobTrue
  <2> QED BY <2>1, <2>12, <2>13 DEF o
<1> QED BY <1>1, <1>2, <1>3, <1>4, <1>5 DEF WorkerStep

\* Starting a scan leaves every worker with a fresh record.
LEMMA StartStep ==
  ASSUME ScanTyped, NEW kind \in {"values", "stash", "compare", "rows"}, NEW list \in Seq(ScanArea),
         NEW old \in Seq(ScanRow), NEW type, Start(kind, list, old, type),
         results' \subseteq ScanRow, IsFiniteSet(results'), Cardinality(results') <= MaxResults,
         stash' \subseteq ScanCopy, IsFiniteSet(stash'), truncated' \in BOOLEAN
  PROVE  ScanTyped' /\ ScanTruth'
<1>1. job' = [w \in Workers |-> Fresh(w)] BY DEF Start
<1>2. /\ job' \in [Workers -> ScanJob]
      /\ \A w \in Workers : IsFiniteSet(job'[w].copies) /\ job'[w].todo = {} /\ job'[w].off = 0
                            /\ job'[w].rows = <<>> /\ job'[w] \in ScanJob
  BY <1>1, FreshJob
<1>3. \A w \in Workers : JobOK(job[w])' BY <1>2 DEF JobOK
<1>4. /\ bytes' = bytes /\ scan' = kind /\ areas' = list /\ rows' = old /\ next_row' = 1
      /\ scan' # "no"
  BY DEF Start
<1>5. ScanTyped' BY <1>2, <1>3, <1>4 DEF ScanTyped
<1>6. ScanTruth' BY <1>2, <1>4 DEF ScanTruth, JobTrue
<1> QED BY <1>5, <1>6

\* A row stays true when the target touches nothing, or touches b.
LEMMA TruthStays ==
  ASSUME ScanTyped, NEW b \in Space, check' = check, touched \subseteq touched',
         \/ bytes' = bytes
         \/ bytes' = [bytes EXCEPT ![b] = 1 - @] /\ b \in touched'
  PROVE  \A r \in ScanRow : RowTrue(r) => RowTrue(r)'
<1> SUFFICES ASSUME NEW r \in ScanRow, RowTrue(r), Still(Bytes(r.addr, Slot))'
             PROVE  r.bits = Load(bytes', r.addr) /\ (check = "exact" => r.bits = Wanted)
  BY DEF RowTrue, Wanted, Load
<1>1. Still(Bytes(r.addr, Slot)) BY DEF Still, Bytes
<1>2. r.bits = Load(bytes, r.addr) /\ (check = "exact" => r.bits = Wanted) BY <1>1 DEF RowTrue
<1>3. CASE bytes' = bytes BY <1>2, <1>3
<1>4. CASE bytes' = [bytes EXCEPT ![b] = 1 - @] /\ b \in touched'
  <2>1. r.addr \in Int /\ Slot \in Nat /\ Bytes(r.addr, Slot) \subseteq Space
    <3>1. r.addr \in Space /\ Bytes(r.addr, Slot) \subseteq Space BY DEF ScanRow
    <3> QED BY <3>1, ScanNumbers, SpaceNumbers
  <2>2. b \notin Bytes(r.addr, Slot) BY <1>4 DEF Still, Bytes
  <2>3. \A i \in 1 .. Slot : r.addr + i - 1 \in Bytes(r.addr, Slot) BY <2>1 DEF Bytes
  <2>4. \A x \in Bytes(r.addr, Slot) : bytes'[x] = bytes[x]
    BY <1>4, <2>1, <2>2 DEF ScanTyped
  <2>5. \A i \in 1 .. Slot : bytes'[r.addr + i - 1] = bytes[r.addr + i - 1] BY <2>3, <2>4
  <2>6. Load(bytes', r.addr) = Load(bytes, r.addr) BY <2>5 DEF Load
  <2> QED BY <1>2, <2>6
<1> QED BY <1>3, <1>4

\* Then so do all rows of the scan, if the rows themselves stay.
LEMMA ScanTruthStays ==
  ASSUME ScanTyped, ScanTruth, job' = job, results' = results, scan' = scan,
         \A r \in ScanRow : RowTrue(r) => RowTrue(r)'
  PROVE  ScanTruth'
<1>1. ASSUME NEW w \in Workers, JobTrue(job[w]) PROVE JobTrue(job[w])'
  <2>1. job[w].rows \in Seq(ScanRow) BY JobShapes
  <2>2. \A i \in DOMAIN job[w].rows : job[w].rows[i] \in ScanRow BY <2>1, ElementOf
  <2>3. \A i \in DOMAIN job[w].rows : RowTrue(job[w].rows[i])' BY <1>1, <2>2 DEF JobTrue
  <2> QED BY <2>3 DEF JobTrue
<1>2. results \subseteq ScanRow BY DEF ScanTyped
<1> QED BY <1>1, <1>2 DEF ScanTruth

\* The types stay when only what they do not speak of changes.
LEMMA ScanTypedStays ==
  ASSUME ScanTyped, bytes' \in [Space -> {0, 1}],
         UNCHANGED <<scan, areas, rows, job, next_row, results, stash, truncated>>
  PROVE  ScanTyped'
<1>1. \A w \in Workers : JobOK(job[w])' BY DEF ScanTyped, JobOK
<1> QED BY <1>1 DEF ScanTyped

\* The runs of the stash as areas, and the results as rows, of a rescan.
LEMMA OldAreas ==
  ASSUME ScanTyped
  PROVE  LET list == [k \in 1 .. Cardinality(stash) |-> OldArea(InOrder(stash)[k])]
         IN list \in Seq(ScanArea) /\ \A k \in DOMAIN list : list[k].old # <<>>
<1> DEFINE n == Cardinality(stash)
           list == [k \in 1 .. n |-> OldArea(InOrder(stash)[k])]
<1>1. stash \subseteq ScanCopy /\ IsFiniteSet(stash) BY DEF ScanTyped
<1>2. \A x \in stash : x.addr \in Int BY <1>1 DEF ScanCopy
<1>3. n \in Nat /\ InOrder(stash) \in [1 .. n -> stash] BY <1>1, <1>2, InOrderFacts
<1>4. \A x \in ScanCopy : OldArea(x) \in ScanArea /\ OldArea(x).old # <<>>
  <2> SUFFICES ASSUME NEW x \in ScanCopy PROVE OldArea(x) \in ScanArea /\ OldArea(x).old # <<>>
    OBVIOUS
  <2>1. /\ x.addr \in Nat /\ x.old \in Seq({0, 1}) /\ x.old # <<>>
        /\ Bytes(x.addr, Len(x.old)) \subseteq Space
    BY DEF ScanCopy
  <2>2. Len(x.old) \in Nat \ {0} BY <2>1
  <2>3. OldArea(x) \in [base : Nat, size : Nat \ {0}, chunk : Nat \ {0}, old : Seq({0, 1})]
    BY <2>1, <2>2 DEF OldArea
  <2>4. OldArea(x).base = x.addr /\ OldArea(x).size = Len(x.old) /\ OldArea(x).old = x.old BY DEF OldArea
  <2> QED BY <2>1, <2>3, <2>4 DEF ScanArea
<1>5. \A k \in 1 .. n : InOrder(stash)[k] \in ScanCopy BY <1>1, <1>3
<1>6. \A k \in 1 .. n : OldArea(InOrder(stash)[k]) \in ScanArea /\ OldArea(InOrder(stash)[k]).old # <<>>
  BY <1>4, <1>5
<1> HIDE DEF ScanArea, n
<1>7. list \in Seq(ScanArea) BY <1>3, <1>6
<1>8. \A k \in DOMAIN list : list[k].old # <<>> BY <1>6
<1> QED BY <1>7, <1>8 DEF n

LEMMA OldRows == ASSUME ScanTyped PROVE InOrder(results) \in Seq(ScanRow)
<1>1. results \subseteq ScanRow /\ IsFiniteSet(results) BY DEF ScanTyped
<1>2. \A x \in results : x.addr \in Int
  <2>1. \A x \in results : x.addr \in Space BY <1>1 DEF ScanRow
  <2> QED BY <2>1, SpaceNumbers
<1>3. InOrder(results) \in Seq(results) BY <1>1, <1>2, InOrderFacts
<1> HIDE DEF ScanRow
<1> QED BY <1>1, <1>3

LEMMA ScanStep == ScanTyped /\ ScanTruth /\ [ScanNext]_scanVars => ScanTyped' /\ ScanTruth'
<1> SUFFICES ASSUME ScanTyped, ScanTruth, [ScanNext]_scanVars PROVE ScanTyped' /\ ScanTruth'
  OBVIOUS
<1>s. ASSUME bytes' = bytes, check' = check, touched' = touched
      PROVE  \A r : RowTrue(r) => RowTrue(r)'
  BY <1>s DEF RowTrue, Still, Bytes, Load, Wanted
<1>0. CASE UNCHANGED scanVars
  <2>1. ScanTyped' BY <1>0, ScanTypedStays DEF scanVars, ScanTyped
  <2>2. ScanTruth' BY <1>0, <1>s, ScanTruthStays DEF scanVars
  <2> QED BY <2>1, <2>2
<1>1. ASSUME NEW b \in Space, TargetWrites(b) PROVE ScanTyped' /\ ScanTruth'
  <2>1. bytes' \in [Space -> {0, 1}] BY <1>1 DEF TargetWrites, ScanTyped
  <2>2. ScanTyped' BY <1>1, <2>1, ScanTypedStays DEF TargetWrites
  <2>3. /\ check' = check /\ touched \subseteq touched' /\ b \in touched'
        /\ bytes' = [bytes EXCEPT ![b] = 1 - @]
    BY <1>1 DEF TargetWrites
  <2>4. \A r \in ScanRow : RowTrue(r) => RowTrue(r)' BY <2>3, TruthStays
  <2>5. ScanTruth' BY <1>1, <2>4, ScanTruthStays DEF TargetWrites
  <2> QED BY <2>2, <2>5
<1>2. ASSUME NEW g \in readable, TargetFrees(g) PROVE ScanTyped' /\ ScanTruth'
  <2>1. ScanTyped' BY <1>2, ScanTypedStays DEF TargetFrees, ScanTyped
  <2>2. check' = check /\ touched \subseteq touched' /\ bytes' = bytes BY <1>2 DEF TargetFrees
  <2>3. \A r \in ScanRow : RowTrue(r) => RowTrue(r)'
    BY <2>2 DEF RowTrue, Still, Bytes, Load, Wanted
  <2>4. ScanTruth' BY <1>2, <2>3, ScanTruthStays DEF TargetFrees
  <2> QED BY <2>1, <2>4
<1>3. ASSUME NEW begin \in Begins, NEW type \in {"exact", "changed"}, first_scan(begin, type)
      PROVE  ScanTyped' /\ ScanTruth'
  <2>1. begin \in Nat BY ScannerConstants
  <2> DEFINE list == filter_regions(begin)
             kind == IF type = "exact" THEN "values" ELSE "stash"
  <2>2. list \in Seq(ScanArea)
    <3>1. list \in Seq({r \in ScanArea : r.old = <<>>}) BY <2>1, FilterFacts
    <3> DEFINE A == {r \in ScanArea : r.old = <<>>}
    <3>2. A \subseteq ScanArea OBVIOUS
    <3> HIDE DEF A, list, ScanArea
    <3>3. list \in Seq(A) BY <3>1 DEF A
    <3> QED BY <3>2, <3>3
  <2>3. <<>> \in Seq(ScanRow)
    <3> HIDE DEF ScanRow
    <3> QED OBVIOUS
  <2>4. Start(kind, list, <<>>, type) BY <1>3 DEF first_scan
  <2>5. results' = {} /\ stash' = {} /\ truncated' = FALSE BY <1>3 DEF first_scan
  <2>6. IsFiniteSet({}) /\ Cardinality({}) <= MaxResults BY FS_EmptySet, ScanNumbers
  <2>7. kind \in {"values", "stash", "compare", "rows"} OBVIOUS
  <2> HIDE DEF list, kind
  <2> QED BY <2>2, <2>3, <2>4, <2>5, <2>6, <2>7, StartStep
<1>4. ASSUME NEW type \in {"exact", "changed"}, next_scan(type) PROVE ScanTyped' /\ ScanTruth'
  <2>1. UNCHANGED <<results, stash, truncated>> BY <1>4 DEF next_scan
  <2>2. /\ results' \subseteq ScanRow /\ IsFiniteSet(results') /\ Cardinality(results') <= MaxResults
        /\ stash' \subseteq ScanCopy /\ IsFiniteSet(stash') /\ truncated' \in BOOLEAN
    BY <2>1 DEF ScanTyped
  <2>e. <<>> \in Seq(ScanRow) /\ <<>> \in Seq(ScanArea)
    <3> HIDE DEF ScanRow, ScanArea
    <3> QED OBVIOUS
  <2>3. CASE stash # {}
    <3> DEFINE list == [k \in 1 .. Cardinality(stash) |-> OldArea(InOrder(stash)[k])]
    <3>1. Start("compare", list, <<>>, type) BY <1>4, <2>3 DEF next_scan
    <3>2. list \in Seq(ScanArea) BY OldAreas
    <3> HIDE DEF list
    <3> QED BY <2>2, <2>e, <3>1, <3>2, StartStep
  <2>4. CASE stash = {}
    <3>1. Start("rows", <<>>, InOrder(results), type) BY <1>4, <2>4 DEF next_scan
    <3>2. InOrder(results) \in Seq(ScanRow) BY OldRows
    <3> QED BY <2>2, <2>e, <3>1, <3>2, StartStep
  <2> QED BY <2>3, <2>4
<1>5. ASSUME NEW w \in Workers, WorkerStep(w) PROVE ScanTyped' /\ ScanTruth'
  <2>1. UNCHANGED Shared /\ scan # "no" /\ next_row' \in Nat
    BY <1>5, ScanNumbers
       DEF WorkerStep, TakeArea, TakeChunk, ReadSegment, TakeRows, CheckRow, Walking, ScanTyped
  <2>2. PICK j : /\ job' = [job EXCEPT ![w] = j] /\ JobOK(j)
                 /\ JobTrue(job[w]) => JobTrue(j)
    BY <1>5, JobStep
  <2>u. UNCHANGED <<bytes, scan, areas, rows, check, results, stash, truncated, touched>>
    BY <2>1 DEF Shared
  <2>3. job' \in [Workers -> ScanJob]
    <3>1. j \in ScanJob BY <2>2 DEF JobOK
    <3> HIDE DEF ScanJob
    <3> QED BY <2>2, <3>1 DEF ScanTyped
  <2>4. \A v \in Workers : job'[v] = IF v = w THEN j ELSE job[v] BY <2>2 DEF ScanTyped
  <2>5. \A v \in Workers : JobOK(job'[v])
    <3> HIDE DEF JobOK
    <3> QED BY <2>2, <2>4 DEF ScanTyped
  <2>6. \A v \in Workers : JobOK(job[v])' BY <2>5, <2>u DEF JobOK
  <2>7. ScanTyped' BY <2>1, <2>3, <2>6, <2>u DEF ScanTyped
  <2>8. \A v \in Workers : JobTrue(job'[v])
    <3> HIDE DEF JobTrue
    <3> QED BY <2>1, <2>2, <2>4 DEF ScanTruth
  <2>9. \A v \in Workers : JobTrue(job[v])' BY <2>8, <2>u, <1>s DEF JobTrue
  <2>10. ScanTruth' BY <2>1, <2>9, <2>u DEF ScanTruth
  <2> QED BY <2>7, <2>10
<1>6. CASE merge_workers
  <2>1. /\ scan' = "no" /\ scan # "no"
        /\ UNCHANGED <<bytes, areas, rows, check, job, next_row, touched>>
    BY <1>6 DEF merge_workers
  <2>2. \A w \in Workers : JobOK(job[w])' BY <2>1 DEF ScanTyped, JobOK
  <2>3. CASE scan = "stash"
    <3>1. /\ stash' = UNION {job[w].copies : w \in Workers} /\ results' = {}
          /\ truncated' = \E w \in Workers : job[w].truncated
      BY <1>6, <2>3 DEF merge_workers
    <3>2. \A w \in Workers : job[w].copies \subseteq ScanCopy /\ IsFiniteSet(job[w].copies)
      BY JobShapes DEF JobOK
    <3>3. stash' \subseteq ScanCopy BY <3>1, <3>2
    <3>4. IsFiniteSet(stash')
      <4> DEFINE C == {job[w].copies : w \in Workers}
                 f == [w \in Workers |-> job[w].copies]
      <4>1. f \in Surjection(Workers, C) BY DEF Surjection
      <4>2. IsFiniteSet(Workers) BY ScannerConstants
      <4>3. IsFiniteSet(C) BY <4>1, <4>2, FS_Surjection
      <4>4. \A T \in C : IsFiniteSet(T) BY <3>2
      <4> HIDE DEF C
      <4>5. IsFiniteSet(UNION C) BY <4>3, <4>4, FS_UNION
      <4> QED BY <3>1, <4>5 DEF C
    <3>5. IsFiniteSet({}) /\ Cardinality({}) <= MaxResults BY FS_EmptySet, ScanNumbers
    <3>6. ScanTyped' BY <2>1, <2>2, <3>1, <3>3, <3>4, <3>5 DEF ScanTyped
    <3>7. ScanTruth' BY <2>1, <3>1 DEF ScanTruth
    <3> QED BY <3>6, <3>7
  <2>4. CASE scan # "stash"
    <3> DEFINE K == {k \in DOMAIN Flat : k <= MaxResults}
               f == [k \in K |-> Flat[k]]
    <3>1. /\ stash' = {} /\ results' = {Flat[k] : k \in K}
          /\ truncated' = (Len(Flat) > MaxResults \/ \E w \in Workers : job[w].truncated)
      BY <1>6, <2>4 DEF merge_workers
    <3>2. \A w \in Workers : job[w].rows \in Seq(ScanRow) BY JobShapes
    <3>3. /\ Flat \in Seq(ScanRow)
          /\ \A k \in DOMAIN Flat :
               \E w \in Workers : \E i \in DOMAIN job[w].rows : Flat[k] = job[w].rows[i]
      BY <3>2, FlatFacts
    <3>4. ASSUME NEW k \in DOMAIN Flat PROVE Flat[k] \in ScanRow /\ RowTrue(Flat[k])
      <4>1. Flat[k] \in ScanRow BY <3>3, ElementOf
      <4>2. RowTrue(Flat[k]) BY <2>1, <3>3 DEF ScanTruth, JobTrue
      <4> QED BY <4>1, <4>2
    <3>5. results' \subseteq ScanRow /\ \A r \in results' : RowTrue(r)
      <4> HIDE DEF ScanRow
      <4> QED BY <3>1, <3>4
    <3>6. IsFiniteSet(results') /\ Cardinality(results') <= MaxResults
      <4>1. K \subseteq 1 .. MaxResults
        <5>1. DOMAIN Flat \subseteq Nat \ {0}
          <6> HIDE DEF ScanRow
          <6> QED BY <3>3
        <5> QED BY <5>1, ScanNumbers
      <4>2. IsFiniteSet(1 .. MaxResults) /\ Cardinality(1 .. MaxResults) = MaxResults
        BY FS_Interval, ScanNumbers
      <4>3. IsFiniteSet(K) /\ Cardinality(K) <= MaxResults BY <4>1, <4>2, FS_Subset
      <4>4. f \in Surjection(K, results') BY <3>1 DEF Surjection
      <4>5. IsFiniteSet(results') /\ Cardinality(results') <= Cardinality(K)
        BY <4>3, <4>4, FS_Surjection
      <4>6. Cardinality(results') \in Nat /\ Cardinality(K) \in Nat
        BY <4>3, <4>5, FS_CardinalityType
      <4> QED BY <4>3, <4>5, <4>6, ScanNumbers
    <3>7. IsFiniteSet({}) BY FS_EmptySet
    <3>8. ScanTyped' BY <2>1, <2>2, <3>1, <3>5, <3>6, <3>7 DEF ScanTyped
    <3>9. \A r \in results' : RowTrue(r)' BY <1>s, <2>1, <3>5
    <3>10. ScanTruth' BY <2>1, <3>9 DEF ScanTruth
    <3> QED BY <3>8, <3>10
  <2> QED BY <2>3, <2>4
<1>7. CASE scan_reset
  <2>1. /\ results' = {} /\ stash' = {} /\ truncated' = FALSE /\ scan' = "no"
        /\ UNCHANGED <<bytes, areas, rows, job, next_row>>
    BY <1>7 DEF scan_reset
  <2>2. \A w \in Workers : JobOK(job[w])' BY <2>1 DEF ScanTyped, JobOK
  <2>3. IsFiniteSet({}) /\ Cardinality({}) <= MaxResults BY FS_EmptySet, ScanNumbers
  <2>4. ScanTyped' BY <2>1, <2>2, <2>3 DEF ScanTyped
  <2>5. ScanTruth' BY <2>1 DEF ScanTruth
  <2> QED BY <2>4, <2>5
<1>8. CASE cancel
  <2>1. ScanTyped' BY <1>8, ScanTypedStays DEF cancel, ScanTyped
  <2>2. ScanTruth' BY <1>8, <1>s, ScanTruthStays DEF cancel
  <2> QED BY <2>1, <2>2
<1> QED BY <1>0, <1>1, <1>2, <1>3, <1>4, <1>5, <1>6, <1>7, <1>8 DEF ScanNext, WorkerStep

LEMMA ScanTypes == ScanTyped => ScanTypeOK
<1> SUFFICES ASSUME ScanTyped PROVE ScanTypeOK
  OBVIOUS
<1>1. ScanRow \subseteq [addr : Space, bits : [1 .. Slot -> {0, 1}]] BY DEF ScanRow, ScanBits
<1> QED BY <1>1 DEF ScanTyped, ScanTypeOK

\* Every row a finished scan shows is what the target holds and passes the
\* comparison, unless the target changed it after the worker's read: whichever
\* workers ran, whatever was split, merged, cut off or scanned again.
THEOREM RowsStayTrue == ScanSpec => []RowsAreTrue
<1>1. ScanTruth => RowsAreTrue BY DEF ScanTruth, RowsAreTrue, RowTrue
<1> QED BY <1>1, ScanInitTyped, ScanStep, PTL DEF ScanSpec

-----------------------------------------------------------------------------
(* The scanner: nothing is lost.  First the geometry of a split read.      *)

LEMMA Multiples ==
  /\ \A x, y, c \in Nat : x <= y => x * c <= y * c
  /\ \A x, y, c \in Nat : x * c < y * c => x < y
  /\ \A x, y, c \in Nat : (x + y) * c = x * c + y * c
  /\ \A x, c \in Nat : (x + 1) * c = x * c + c /\ x * c \in Nat
<1>1. \A x, y, c \in Nat : (x + y) * c = x * c + y * c OBVIOUS
<1>2. \A x, c \in Nat : (x + 1) * c = x * c + c /\ x * c \in Nat OBVIOUS
<1>3. ASSUME NEW x \in Nat, NEW y \in Nat, NEW c \in Nat, x <= y PROVE x * c <= y * c
  <2>1. PICK d \in Nat : y = x + d
    <3>1. y - x \in Nat /\ y = x + (y - x) BY <1>3
    <3> QED BY <3>1
  <2>2. y * c = x * c + d * c BY <1>1, <2>1
  <2>3. x * c \in Nat /\ d * c \in Nat BY <1>2
  <2> QED BY <2>2, <2>3
<1>4. ASSUME NEW x \in Nat, NEW y \in Nat, NEW c \in Nat, x * c < y * c PROVE x < y
  <2> SUFFICES ASSUME y <= x PROVE FALSE
    OBVIOUS
  <2>1. y * c <= x * c BY <1>3
  <2>2. x * c \in Nat /\ y * c \in Nat BY <1>2
  <2> QED BY <1>4, <2>1, <2>2
<1> QED BY <1>1, <1>2, <1>3, <1>4

\* A number is a multiple of c and a rest.
LEMMA Division ==
  ASSUME NEW o \in Nat, NEW c \in Nat, c > 0
  PROVE  /\ o \div c \in Nat /\ o % c \in Nat /\ o % c < c
         /\ o = (o \div c) * c + (o % c)
<1>1. o \div c \in Nat OBVIOUS
<1>2. o % c \in Nat /\ o % c < c OBVIOUS
<1>3. o = c * (o \div c) + (o % c) OBVIOUS
<1>4. c * (o \div c) = (o \div c) * c BY <1>1
<1> QED BY <1>1, <1>2, <1>3, <1>4

\* Where chunk n of an area ends.
StopOf(r, n) == r.base + (IF r.size < (n + 1) * r.chunk THEN r.size ELSE (n + 1) * r.chunk)

\* A segment starts on a leaf of a chunk, and ends on one or with the chunk.
FitsAt(r, s, n, q) ==
  /\ s.addr = r.base + n * r.chunk + q * Page
  /\ s.addr + s.len <= StopOf(r, n)
  /\ \/ s.addr + s.len = StopOf(r, n)
     \/ \E t \in Nat : s.addr + s.len = r.base + n * r.chunk + t * Page
Fits(r, s) == \E n, q \in Nat : FitsAt(r, s, n, q)

LEMMA AreaNumbers ==
  ASSUME NEW r \in ScanArea
  PROVE  /\ r.base \in Nat /\ r.size \in Nat /\ r.size > 0 /\ r.chunk \in Nat /\ r.chunk > 0
         /\ r.old \in Seq({0, 1}) /\ Bytes(r.base, r.size) \subseteq Space
  BY DEF ScanArea

\* The block of an address: chunk n, leaf q.
BlockAt(r, a, n, q) ==
  /\ n \in Nat /\ q \in Nat
  /\ n * r.chunk <= a - r.base /\ a - r.base < (n + 1) * r.chunk
  /\ r.base + n * r.chunk + q * Page <= a /\ a < r.base + n * r.chunk + q * Page + Page
  /\ BlockOf(r, a) = {b \in Space : /\ r.base + n * r.chunk + q * Page <= b
                                    /\ b < r.base + n * r.chunk + q * Page + Page
                                    /\ b < StopOf(r, n)}

LEMMA BlockFacts ==
  ASSUME NEW r \in ScanArea, NEW a \in Nat, r.base <= a
  PROVE  \E n, q : BlockAt(r, a, n, q)
<1> DEFINE o == a - r.base
           n == o \div r.chunk
           m == o % r.chunk
           q == m \div Page
           e == m % Page
<1>1. /\ r.base \in Nat /\ r.size \in Nat /\ r.chunk \in Nat /\ r.chunk > 0
      /\ Page \in Nat /\ Page > 0
  BY AreaNumbers, ScanNumbers
<1>2. o \in Nat BY <1>1
<1>b. BlockOf(r, a) = {b \in Space : /\ r.base + n * r.chunk + q * Page <= b
                                     /\ b < r.base + n * r.chunk + q * Page + Page
                                     /\ b < StopOf(r, n)}
  BY DEF BlockOf, StopOf
<1> HIDE DEF o
<1>3. n \in Nat /\ m \in Nat /\ m < r.chunk /\ o = n * r.chunk + m BY <1>1, <1>2, Division
<1> HIDE DEF n, m
<1>4. q \in Nat /\ e \in Nat /\ e < Page /\ m = q * Page + e BY <1>1, <1>3, Division
<1> HIDE DEF q, e
<1>5. (n + 1) * r.chunk = n * r.chunk + r.chunk /\ n * r.chunk \in Nat /\ q * Page \in Nat
  BY <1>1, <1>3, <1>4, Multiples
<1>6. a = r.base + o BY <1>1 DEF o
<1> DEFINE nc == n * r.chunk
           qp == q * Page
<1>7. nc \in Nat /\ qp \in Nat /\ (n + 1) * r.chunk = nc + r.chunk /\ o = nc + m /\ m = qp + e
  BY <1>3, <1>4, <1>5
<1>8. n * r.chunk = nc /\ q * Page = qp OBVIOUS
<1> HIDE DEF nc, qp
<1>9. /\ nc <= a - r.base /\ a - r.base < (n + 1) * r.chunk
      /\ r.base + nc + qp <= a /\ a < r.base + nc + qp + Page
  BY <1>1, <1>3, <1>4, <1>6, <1>7
<1>10. BlockAt(r, a, n, q) BY <1>3, <1>4, <1>8, <1>9, <1>b DEF BlockAt
<1> QED BY <1>10

\* The block of an address in a segment lies in it, and is all of a leaf.
LEMMA SegBlock ==
  ASSUME NEW r \in ScanArea, NEW s \in ScanSeg, Fits(r, s), NEW a \in Bytes(s.addr, s.len)
  PROVE  /\ BlockOf(r, a) \subseteq Bytes(s.addr, s.len)
         /\ s.len <= Page => Bytes(s.addr, s.len) \subseteq BlockOf(r, a)
<1>1. /\ r.base \in Nat /\ r.size \in Nat /\ r.chunk \in Nat /\ r.chunk > 0
      /\ Page \in Nat /\ Page > 0 /\ Bytes(r.base, r.size) \subseteq Space
  BY AreaNumbers, ScanNumbers
<1>2. s.addr \in Nat /\ s.len \in Nat /\ s.len > 0 BY DEF ScanSeg
<1>3. PICK n \in Nat, q \in Nat : FitsAt(r, s, n, q) BY DEF Fits
<1> DEFINE nc == n * r.chunk
           qp == q * Page
           stop == StopOf(r, n)
           end == s.addr + s.len
<1>4. /\ nc \in Nat /\ qp \in Nat /\ (n + 1) * r.chunk = nc + r.chunk
  BY <1>1, <1>3, Multiples
<1>5. /\ s.addr = r.base + nc + qp /\ end <= stop
      /\ end = stop \/ \E t \in Nat : end = r.base + nc + t * Page
  BY <1>3 DEF FitsAt
<1>6. stop \in Int /\ stop <= r.base + r.size /\ stop <= r.base + nc + r.chunk
  BY <1>1, <1>4 DEF StopOf
<1>7. a \in Nat /\ s.addr <= a /\ a < end BY <1>2 DEF Bytes
<1> HIDE DEF nc, qp, stop, end
<1>8. r.base <= a BY <1>1, <1>4, <1>5, <1>7
<1>9. PICK n0, q0 : BlockAt(r, a, n0, q0) BY <1>7, <1>8, BlockFacts
<1>10. n0 \in Nat /\ q0 \in Nat /\ n0 * r.chunk <= a - r.base /\ a - r.base < (n0 + 1) * r.chunk
  BY <1>9 DEF BlockAt
<1>e. end \in Int BY <1>2 DEF end
<1>11. n0 = n
  <2>1. nc <= a - r.base /\ a - r.base < nc + r.chunk
    BY <1>1, <1>2, <1>4, <1>5, <1>6, <1>7, <1>e
  <2>2. n0 * r.chunk \in Nat /\ (n0 + 1) * r.chunk = n0 * r.chunk + r.chunk
    BY <1>1, <1>10, Multiples
  <2>3. n0 * r.chunk < (n + 1) * r.chunk BY <1>1, <1>4, <1>7, <1>10, <2>1, <2>2
  <2>4. n * r.chunk < (n0 + 1) * r.chunk BY <1>1, <1>4, <1>7, <1>10, <2>1, <2>2 DEF nc
  <2>5. n0 < n + 1 /\ n < n0 + 1
    <3>1. n + 1 \in Nat /\ n0 + 1 \in Nat BY <1>10
    <3> QED BY <1>1, <1>10, <2>3, <2>4, <3>1, Multiples
  <2> QED BY <1>10, <2>5
<1> DEFINE zp == q0 * Page
<1>12. /\ r.base + nc + zp <= a /\ a < r.base + nc + zp + Page
       /\ BlockOf(r, a) = {b \in Space : r.base + nc + zp <= b /\ b < r.base + nc + zp + Page
                                         /\ b < stop}
  BY <1>9, <1>11 DEF BlockAt, nc, stop
<1>13. zp \in Nat /\ (q0 + 1) * Page = zp + Page /\ (q + 1) * Page = qp + Page
  BY <1>1, <1>3, <1>10, Multiples DEF qp
<1> HIDE DEF zp
\* The block does not begin before the segment.
<1>14. qp <= zp
  <2>1. qp < zp + Page BY <1>1, <1>4, <1>5, <1>7, <1>12, <1>13
  <2>2. q * Page < (q0 + 1) * Page BY <1>13, <2>1 DEF qp
  <2>3. q0 + 1 \in Nat BY <1>10
  <2>4. q < q0 + 1 BY <1>1, <1>3, <2>2, <2>3, Multiples
  <2>5. q <= q0 BY <1>3, <1>10, <2>4
  <2> QED BY <1>1, <1>3, <1>10, <2>5, Multiples DEF qp, zp
\* It does not reach beyond it.
<1>15. end = stop \/ r.base + nc + zp + Page <= end
  <2> SUFFICES ASSUME end # stop PROVE r.base + nc + zp + Page <= end
    OBVIOUS
  <2>1. PICK t \in Nat : end = r.base + nc + t * Page BY <1>5
  <2>2. t * Page \in Nat BY <1>1, Multiples
  <2>3. zp < t * Page BY <1>1, <1>4, <1>7, <1>12, <1>13, <2>1, <2>2
  <2>4. q0 * Page < t * Page BY <2>3 DEF zp
  <2>5. q0 < t BY <1>1, <1>10, <2>4, Multiples
  <2>6. q0 + 1 <= t /\ q0 + 1 \in Nat BY <1>10, <2>5
  <2>7. (q0 + 1) * Page <= t * Page BY <1>1, <2>6, Multiples
  <2> QED BY <1>1, <1>4, <1>13, <2>1, <2>2, <2>7
<1>16. ASSUME NEW b \in BlockOf(r, a) PROVE b \in Bytes(s.addr, s.len)
  <2>1. b \in Nat /\ r.base + nc + zp <= b /\ b < r.base + nc + zp + Page /\ b < stop
    BY <1>12, SpaceNumbers
  <2>2. s.addr <= b BY <1>1, <1>4, <1>5, <1>13, <1>14, <2>1
  <2>3. b < end BY <1>1, <1>4, <1>6, <1>13, <1>15, <1>e, <2>1
  <2> QED BY <1>2, <2>1, <2>2, <2>3 DEF Bytes, end
<1>17. ASSUME s.len <= Page, NEW b \in Bytes(s.addr, s.len) PROVE b \in BlockOf(r, a)
  <2>1. b \in Nat /\ s.addr <= b /\ b < end BY <1>2 DEF Bytes, end
  <2>2. zp <= qp
    <3>1. zp < qp + Page
      <4>1. end <= s.addr + Page BY <1>1, <1>2, <1>17 DEF end
      <4> QED BY <1>1, <1>2, <1>4, <1>5, <1>7, <1>12, <1>13, <1>e, <4>1
    <3>2. q0 * Page < (q + 1) * Page BY <1>13, <3>1 DEF zp
    <3>3. q + 1 \in Nat BY <1>3
    <3>4. q0 < q + 1 BY <1>1, <1>10, <3>2, <3>3, Multiples
    <3>5. q0 <= q BY <1>3, <1>10, <3>4
    <3> QED BY <1>1, <1>3, <1>10, <3>5, Multiples DEF qp, zp
  <2>3. zp = qp BY <1>4, <1>13, <1>14, <2>2
  <2>4. r.base + nc + zp <= b /\ b < r.base + nc + zp + Page /\ b < stop
    <3>1. end <= s.addr + Page BY <1>1, <1>2, <1>17 DEF end
    <3> QED BY <1>1, <1>2, <1>4, <1>5, <1>6, <1>e, <2>1, <2>3, <3>1
  <2>5. b \in Space
    <3>1. r.base <= b /\ b < r.base + r.size BY <1>1, <1>4, <1>6, <1>13, <2>1, <2>4
    <3>2. b \in Bytes(r.base, r.size) BY <1>1, <2>1, <3>1 DEF Bytes
    <3> QED BY <1>1, <3>2
  <2> QED BY <1>12, <2>4, <2>5
<1> QED BY <1>16, <1>17

\* The chunk at a cursor that stands on a multiple of the chunk size fits, and
\* leaves the cursor on the next multiple or behind the area.
LEMMA ChunkFits ==
  ASSUME NEW r \in ScanArea, NEW n \in Nat, NEW off \in Nat, off - 1 = n * r.chunk, off <= r.size,
         NEW want, want = IF r.chunk < r.size - off + 1 THEN r.chunk ELSE r.size - off + 1
  PROVE  /\ Fits(r, [addr |-> r.base + off - 1, len |-> want])
         /\ off + want > r.size \/ \E m \in Nat : (off + want) - 1 = m * r.chunk
<1> DEFINE nc == n * r.chunk
           s == [addr |-> r.base + off - 1, len |-> want]
<1>1. /\ r.base \in Nat /\ r.size \in Nat /\ r.chunk \in Nat /\ r.chunk > 0
      /\ Page \in Nat /\ Page > 0
  BY AreaNumbers, ScanNumbers
<1>2. nc \in Nat /\ (n + 1) * r.chunk = nc + r.chunk /\ 0 * Page = 0 BY <1>1, Multiples
<1>3. off - 1 = nc OBVIOUS
<1>4. n * r.chunk = nc OBVIOUS
<1>5. s.addr = r.base + off - 1 /\ s.len = want OBVIOUS
<1> HIDE DEF nc, s
<1>6. s.addr = r.base + nc + 0 * Page /\ s.addr \in Nat BY <1>1, <1>2, <1>3, <1>5
<1>7. s.addr + s.len = StopOf(r, n) /\ StopOf(r, n) \in Int
  <2>1. CASE r.chunk < r.size - off + 1
    <3>1. want = r.chunk /\ ~ (r.size < nc + r.chunk) BY <1>1, <1>2, <1>3, <2>1
    <3>2. StopOf(r, n) = r.base + (nc + r.chunk) BY <1>1, <1>2, <3>1 DEF StopOf
    <3> QED BY <1>1, <1>2, <1>3, <1>5, <3>1, <3>2
  <2>2. CASE ~ (r.chunk < r.size - off + 1)
    <3>1. want = r.size - off + 1 BY <2>2
    <3>2. r.size < nc + r.chunk => StopOf(r, n) = r.base + r.size BY <1>2 DEF StopOf
    <3>3. ~ (r.size < nc + r.chunk) => StopOf(r, n) = r.base + (nc + r.chunk) BY <1>2 DEF StopOf
    <3>4. StopOf(r, n) = r.base + r.size BY <1>1, <1>2, <1>3, <2>2, <3>2, <3>3
    <3>5. s.addr = r.base + nc BY <1>1, <1>2, <1>3, <1>5
    <3>6. s.len = r.size - nc BY <1>1, <1>2, <1>3, <1>5, <3>1
    <3> QED BY <1>1, <1>2, <3>4, <3>5, <3>6
  <2> QED BY <2>1, <2>2
<1>8. FitsAt(r, s, n, 0) BY <1>4, <1>6, <1>7 DEF FitsAt
<1>9. Fits(r, s) BY <1>8 DEF Fits
<1>10. off + want > r.size \/ \E m \in Nat : (off + want) - 1 = m * r.chunk
  <2>1. CASE r.chunk < r.size - off + 1
    <3>1. want = r.chunk BY <2>1
    <3>2. (off + want) - 1 = nc + r.chunk /\ n + 1 \in Nat BY <1>1, <1>2, <1>3, <3>1
    <3> QED BY <1>2, <3>2
  <2>2. CASE ~ (r.chunk < r.size - off + 1) BY <1>1, <2>2
  <2> QED BY <2>1, <2>2
<1> QED BY <1>9, <1>10 DEF s

\* The halves of a segment fit as it does.
LEMMA HalvesFit ==
  ASSUME NEW r \in ScanArea, NEW s \in ScanSeg, Fits(r, s), s.len > Page
  PROVE  /\ Fits(r, Halves(s)[1]) /\ Fits(r, Halves(s)[2])
         /\ Bytes(s.addr, s.len) \subseteq Bytes(Halves(s)[1].addr, Halves(s)[1].len)
                                           \cup Bytes(Halves(s)[2].addr, Halves(s)[2].len)
<1> DEFINE c == Cut(s)
           lo == [addr |-> s.addr, len |-> c]
           hi == [addr |-> s.addr + c, len |-> s.len - c]
<1>1. /\ r.base \in Nat /\ r.size \in Nat /\ r.chunk \in Nat /\ r.chunk > 0
      /\ Page \in Nat /\ Page > 0
  BY AreaNumbers, ScanNumbers
<1>2. s.addr \in Nat /\ s.len \in Nat /\ s.len > 0 BY DEF ScanSeg
<1>3. PICK u \in Nat : c = u * Page BY CutFacts
<1>4. c \in Nat /\ c > 0 /\ c < s.len BY CutFacts
<1>5. PICK n \in Nat, q \in Nat : FitsAt(r, s, n, q) BY DEF Fits
<1>6. Halves(s)[1] = lo /\ Halves(s)[2] = hi BY DEF Halves
<1>7. lo.addr = s.addr /\ lo.len = c /\ hi.addr = s.addr + c /\ hi.len = s.len - c OBVIOUS
<1> HIDE DEF c, lo, hi
<1> DEFINE nc == n * r.chunk
<1>8. /\ s.addr = r.base + nc + q * Page /\ s.addr + s.len <= StopOf(r, n)
      /\ \/ s.addr + s.len = StopOf(r, n)
         \/ \E t \in Nat : s.addr + s.len = r.base + nc + t * Page
  BY <1>5 DEF FitsAt
<1>9. nc \in Nat /\ (n + 1) * r.chunk = nc + r.chunk /\ q * Page \in Nat
      /\ (q + u) * Page = q * Page + u * Page
  BY <1>1, <1>3, <1>5, Multiples
<1>10. StopOf(r, n) \in Int BY <1>1, <1>9 DEF StopOf
<1>11. n * r.chunk = nc OBVIOUS
<1> HIDE DEF nc
<1>12. s.addr + c = r.base + nc + (q + u) * Page /\ q + u \in Nat BY <1>1, <1>2, <1>3, <1>4, <1>8, <1>9
<1>13. FitsAt(r, lo, n, q)
  <2>1. lo.addr + lo.len <= StopOf(r, n) BY <1>2, <1>4, <1>7, <1>8, <1>10
  <2>2. lo.addr + lo.len = r.base + nc + (q + u) * Page BY <1>7, <1>12
  <2> QED BY <1>7, <1>8, <1>11, <1>12, <2>1, <2>2 DEF FitsAt
<1>14. FitsAt(r, hi, n, q + u)
  <2>1. hi.addr + hi.len = s.addr + s.len BY <1>2, <1>4, <1>7
  <2> QED BY <1>7, <1>8, <1>11, <1>12, <2>1 DEF FitsAt
<1>15. Fits(r, lo) /\ Fits(r, hi) BY <1>12, <1>13, <1>14 DEF Fits
<1>16. Bytes(s.addr, s.len) \subseteq Bytes(lo.addr, lo.len) \cup Bytes(hi.addr, hi.len)
  BY <1>2, <1>4, <1>7 DEF Bytes
<1> QED BY <1>6, <1>15, <1>16

\* A matching value that a scan must find: in a readable block, left alone.
OldBits(r, a) == IF r.old = <<>> THEN <<>> ELSE [i \in 1 .. Slot |-> r.old[a - r.base + i]]
Good(r, a) ==
  /\ Bytes(a, Slot) \subseteq BlockOf(r, a) /\ Still(BlockOf(r, a))
  /\ \A b \in BlockOf(r, a) : PageOf(b) \in readable
  /\ check_value(Load(bytes, a), OldBits(r, a))

\* Where the value at a of area k is, as far as worker record j goes: in an area
\* further along its stride, at or behind its cursor, in a segment, or found.
Ahead(j, k) == \E m \in Nat : m > 0 /\ k = j.area + m * Cardinality(Workers)
Coming(j, k, a) == j.area = k /\ (j.off = 0 \/ a - areas[k].base >= j.off - 1)
InHand(j, k, a) == j.area = k /\ \E i \in DOMAIN j.segs : a \in Bytes(j.segs[i].addr, j.segs[i].len)
Taken(j, a) == IF scan = "stash" THEN j.copies # {} ELSE \E i \in DOMAIN j.rows : j.rows[i].addr = a
Located(j, k, a) == Ahead(j, k) \/ Coming(j, k, a) \/ InHand(j, k, a) \/ Taken(j, a)

\* The cursor and the segments of a worker.
JobFits(j) ==
  /\ j.off > 0 => \/ j.off > areas[j.area].size
                  \/ \E n \in Nat : j.off - 1 = n * areas[j.area].chunk
  /\ j.segs # <<>> => j.off > 0
  /\ \A i \in DOMAIN j.segs : Fits(areas[j.area], j.segs[i])

Walks == {"values", "stash", "compare"}
Clean == ~tok /\ \A w \in Workers : ~job[w].truncated

WalkShape ==
  scan \in Walks =>
    /\ rows = <<>> /\ \A w \in Workers : JobFits(job[w])
    /\ \A k \in DOMAIN areas : scan = "compare" <=> areas[k].old # <<>>
    /\ aborted => \E w \in Workers : job[w].truncated
WalkDone == scan \in Walks /\ Clean => \A w \in Workers : job[w].done => job[w].area > Len(areas)
WalkHas ==
  scan \in Walks /\ Clean =>
    \A k \in DOMAIN areas : \A a \in Bytes(areas[k].base, areas[k].size) :
       Good(areas[k], a) => \E w \in Workers : Located(job[w], k, a)

\* The same for the rows of a rescan: not handed out yet, with a worker, or kept.
GoodRow(r) ==
  Still(Bytes(r.addr, Slot)) /\ ReadOK(r.addr, Slot) /\ check_value(Load(bytes, r.addr), r.bits)
RowKept(j, a) == \E i \in DOMAIN j.rows : j.rows[i].addr = a
RowsDone ==
  scan = "rows" =>
    /\ areas = <<>>
    /\ Clean => \A w \in Workers : job[w].done => next_row > Len(rows) /\ job[w].todo = {}
RowsHas ==
  scan = "rows" /\ Clean =>
    \A k \in DOMAIN rows : GoodRow(rows[k]) =>
       k >= next_row \/ \E w \in Workers : k \in job[w].todo \/ RowKept(job[w], rows[k].addr)

ScanCovers == WalkShape /\ WalkDone /\ WalkHas /\ RowsDone /\ RowsHas /\ ScanIsComplete

\* What a worker's step keeps, from its record o to its record j.
Keeps(o, j) ==
  /\ JobFits(j) /\ (o.truncated => j.truncated)
  /\ j.done => j.truncated \/ tok \/ aborted \/ j.area > Len(areas)
  /\ ~tok /\ ~j.truncated =>
       \A k \in DOMAIN areas : \A a \in Bytes(areas[k].base, areas[k].size) :
          Good(areas[k], a) /\ Located(o, k, a) => Located(j, k, a)

LEMMA BytesNumbers ==
  ASSUME ScanTyped, NEW k \in DOMAIN areas, NEW a \in Bytes(areas[k].base, areas[k].size)
  PROVE  /\ areas[k] \in ScanArea /\ k \in Nat /\ k > 0 /\ k <= Len(areas) /\ Len(areas) \in Nat
         /\ areas[k].base \in Nat /\ areas[k].size \in Nat
         /\ a \in Nat /\ areas[k].base <= a /\ a < areas[k].base + areas[k].size
<1>1. areas \in Seq(ScanArea) BY DEF ScanTyped
<1>2. areas[k] \in ScanArea BY <1>1, ElementOf
<1>3. k \in Nat /\ k > 0 /\ k <= Len(areas) /\ Len(areas) \in Nat
  <2> HIDE DEF ScanArea
  <2> QED BY <1>1
<1>4. areas[k].base \in Nat /\ areas[k].size \in Nat BY <1>2, AreaNumbers
<1> QED BY <1>2, <1>3, <1>4 DEF Bytes

LEMMA KeepTakeArea ==
  ASSUME ScanTyped, NEW w \in Workers, JobFits(job[w]), TakeArea(w)
  PROVE  \E j : job' = [job EXCEPT ![w] = j] /\ Keeps(job[w], j)
<1> DEFINE o == job[w]
<1>j. o.area \in Nat \ {0} /\ o.off \in Nat /\ o \in ScanJob BY JobShapes
<1>2. o.segs = <<>> /\ o.off = 0 /\ ~o.done BY DEF TakeArea, Walking
<1>f. JobFits(o) OBVIOUS
<1>l. areas \in Seq(ScanArea) /\ Len(areas) \in Nat
  <2> HIDE DEF ScanArea
  <2> QED BY DEF ScanTyped
<1>3. CASE aborted \/ tok \/ o.area > Len(areas)
  <2> DEFINE j == [o EXCEPT !.done = TRUE]
  <2>1. job' = [job EXCEPT ![w] = j] BY <1>3 DEF TakeArea, SetJob
  <2> HIDE DEF o
  <2>2. /\ j.area = o.area /\ j.segs = o.segs /\ j.rows = o.rows /\ j.copies = o.copies
        /\ j.truncated = o.truncated /\ j.off = o.off
    <3> HIDE DEF ScanRow, ScanCopy, ScanSeg
    <3> QED BY <1>j DEF ScanJob
  <2> HIDE DEF j
  <2>3. JobFits(j) BY <1>f, <2>2 DEF JobFits
  <2>4. \A k, a : Located(o, k, a) => Located(j, k, a)
    BY <2>2 DEF Located, Ahead, Coming, InHand, Taken
  <2>5. Keeps(o, j) BY <1>3, <2>2, <2>3, <2>4 DEF Keeps
  <2> QED BY <2>1, <2>5 DEF o
<1>4. CASE ~(aborted \/ tok \/ o.area > Len(areas))
  <2> DEFINE j == [o EXCEPT !.off = 1]
  <2>1. job' = [job EXCEPT ![w] = j] BY <1>4 DEF TakeArea, SetJob
  <2> HIDE DEF o
  <2>2. /\ j.area = o.area /\ j.segs = o.segs /\ j.rows = o.rows /\ j.copies = o.copies
        /\ j.truncated = o.truncated /\ j.off = 1 /\ j.done = o.done
    <3> HIDE DEF ScanRow, ScanCopy, ScanSeg
    <3> QED BY <1>j DEF ScanJob
  <2> HIDE DEF j
  <2>3. JobFits(j)
    <3>1. j.area \in DOMAIN areas
      <4> HIDE DEF ScanArea
      <4> QED BY <1>4, <1>j, <1>l, <2>2
    <3>2. areas[j.area] \in ScanArea BY <1>l, <3>1, ElementOf
    <3>3. areas[j.area].chunk \in Nat BY <3>2, AreaNumbers
    <3>4. j.off - 1 = 0 * areas[j.area].chunk BY <2>2, <3>3
    <3>5. DOMAIN j.segs = {} BY <1>2, <2>2
    <3> QED BY <2>2, <3>4, <3>5 DEF JobFits
  <2>4. ASSUME NEW k \in DOMAIN areas, NEW a \in Bytes(areas[k].base, areas[k].size), Located(o, k, a)
        PROVE  Located(j, k, a)
    <3>1. a - areas[k].base >= j.off - 1 BY <2>2, BytesNumbers
    <3>2. Ahead(o, k) => Ahead(j, k) BY <2>2 DEF Ahead
    <3>3. Coming(o, k, a) => Coming(j, k, a) BY <2>2, <3>1 DEF Coming
    <3>4. InHand(o, k, a) => InHand(j, k, a) BY <2>2 DEF InHand
    <3>5. Taken(o, a) => Taken(j, a) BY <2>2 DEF Taken
    <3> QED BY <2>4, <3>2, <3>3, <3>4, <3>5 DEF Located
  <2>5. Keeps(o, j) BY <1>2, <2>2, <2>3, <2>4 DEF Keeps
  <2> QED BY <2>1, <2>5 DEF o
<1> QED BY <1>3, <1>4

LEMMA KeepTakeChunk ==
  ASSUME ScanTyped, NEW w \in Workers, JobFits(job[w]), TakeChunk(w)
  PROVE  \E j : job' = [job EXCEPT ![w] = j] /\ Keeps(job[w], j)
<1> DEFINE o == job[w]
           N == Cardinality(Workers)
<1>j. o.area \in Nat \ {0} /\ o.off \in Nat /\ o \in ScanJob /\ o.truncated \in BOOLEAN BY JobShapes
<1>n. N \in Nat BY ScanNumbers
<1>2. o.segs = <<>> /\ o.off > 0 /\ ~o.done BY DEF TakeChunk, Walking
<1>f. JobFits(o) OBVIOUS
<1>a. /\ o.area \in DOMAIN areas /\ areas[o.area] \in ScanArea /\ Area(w) = areas[o.area]
      /\ Area(w).base \in Nat /\ Area(w).size \in Nat \ {0} /\ Area(w).chunk \in Nat \ {0}
  BY <1>2, AreaShapes DEF Area
<1>3. CASE o.off > Area(w).size \/ o.truncated \/ tok
  <2> DEFINE far == o.area + N
             j == [o EXCEPT !.area = far, !.off = 0, !.done = o.truncated]
  <2>1. job' = [job EXCEPT ![w] = j] BY <1>3 DEF TakeChunk, SetJob
  <2> HIDE DEF o
  <2>r. far \in Nat BY <1>j, <1>n
  <2>2. /\ j.area = far /\ j.segs = o.segs /\ j.rows = o.rows /\ j.copies = o.copies
        /\ j.truncated = o.truncated /\ j.off = 0 /\ j.done = o.truncated
    <3> HIDE DEF ScanRow, ScanCopy, ScanSeg, far
    <3> QED BY <1>j DEF ScanJob
  <2> HIDE DEF j
  <2>3. JobFits(j)
    <3>1. DOMAIN j.segs = {} /\ j.segs = <<>> BY <1>2, <2>2
    <3> QED BY <2>2, <3>1 DEF JobFits
  <2>4. ASSUME ~tok, ~j.truncated, NEW k \in DOMAIN areas,
               NEW a \in Bytes(areas[k].base, areas[k].size), Located(o, k, a)
        PROVE  Located(j, k, a)
    <3>1. CASE Ahead(o, k)
      <4>1. PICK m \in Nat : m > 0 /\ k = o.area + m * N BY <3>1 DEF Ahead
      <4>2. (m - 1 + 1) * N = (m - 1) * N + N /\ (m - 1) * N \in Nat /\ m - 1 \in Nat
        <5>1. m - 1 \in Nat BY <4>1
        <5> QED BY <1>n, <5>1, Multiples
      <4>3. m - 1 + 1 = m BY <4>1
      <4>4. m * N = (m - 1) * N + N BY <4>2, <4>3
      <4>5. k = j.area + (m - 1) * N BY <1>j, <1>n, <2>2, <4>1, <4>2, <4>4
      <4>6. CASE m = 1
        <5>1. (m - 1) * N = 0 BY <1>n, <4>6
        <5>2. k = j.area BY <2>r, <2>2, <4>5, <5>1
        <5> QED BY <2>2, <5>2 DEF Located, Coming
      <4>7. CASE m # 1
        <5>1. m - 1 > 0 BY <4>1, <4>7
        <5> QED BY <4>2, <4>5, <5>1 DEF Located, Ahead
      <4> QED BY <4>6, <4>7
    <3>2. CASE Coming(o, k, a)
      <4>1. o.off > Area(w).size BY <1>3, <2>2, <2>4
      <4>2. k = o.area /\ a - areas[k].base >= o.off - 1 BY <1>2, <3>2 DEF Coming
      <4>3. a < areas[k].base + areas[k].size /\ a \in Nat /\ areas[k].base \in Nat /\ areas[k].size \in Nat
        BY BytesNumbers
      <4> QED BY <1>j, <1>a, <4>1, <4>2, <4>3
    <3>3. CASE InHand(o, k, a) BY <1>2, <3>3 DEF InHand
    <3>4. CASE Taken(o, a) BY <2>2, <3>4 DEF Located, Taken
    <3> QED BY <2>4, <3>1, <3>2, <3>3, <3>4 DEF Located
  <2>5. Keeps(o, j) BY <1>2, <2>2, <2>3, <2>4 DEF Keeps
  <2> QED BY <2>1, <2>5 DEF o
<1>4. CASE ~(o.off > Area(w).size \/ o.truncated \/ tok)
  <2> DEFINE r == areas[o.area]
             want == IF r.chunk < r.size - o.off + 1 THEN r.chunk ELSE r.size - o.off + 1
             seg == [addr |-> r.base + o.off - 1, len |-> want]
             on == o.off + want
             j == [o EXCEPT !.off = on, !.segs = <<seg>>]
  <2>1. job' = [job EXCEPT ![w] = j] BY <1>4 DEF TakeChunk, SetJob, Area
  <2>r. r \in ScanArea /\ r.base \in Nat /\ r.size \in Nat /\ r.chunk \in Nat /\ r.chunk > 0
    BY <1>a
  <2> HIDE DEF o
  <2>o. o.off <= r.size /\ o.off \in Nat BY <1>4, <1>a, <1>j
  <2>n. PICK n \in Nat : o.off - 1 = n * r.chunk BY <1>2, <1>a, <1>f, <2>o, <1>4 DEF JobFits
  <2> HIDE DEF r
  <2>w. want \in Nat BY <2>r, <2>o
  <2>v. want = IF r.chunk < r.size - o.off + 1 THEN r.chunk ELSE r.size - o.off + 1 OBVIOUS
  <2> HIDE DEF want
  <2>c. Fits(r, seg) /\ (on > r.size \/ \E m \in Nat : on - 1 = m * r.chunk)
    BY <2>r, <2>n, <2>o, <2>v, ChunkFits
  <2>2. /\ j.area = o.area /\ j.segs = <<seg>> /\ j.rows = o.rows /\ j.copies = o.copies
        /\ j.truncated = o.truncated /\ j.off = on /\ j.done = o.done
    <3> HIDE DEF ScanRow, ScanCopy, ScanSeg, on, seg
    <3> QED BY <1>j DEF ScanJob
  <2>s. seg.addr = r.base + o.off - 1 /\ seg.len = want OBVIOUS
  <2>p. on \in Nat /\ on > 0 BY <1>2, <2>o, <2>w
  <2> HIDE DEF j, seg
  <2>3. JobFits(j)
    <3>1. areas[j.area] = r BY <2>2 DEF r
    <3>2. DOMAIN j.segs = {1} /\ j.segs[1] = seg BY <2>2
    <3> QED BY <2>c, <2>p, <2>2, <3>1, <3>2 DEF JobFits
  <2>4. ASSUME NEW k \in DOMAIN areas, NEW a \in Bytes(areas[k].base, areas[k].size), Located(o, k, a)
        PROVE  Located(j, k, a)
    <3>1. CASE Ahead(o, k) BY <2>2, <3>1 DEF Located, Ahead
    <3>2. CASE Coming(o, k, a)
      <4>1. k = o.area /\ areas[k] = r BY <3>2 DEF Coming, r
      <4>2. a - r.base >= o.off - 1 BY <1>2, <3>2, <4>1 DEF Coming
      <4>3. a \in Nat BY BytesNumbers
      <4>4. CASE a - r.base >= on - 1
        BY <2>2, <4>1, <4>4 DEF Located, Coming
      <4>5. CASE ~ (a - r.base >= on - 1)
        <5>1. a < r.base + o.off - 1 + want BY <2>r, <2>o, <2>w, <4>3, <4>5
        <5>2. a >= r.base + o.off - 1 BY <2>r, <2>o, <4>2, <4>3
        <5>3. a \in Bytes(seg.addr, seg.len) BY <2>r, <2>o, <2>s, <2>w, <4>3, <5>1, <5>2 DEF Bytes
        <5>4. 1 \in DOMAIN j.segs /\ j.segs[1] = seg BY <2>2
        <5> QED BY <2>2, <4>1, <5>3, <5>4 DEF Located, InHand
      <4> QED BY <4>4, <4>5
    <3>3. CASE InHand(o, k, a) BY <1>2, <3>3 DEF InHand
    <3>4. CASE Taken(o, a) BY <2>2, <3>4 DEF Located, Taken
    <3> QED BY <2>4, <3>1, <3>2, <3>3, <3>4 DEF Located
  <2>5. Keeps(o, j) BY <1>2, <2>2, <2>3, <2>4 DEF Keeps
  <2> QED BY <2>1, <2>5 DEF o
<1> QED BY <1>3, <1>4

LEMMA FrontLast ==
  ASSUME NEW A, NEW q \in Seq(A), q # <<>>
  PROVE  /\ Last(q) \in A /\ Front(q) \in Seq(A)
         /\ \E i \in DOMAIN q : q[i] = Last(q)
         /\ \A i \in DOMAIN Front(q) : i \in DOMAIN q /\ Front(q)[i] = q[i]
         /\ \A i \in DOMAIN q : q[i] = Last(q) \/ (i \in DOMAIN Front(q) /\ Front(q)[i] = q[i])
<1>1. Len(q) \in Nat /\ Len(q) > 0 /\ Len(q) \in DOMAIN q /\ DOMAIN q = 1 .. Len(q) OBVIOUS
<1>2. Last(q) = q[Len(q)] BY DEF Last
<1>3. Front(q) \in Seq(A) /\ DOMAIN Front(q) = 1 .. Len(q) - 1
      /\ \A i \in 1 .. Len(q) - 1 : Front(q)[i] = q[i]
  BY <1>1 DEF Front
<1>4. \A i \in DOMAIN q : i = Len(q) \/ i \in 1 .. Len(q) - 1 BY <1>1
<1> QED BY <1>1, <1>2, <1>3, <1>4

\* A value in a segment that was read is a match, if it must be found at all.
LEMMA GoodIsHit ==
  ASSUME ScanTyped, WalkShape, scan \in Walks, NEW w \in Workers, NEW s \in ScanSeg,
         job[w].area \in DOMAIN areas, Fits(areas[job[w].area], s),
         NEW a \in Bytes(s.addr, s.len), Good(areas[job[w].area], a)
  PROVE  a \in Hits(w, s.addr, s.len)
<1> DEFINE r == areas[job[w].area]
<1>1. areas \in Seq(ScanArea) BY DEF ScanTyped
<1>2. r \in ScanArea BY <1>1, ElementOf
<1>3. s.addr \in Nat /\ s.len \in Nat BY DEF ScanSeg
<1>4. BlockOf(r, a) \subseteq Bytes(s.addr, s.len) BY <1>2, SegBlock
<1>5. Bytes(a, Slot) \subseteq Bytes(s.addr, s.len) BY <1>4 DEF Good
<1>6. a \in Int /\ Slot \in Nat /\ Slot > 0 BY <1>3, ScanNumbers DEF Bytes
<1>7. a + Slot - 1 \in Bytes(a, Slot) BY <1>6 DEF Bytes
<1>8. a + Slot - 1 \in Bytes(s.addr, s.len) /\ a \in Bytes(s.addr, s.len) BY <1>5, <1>7
<1>9. a \in s.addr .. s.addr + s.len - Slot BY <1>3, <1>6, <1>8 DEF Bytes
<1>10. scan = "compare" <=> r.old # <<>> BY DEF WalkShape
<1>11. OldBits(r, a) = IF scan # "compare" THEN <<>>
                       ELSE [i \in 1 .. Slot |-> Area(w).old[a - Area(w).base + i]]
  BY <1>10 DEF OldBits, Area
<1>12. check_value(Load(bytes, a), OldBits(r, a)) BY DEF Good
<1> QED BY <1>9, <1>11, <1>12 DEF Hits

\* A leaf that cannot be read holds no value that must be found.
LEMMA GoodIsRead ==
  ASSUME ScanTyped, NEW r \in ScanArea, NEW s \in ScanSeg, Fits(r, s), s.len <= Page,
         NEW a \in Bytes(s.addr, s.len), Good(r, a)
  PROVE  ReadOK(s.addr, s.len)
<1>1. Bytes(s.addr, s.len) \subseteq BlockOf(r, a) BY SegBlock
<1>2. BlockOf(r, a) \subseteq Space BY DEF BlockOf
<1> QED BY <1>1, <1>2 DEF Good, ReadOK

LEMMA KeepReadSegment ==
  ASSUME ScanTyped, WalkShape, NEW w \in Workers, ReadSegment(w)
  PROVE  \E j : job' = [job EXCEPT ![w] = j] /\ Keeps(job[w], j)
<1> DEFINE o == job[w]
           r == areas[o.area]
           s == Last(o.segs)
           rest == Front(o.segs)
<1>j. /\ o.area \in Nat \ {0} /\ o.off \in Nat /\ o \in ScanJob /\ o.truncated \in BOOLEAN
      /\ o.segs \in Seq(ScanSeg) /\ o.rows \in Seq(ScanRow)
  BY JobShapes
<1>2. scan \in Walks /\ o.segs # <<>> /\ ~o.done BY DEF ReadSegment, Walking, Walks
<1>f. JobFits(o) BY <1>2 DEF WalkShape
<1>p. o.off > 0 BY <1>2, <1>f DEF JobFits
<1>a. o.area \in DOMAIN areas /\ r \in ScanArea BY <1>p, AreaShapes DEF Area
<1>3. /\ s \in ScanSeg /\ rest \in Seq(ScanSeg)
      /\ \E i \in DOMAIN o.segs : o.segs[i] = s
      /\ \A i \in DOMAIN rest : i \in DOMAIN o.segs /\ rest[i] = o.segs[i]
      /\ \A i \in DOMAIN o.segs : o.segs[i] = s \/ (i \in DOMAIN rest /\ rest[i] = o.segs[i])
  BY <1>2, <1>j, FrontLast
<1>4. s.addr \in Nat /\ s.len \in Nat \ {0} BY <1>3 DEF ScanSeg
<1>5. Fits(r, s) /\ \A i \in DOMAIN rest : Fits(r, rest[i])
  <2> HIDE DEF rest, s, ScanSeg
  <2> QED BY <1>3, <1>f DEF JobFits
\* What a value that the worker held is now: in the rest, or in s.
<1>h. ASSUME NEW k, NEW a, InHand(o, k, a)
      PROVE  /\ k = o.area
             /\ \/ a \in Bytes(s.addr, s.len)
                \/ \E i \in DOMAIN rest : a \in Bytes(rest[i].addr, rest[i].len)
  <2>1. PICK i \in DOMAIN o.segs : a \in Bytes(o.segs[i].addr, o.segs[i].len) BY <1>h DEF InHand
  <2> HIDE DEF s, rest
  <2> QED BY <1>3, <1>h, <2>1 DEF InHand
<1>6. CASE tok
  <2> DEFINE j == [o EXCEPT !.segs = <<>>]
  <2>1. job' = [job EXCEPT ![w] = j] BY <1>6 DEF ReadSegment, SetJob
  <2> HIDE DEF o
  <2>2. j.area = o.area /\ j.segs = <<>> /\ j.truncated = o.truncated /\ j.off = o.off /\ j.done = o.done
    <3> HIDE DEF ScanRow, ScanCopy, ScanSeg
    <3> QED BY <1>j DEF ScanJob
  <2> HIDE DEF j
  <2>3. JobFits(j)
    <3>1. DOMAIN j.segs = {} BY <2>2
    <3> QED BY <1>f, <2>2, <3>1 DEF JobFits
  <2>4. Keeps(o, j) BY <1>2, <1>6, <2>2, <2>3 DEF Keeps
  <2> QED BY <2>1, <2>4 DEF o
<1>7. CASE ~tok /\ ReadOK(s.addr, s.len) /\ scan = "stash"
  <2> DEFINE over == stash_used + s.len > MaxStash
             copy == [addr |-> s.addr, old |-> [i \in 1 .. s.len |-> bytes[s.addr + i - 1]]]
             cs == IF over THEN o.copies ELSE o.copies \cup {copy}
             tr == o.truncated \/ over
             j == [o EXCEPT !.segs = rest, !.truncated = tr, !.copies = cs]
  <2>1. job' = [job EXCEPT ![w] = j] BY <1>7 DEF ReadSegment, SetJob
  <2>c. (o.copies # {} => cs # {}) /\ (~tr => cs # {}) /\ (o.truncated => tr)
    <3> HIDE DEF over
    <3> QED OBVIOUS
  <2> HIDE DEF o, cs, tr, rest
  <2>2. /\ j.area = o.area /\ j.segs = rest /\ j.rows = o.rows /\ j.copies = cs
        /\ j.truncated = tr /\ j.off = o.off /\ j.done = o.done
    <3> HIDE DEF ScanRow, ScanCopy, ScanSeg
    <3> QED BY <1>j DEF ScanJob
  <2> HIDE DEF j
  <2>3. JobFits(j) BY <1>5, <1>f, <1>p, <2>2 DEF JobFits
  <2>4. ASSUME NEW k, NEW a, ~j.truncated, Located(o, k, a) PROVE Located(j, k, a)
    BY <1>7, <2>2, <2>4, <2>c DEF Located, Taken
  <2>5. Keeps(o, j) BY <1>2, <2>2, <2>3, <2>4, <2>c DEF Keeps
  <2> QED BY <2>1, <2>5 DEF o
<1>8. CASE ~tok /\ ReadOK(s.addr, s.len) /\ scan # "stash"
  <2>1. job' = [job EXCEPT ![w] = [scan_run(w, s.addr, s.len) EXCEPT !.segs = rest]]
    BY <1>8 DEF ReadSegment, SetJob
  <2>p. PICK t \in Seq(ScanRow), c \in BOOLEAN : RanTo(w, s.addr, s.len, t, c)
    <3> HIDE DEF s
    <3> QED BY <1>4, <1>8, ScanRunFacts
  <2>2. /\ scan_run(w, s.addr, s.len) = [job[w] EXCEPT !.rows = job[w].rows \o t, !.truncated = c]
        /\ ~c => /\ ~job[w].truncated
                 /\ \A a \in Hits(w, s.addr, s.len) : \E i \in DOMAIN t : t[i].addr = a
    BY <2>p DEF RanTo
  <2> DEFINE rs == o.rows \o t
             k0 == [o EXCEPT !.rows = rs, !.truncated = c]
             j == [k0 EXCEPT !.segs = rest]
  <2>3. job' = [job EXCEPT ![w] = j] BY <2>1, <2>2
  <2>4. rs \in Seq(ScanRow) /\ Gathers(rs, o.rows, t) BY <1>j, <2>p, ConcatElements
  <2>5. ASSUME ~c, NEW a \in Bytes(s.addr, s.len), Good(r, a)
        PROVE  \E i \in DOMAIN t : t[i].addr = a
    <3>1. a \in Hits(w, s.addr, s.len)
      <4> HIDE DEF s
      <4> QED BY <1>2, <1>3, <1>5, <1>a, <2>5, GoodIsHit
    <3> QED BY <2>2, <2>5, <3>1
  <2>c. ~c => ~o.truncated BY <2>2
  <2> HIDE DEF o, rs, rest
  <2>6. k0 \in ScanJob
    <3> HIDE DEF ScanRow, ScanCopy, ScanSeg
    <3> QED BY <1>j, <2>p, <2>4 DEF ScanJob
  <2>7. k0.area = o.area /\ k0.rows = rs /\ k0.off = o.off /\ k0.truncated = c /\ k0.done = o.done
    <3> HIDE DEF ScanRow, ScanCopy, ScanSeg
    <3> QED BY <1>j DEF ScanJob
  <2> HIDE DEF k0
  <2>8. /\ j.area = k0.area /\ j.segs = rest /\ j.rows = k0.rows /\ j.off = k0.off
        /\ j.truncated = k0.truncated /\ j.done = k0.done
    <3> HIDE DEF ScanRow, ScanCopy, ScanSeg
    <3> QED BY <2>6 DEF ScanJob
  <2>9. /\ j.area = o.area /\ j.segs = rest /\ j.rows = rs /\ j.off = o.off
        /\ j.truncated = c /\ j.done = o.done
    BY <2>7, <2>8
  <2> HIDE DEF j
  <2>10. JobFits(j) BY <1>5, <1>f, <1>p, <2>9 DEF JobFits
  <2>11. ASSUME NEW k, NEW a, ~j.truncated, Good(areas[k], a), Located(o, k, a)
         PROVE  Located(j, k, a)
    <3>1. CASE Ahead(o, k) BY <2>9, <3>1 DEF Located, Ahead
    <3>2. CASE Coming(o, k, a) BY <2>9, <3>2 DEF Located, Coming
    <3>3. CASE InHand(o, k, a)
      <4>1. k = o.area /\ areas[k] = r BY <1>h, <3>3
      <4>2. CASE a \in Bytes(s.addr, s.len)
        <5>1. PICK i \in DOMAIN t : t[i].addr = a BY <2>5, <2>9, <2>11, <4>1, <4>2
        <5>2. PICK m \in DOMAIN rs : rs[m] = t[i] BY <2>4, <5>1 DEF Gathers
        <5>3. rs[m].addr = a BY <5>1, <5>2
        <5>4. Taken(j, a) BY <1>8, <2>9, <5>2, <5>3 DEF Taken
        <5> QED BY <5>4 DEF Located
      <4>3. CASE \E i \in DOMAIN rest : a \in Bytes(rest[i].addr, rest[i].len)
        BY <2>9, <4>1, <4>3 DEF Located, InHand
      <4> QED BY <1>h, <3>3, <4>2, <4>3
    <3>4. CASE Taken(o, a)
      <4>1. PICK i \in DOMAIN o.rows : o.rows[i].addr = a BY <1>8, <3>4 DEF Taken
      <4>2. PICK m \in DOMAIN rs : rs[m] = o.rows[i] BY <2>4, <4>1 DEF Gathers
      <4>3. rs[m].addr = a BY <4>1, <4>2
      <4>4. Taken(j, a) BY <1>8, <2>9, <4>2, <4>3 DEF Taken
      <4> QED BY <4>4 DEF Located
    <3> QED BY <2>11, <3>1, <3>2, <3>3, <3>4 DEF Located
  <2>12. Keeps(o, j) BY <1>2, <2>9, <2>10, <2>11, <2>c DEF Keeps
  <2> QED BY <2>3, <2>12 DEF o
<1>9. CASE ~tok /\ ~ReadOK(s.addr, s.len)
  <2> DEFINE sg == IF s.len <= Page THEN rest ELSE rest \o Halves(s)
             j == [o EXCEPT !.segs = sg]
  <2>1. job' = [job EXCEPT ![w] = j] BY <1>9 DEF ReadSegment, SetJob
  <2>2. sg \in Seq(ScanSeg) /\ (\A i \in DOMAIN sg : Fits(r, sg[i]))
        /\ (\A i \in DOMAIN rest : \E m \in DOMAIN sg : sg[m] = rest[i])
        /\ \A a \in Bytes(s.addr, s.len) : Good(r, a) =>
              \E m \in DOMAIN sg : a \in Bytes(sg[m].addr, sg[m].len)
    <3>1. CASE s.len <= Page
      <4>1. sg = rest BY <3>1
      <4>2. \A a \in Bytes(s.addr, s.len) : ~Good(r, a)
        <5> HIDE DEF s, r
        <5> QED BY <1>3, <1>5, <1>9, <1>a, <3>1, GoodIsRead
      <4> HIDE DEF sg, rest, s, r
      <4> QED BY <1>3, <1>5, <4>1, <4>2
    <3>2. CASE ~ (s.len <= Page)
      <4>1. s.len > Page BY <1>4, <3>2, ScanNumbers
      <4> DEFINE h == Halves(s)
      <4>2. sg = rest \o h BY <3>2
      <4> HIDE DEF s, r, rest
      <4>3. h \in Seq(ScanSeg) /\ Len(h) = 2 BY <1>3, <4>1, CutFacts
      <4>4. /\ Fits(r, h[1]) /\ Fits(r, h[2])
            /\ Bytes(s.addr, s.len) \subseteq Bytes(h[1].addr, h[1].len) \cup Bytes(h[2].addr, h[2].len)
        BY <1>3, <1>5, <1>a, <4>1, HalvesFit
      <4> HIDE DEF h
      <4>5. DOMAIN h = {1, 2}
        <5> HIDE DEF ScanSeg
        <5> QED BY <4>3
      <4>6. sg \in Seq(ScanSeg) /\ Gathers(sg, rest, h) BY <1>3, <4>2, <4>3, ConcatElements
      <4> HIDE DEF sg
      <4>7. \A i \in DOMAIN sg : Fits(r, sg[i]) BY <1>5, <4>4, <4>5, <4>6 DEF Gathers
      <4>8. \A i \in DOMAIN rest : \E m \in DOMAIN sg : sg[m] = rest[i] BY <4>6 DEF Gathers
      <4>9. \A i \in {1, 2} : \E m \in DOMAIN sg : sg[m] = h[i] BY <4>5, <4>6 DEF Gathers
      <4>10. ASSUME NEW a \in Bytes(s.addr, s.len)
             PROVE  \E m \in DOMAIN sg : a \in Bytes(sg[m].addr, sg[m].len)
        <5>1. CASE a \in Bytes(h[1].addr, h[1].len)
          <6>1. PICK m \in DOMAIN sg : sg[m] = h[1] BY <4>9
          <6> QED BY <5>1, <6>1
        <5>2. CASE a \in Bytes(h[2].addr, h[2].len)
          <6>1. PICK m \in DOMAIN sg : sg[m] = h[2] BY <4>9
          <6> QED BY <5>2, <6>1
        <5> QED BY <4>4, <5>1, <5>2
      <4> QED BY <4>6, <4>7, <4>8, <4>10
    <3> QED BY <3>1, <3>2
  <2> HIDE DEF o, sg
  <2>3. /\ j.area = o.area /\ j.segs = sg /\ j.rows = o.rows /\ j.copies = o.copies
        /\ j.truncated = o.truncated /\ j.off = o.off /\ j.done = o.done
    <3> HIDE DEF ScanRow, ScanCopy, ScanSeg
    <3> QED BY <1>j DEF ScanJob
  <2> HIDE DEF j
  <2>4. JobFits(j) BY <1>f, <1>p, <2>2, <2>3 DEF JobFits
  <2>5. ASSUME NEW k, NEW a, Good(areas[k], a), Located(o, k, a) PROVE Located(j, k, a)
    <3>1. CASE Ahead(o, k) BY <2>3, <3>1 DEF Located, Ahead
    <3>2. CASE Coming(o, k, a) BY <2>3, <3>2 DEF Located, Coming
    <3>3. CASE InHand(o, k, a)
      <4>1. k = o.area /\ areas[k] = r BY <1>h, <3>3
      <4> HIDE DEF s, r, rest
      <4>2. \E m \in DOMAIN sg : a \in Bytes(sg[m].addr, sg[m].len)
        BY <1>h, <2>2, <2>5, <3>3, <4>1
      <4> QED BY <2>3, <4>1, <4>2 DEF Located, InHand
    <3>4. CASE Taken(o, a) BY <2>3, <3>4 DEF Located, Taken
    <3> QED BY <2>5, <3>1, <3>2, <3>3, <3>4 DEF Located
  <2>6. Keeps(o, j) BY <1>2, <2>3, <2>4, <2>5 DEF Keeps
  <2> QED BY <2>1, <2>6 DEF o
<1> QED BY <1>6, <1>7, <1>8, <1>9

\* The strides of the workers meet every area.
LEMMA Strides ==
  ASSUME NEW k \in Nat \ {0}
  PROVE  \E w \in Workers, m \in Nat : k = w + m * Cardinality(Workers)
<1> DEFINE N == Cardinality(Workers)
           S == {n \in Nat : \E w \in Workers, m \in Nat : n + 1 = w + m * N}
<1>1. N \in Nat /\ Workers = 1 .. N BY ScanNumbers
<1>2. Workers # {} BY ScannerConstants
<1> HIDE DEF N
<1>3. N >= 1 /\ 1 \in Workers /\ N \in Workers BY <1>1, <1>2
<1>4. 0 \in S
  <2>1. 0 * N = 0 BY <1>1
  <2>2. 0 + 1 = 1 + 0 * N BY <2>1
  <2> QED BY <1>3, <2>2
<1>5. ASSUME NEW n \in Nat, n \in S PROVE n + 1 \in S
  <2>1. PICK w \in Workers, m \in Nat : n + 1 = w + m * N BY <1>5
  <2> DEFINE p == m * N
  <2>2. p \in Nat /\ (m + 1) * N = p + N BY <1>1, Multiples
  <2>3. n + 1 = w + p /\ w \in Nat BY <1>1, <2>1
  <2>4. m * N = p OBVIOUS
  <2> HIDE DEF p
  <2>5. CASE w < N
    <3>1. w + 1 \in Workers BY <1>1, <2>3, <2>5
    <3>2. (n + 1) + 1 = (w + 1) + m * N BY <2>2, <2>3, <2>4
    <3> QED BY <3>1, <3>2
  <2>6. CASE ~(w < N)
    <3>1. w = N BY <1>1, <2>1, <2>6
    <3>2. (n + 1) + 1 = 1 + (m + 1) * N BY <1>1, <2>2, <2>3, <3>1
    <3>3. m + 1 \in Nat OBVIOUS
    <3> QED BY <1>3, <3>2, <3>3
  <2> QED BY <2>5, <2>6
<1> HIDE DEF S
<1>6. Nat \subseteq S BY <1>4, <1>5, SetInduction
<1>7. k - 1 \in Nat /\ (k - 1) + 1 = k OBVIOUS
<1> QED BY <1>6, <1>7 DEF S, N

\* What the target does makes no value good that was not good before.
LEMMA LoadStays ==
  ASSUME ScanTyped, NEW b, NEW a \in Int, Bytes(a, Slot) \subseteq Space,
         Bytes(a, Slot) \cap touched' = {},
         \/ bytes' = bytes
         \/ bytes' = [bytes EXCEPT ![b] = 1 - @] /\ b \in touched'
  PROVE  Load(bytes', a) = Load(bytes, a)
<1>1. CASE bytes' = bytes BY <1>1
<1>2. CASE bytes' = [bytes EXCEPT ![b] = 1 - @] /\ b \in touched'
  <2>1. b \notin Bytes(a, Slot) BY <1>2
  <2>2. \A i \in 1 .. Slot : a + i - 1 \in Bytes(a, Slot) BY ScanNumbers DEF Bytes
  <2>3. \A x \in Bytes(a, Slot) : bytes'[x] = bytes[x] BY <1>2, <2>1 DEF ScanTyped
  <2>4. \A i \in 1 .. Slot : bytes'[a + i - 1] = bytes[a + i - 1] BY <2>2, <2>3
  <2> QED BY <2>4 DEF Load
<1> QED BY <1>1, <1>2

\* The target moved on: it touched more and can be read less.
TargetRan(b) ==
  /\ check' = check /\ touched \subseteq touched' /\ readable' \subseteq readable
  /\ \/ bytes' = bytes
     \/ bytes' = [bytes EXCEPT ![b] = 1 - @] /\ b \in touched'

LEMMA GoodStays ==
  ASSUME ScanTyped, NEW b, TargetRan(b)
  PROVE  /\ \A r : \A a \in Int : Good(r, a)' => Good(r, a)
         /\ \A r \in ScanRow : GoodRow(r)' => GoodRow(r)
<1>1. ASSUME NEW r, NEW a \in Int, Good(r, a)' PROVE Good(r, a)
  <2>1. /\ Bytes(a, Slot) \subseteq BlockOf(r, a) /\ BlockOf(r, a) \cap touched' = {}
        /\ \A x \in BlockOf(r, a) : PageOf(x) \in readable'
        /\ check_value(Load(bytes, a), OldBits(r, a))'
    BY <1>1 DEF Good, Still, BlockOf, Bytes, PageOf
  <2>2. BlockOf(r, a) \subseteq Space BY DEF BlockOf
  <2>3. Load(bytes', a) = Load(bytes, a) BY <2>1, <2>2, LoadStays DEF TargetRan
  <2>4. check_value(Load(bytes, a), OldBits(r, a))
    BY <2>1, <2>3 DEF TargetRan, check_value, Wanted, OldBits
  <2>5. BlockOf(r, a) \cap touched = {} BY <2>1 DEF TargetRan
  <2>6. \A x \in BlockOf(r, a) : PageOf(x) \in readable BY <2>1 DEF TargetRan
  <2> QED BY <2>1, <2>4, <2>5, <2>6 DEF Good, Still
<1>2. ASSUME NEW r \in ScanRow, GoodRow(r)' PROVE GoodRow(r)
  <2> DEFINE a == r.addr
  <2>1. a \in Int /\ Bytes(a, Slot) \subseteq Space
    <3>1. r.addr \in Space /\ Bytes(r.addr, Slot) \subseteq Space BY DEF ScanRow
    <3> QED BY <3>1, SpaceNumbers
  <2>2. /\ Bytes(a, Slot) \cap touched' = {}
        /\ \A x \in Bytes(a, Slot) : x \in Space /\ PageOf(x) \in readable'
        /\ check_value(Load(bytes, a), r.bits)'
    BY <1>2 DEF GoodRow, Still, Bytes, ReadOK, PageOf
  <2> HIDE DEF a
  <2>3. Load(bytes', a) = Load(bytes, a) BY <2>1, <2>2, LoadStays DEF TargetRan
  <2>4. check_value(Load(bytes, a), r.bits) BY <2>2, <2>3 DEF TargetRan, check_value, Wanted
  <2>5. Bytes(a, Slot) \cap touched = {} BY <2>2 DEF TargetRan
  <2>6. \A x \in Bytes(a, Slot) : x \in Space /\ PageOf(x) \in readable BY <2>2 DEF TargetRan
  <2> QED BY <2>4, <2>5, <2>6 DEF a, GoodRow, Still, ReadOK
<1> QED BY <1>1, <1>2

\* ScanIsComplete in these words.
Complete ==
  /\ \A k \in DOMAIN areas : \A a \in Bytes(areas[k].base, areas[k].size) :
        Good(areas[k], a) => a \in Found
  /\ \A k \in DOMAIN rows : GoodRow(rows[k]) => rows[k].addr \in Found

Settled == scan = "no" /\ scan_used /\ stash = {} /\ ~truncated /\ ~cut_short

LEMMA CompleteMeans == ScanIsComplete <=> (Settled => Complete)
<1>1. Complete <=>
        /\ \A k \in DOMAIN areas : \A a \in Bytes(areas[k].base, areas[k].size) :
             LET block == BlockOf(areas[k], a) IN
             ( /\ Bytes(a, Slot) \subseteq block /\ Still(block)
               /\ \A b \in block : PageOf(b) \in readable
               /\ check_value(Load(bytes, a), IF areas[k].old = <<>> THEN <<>>
                      ELSE [i \in 1 .. Slot |-> areas[k].old[a - areas[k].base + i]]) )
             => a \in Found
        /\ \A k \in DOMAIN rows :
             ( /\ Still(Bytes(rows[k].addr, Slot)) /\ ReadOK(rows[k].addr, Slot)
               /\ check_value(Load(bytes, rows[k].addr), rows[k].bits) )
             => rows[k].addr \in Found
  BY Zenon DEF Complete, Good, GoodRow, OldBits
<1> QED BY <1>1, Zenon DEF ScanIsComplete, Settled

LEMMA CompleteNext == ScanIsComplete' <=> (Settled' => Complete')
  BY CompleteMeans, PTL

\* Covering survives the target, cancellation and stuttering: nothing the
\* workers have is taken away, and nothing more has to be found.
LEMMA CoversStay ==
  ASSUME ScanTyped, ScanCovers, NEW b, TargetRan(b), tok => tok',
         UNCHANGED <<scan, areas, rows, job, next_row, aborted, results, stash, truncated,
                     cut_short, scan_used>>
  PROVE  ScanCovers'
<1>1. /\ \A r : \A a \in Int : Good(r, a)' => Good(r, a)
      /\ \A r \in ScanRow : GoodRow(r)' => GoodRow(r)
  BY GoodStays
<1>2. ASSUME NEW k \in DOMAIN areas, NEW a \in Bytes(areas[k].base, areas[k].size),
             Good(areas[k], a)'
      PROVE  Good(areas[k], a)
  <2>1. a \in Int BY BytesNumbers
  <2> DEFINE r == areas[k]
  <2>2. areas' = areas OBVIOUS
  <2>3. r' = r BY <2>2
  <2>4. Good(r, a)' BY <1>2
  <2>5. \A q : q = r => (Good(q, a)' <=> Good(r, a)') BY <2>3 DEF Good, BlockOf, OldBits, check_value
  <2> QED BY <1>1, <2>1, <2>4, <2>5
<1>3. ASSUME NEW k \in DOMAIN rows, GoodRow(rows[k])' PROVE GoodRow(rows[k])
  <2>1. rows \in Seq(ScanRow) BY DEF ScanTyped
  <2>2. rows[k] \in ScanRow BY <2>1, ElementOf
  <2> DEFINE r == rows[k]
  <2>3. rows' = rows OBVIOUS
  <2>4. r' = r BY <2>3
  <2>5. \A q : q = r => (GoodRow(q)' <=> GoodRow(r)') BY <2>4 DEF GoodRow, check_value, ReadOK
  <2> QED BY <1>1, <1>3, <2>2, <2>5
<1>4. Clean' => Clean BY DEF Clean
<1>5. WalkShape'
  <2>1. \A w \in Workers : JobFits(job[w])' <=> JobFits(job[w])
    BY DEF JobFits, Fits, FitsAt, StopOf
  <2> QED BY <2>1 DEF ScanCovers, WalkShape, Walks
<1>6. WalkDone' BY <1>4 DEF ScanCovers, WalkDone, Walks
<1>7. WalkHas'
  <2> SUFFICES ASSUME scan \in Walks, Clean, NEW k \in DOMAIN areas,
                      NEW a \in Bytes(areas[k].base, areas[k].size), Good(areas[k], a)'
               PROVE  \E w \in Workers : Located(job[w], k, a)'
    BY <1>4 DEF WalkHas, Walks, Bytes
  <2>1. PICK w \in Workers : Located(job[w], k, a) BY <1>2 DEF ScanCovers, WalkHas
  <2>2. Located(job[w], k, a)' BY <2>1 DEF Located, Ahead, Coming, InHand, Taken, Bytes
  <2> QED BY <2>2
<1>8. RowsDone' BY <1>4 DEF ScanCovers, RowsDone
<1>9. RowsHas'
  <2> SUFFICES ASSUME scan = "rows", Clean, NEW k \in DOMAIN rows, GoodRow(rows[k])'
               PROVE  k >= next_row \/ \E w \in Workers : k \in job[w].todo \/ RowKept(job[w], rows[k].addr)
    BY <1>4 DEF RowsHas, RowKept
  <2> QED BY <1>3 DEF ScanCovers, RowsHas
<1>10. ScanIsComplete'
  <2> SUFFICES ASSUME Settled' PROVE Complete'
    BY CompleteNext
  <2>0. Settled BY Zenon DEF Settled
  <2>1. Complete BY <2>0, CompleteMeans DEF ScanCovers
  <2>2. Found' = Found BY DEF Found
  <2>3. \A k \in DOMAIN areas : \A a \in Bytes(areas[k].base, areas[k].size) :
          Good(areas[k], a)' => a \in Found'
    BY <1>2, <2>1, <2>2 DEF Complete
  <2>4. \A k \in DOMAIN rows : GoodRow(rows[k])' => rows[k].addr \in Found'
    BY <1>3, <2>1, <2>2 DEF Complete
  <2> QED BY <2>3, <2>4 DEF Complete, Bytes
<1> QED BY <1>5, <1>6, <1>7, <1>8, <1>9, <1>10 DEF ScanCovers

\* A scan that starts has everything before it.
LEMMA CoversStart ==
  ASSUME ScanTyped, NEW kind \in {"values", "stash", "compare", "rows"}, NEW list \in Seq(ScanArea),
         NEW old \in Seq(ScanRow), NEW type, Start(kind, list, old, type),
         kind = "rows" => list = <<>>,
         kind # "rows" => /\ old = <<>>
                          /\ \A k \in DOMAIN list : kind = "compare" <=> list[k].old # <<>>
  PROVE  ScanCovers'
<1>1. /\ scan' = kind /\ areas' = list /\ rows' = old /\ next_row' = 1 /\ aborted' = FALSE
      /\ job' = [w \in Workers |-> Fresh(w)] /\ tok' = FALSE
  BY DEF Start
<1>2. \A w \in Workers :
        /\ job'[w].area = w /\ job'[w].off = 0 /\ job'[w].segs = <<>> /\ job'[w].truncated = FALSE
        /\ job'[w].done = FALSE /\ job'[w].todo = {}
  BY <1>1 DEF Fresh
<1>3. WalkShape'
  <2>1. \A w \in Workers : JobFits(job[w])'
    <3> SUFFICES ASSUME NEW w \in Workers PROVE JobFits(job[w])'
      OBVIOUS
    <3>1. job'[w].off = 0 /\ job'[w].segs = <<>> /\ DOMAIN job'[w].segs = {} BY <1>2
    <3> QED BY <3>1 DEF JobFits
  <2>2. aborted' = FALSE BY <1>1
  <2>3. scan' \in Walks => rows' = <<>> /\ \A k \in DOMAIN areas' : scan' = "compare" <=> areas'[k].old # <<>>
    BY <1>1 DEF Walks
  <2> QED BY <2>1, <2>2, <2>3 DEF WalkShape, Walks
<1>4. WalkDone' BY <1>2 DEF WalkDone
<1>5. WalkHas'
  <2> SUFFICES ASSUME NEW k \in DOMAIN areas', NEW a PROVE \E w \in Workers : Located(job[w], k, a)'
    BY DEF WalkHas
  <2>1. k \in Nat \ {0}
    <3> HIDE DEF ScanArea
    <3> QED BY <1>1
  <2>2. PICK w \in Workers, m \in Nat : k = w + m * Cardinality(Workers) BY <2>1, Strides
  <2>3. Cardinality(Workers) \in Nat /\ w \in Nat BY ScanNumbers
  <2>4. CASE m = 0
    <3>1. m * Cardinality(Workers) = 0 BY <2>3, <2>4
    <3>2. k = w BY <2>2, <2>3, <3>1
    <3>3. Coming(job[w], k, a)' BY <1>2, <3>2 DEF Coming
    <3> QED BY <3>3 DEF Located
  <2>5. CASE m # 0
    <3>1. m > 0 BY <2>5
    <3>2. Ahead(job[w], k)' BY <1>2, <2>2, <3>1 DEF Ahead
    <3> QED BY <3>2 DEF Located
  <2> QED BY <2>4, <2>5
<1>6. RowsDone' BY <1>1, <1>2 DEF RowsDone
<1>7. RowsHas'
  <2> SUFFICES ASSUME NEW k \in DOMAIN rows' PROVE k >= next_row'
    BY DEF RowsHas
  <2>1. k \in Nat \ {0}
    <3> HIDE DEF ScanRow
    <3> QED BY <1>1
  <2> QED BY <1>1, <2>1
<1>8. ScanIsComplete'
  <2>1. scan' # "no" BY <1>1
  <2>2. ~Settled' BY <2>1, Zenon DEF Settled
  <2> QED BY <2>2, CompleteNext
<1> QED BY <1>3, <1>4, <1>5, <1>6, <1>7, <1>8 DEF ScanCovers

\* The worker's step of a walk.
LEMMA CoversWalk ==
  ASSUME ScanTyped, ScanCovers, NEW w \in Workers, TakeArea(w) \/ TakeChunk(w) \/ ReadSegment(w)
  PROVE  ScanCovers'
<1>1. scan \in Walks /\ UNCHANGED Shared BY DEF TakeArea, TakeChunk, ReadSegment, Walking, Walks
<1>2. UNCHANGED <<bytes, readable, scan, areas, rows, check, tok, touched>> BY <1>1 DEF Shared
<1>3. WalkShape /\ WalkDone /\ WalkHas BY DEF ScanCovers
<1>4. JobFits(job[w]) BY <1>1, <1>3 DEF WalkShape
<1>5. PICK j : job' = [job EXCEPT ![w] = j] /\ Keeps(job[w], j)
  BY <1>3, <1>4, KeepTakeArea, KeepTakeChunk, KeepReadSegment
<1>6. \A v \in Workers : job'[v] = IF v = w THEN j ELSE job[v] BY <1>5 DEF ScanTyped
<1>7. aborted' => aborted \/ job[w].truncated BY DEF TakeArea, TakeChunk, ReadSegment
<1>8. \A v \in Workers : job[v].truncated => job'[v].truncated
  <2>1. job[w].truncated => j.truncated BY <1>5 DEF Keeps
  <2> QED BY <1>6, <2>1
<1>9. aborted => \E v \in Workers : job[v].truncated BY <1>1, <1>3 DEF WalkShape
<1>10. Clean' => Clean /\ ~aborted /\ ~j.truncated /\ ~tok BY <1>2, <1>6, <1>8, <1>9, Zenon DEF Clean
<1>11. \A v \in Workers : JobFits(job'[v])
  <2>1. JobFits(j) BY <1>5 DEF Keeps
  <2>2. \A v \in Workers : JobFits(job[v]) BY <1>1, <1>3 DEF WalkShape
  <2> QED BY <1>6, <2>1, <2>2, Zenon
<1>12. WalkShape'
  <2>1. \A v \in Workers : JobFits(job[v])' BY <1>2, <1>11 DEF JobFits, Fits, FitsAt, StopOf
  <2>2. aborted' => \E v \in Workers : job'[v].truncated BY <1>7, <1>8, <1>9
  <2>3. rows' = <<>> /\ \A k \in DOMAIN areas' : scan' = "compare" <=> areas'[k].old # <<>>
    BY <1>1, <1>2, <1>3 DEF WalkShape
  <2> QED BY <2>1, <2>2, <2>3 DEF WalkShape
<1>13. WalkDone'
  <2> SUFFICES ASSUME Clean', NEW v \in Workers, job'[v].done PROVE job'[v].area > Len(areas')
    BY DEF WalkDone
  <2>1. Clean /\ ~aborted /\ ~j.truncated /\ ~tok BY <1>10
  <2>2. CASE v = w
    <3>1. j.done BY <1>6, <2>2
    <3>2. j.area > Len(areas) BY <1>5, <2>1, <3>1 DEF Keeps
    <3> QED BY <1>2, <1>6, <2>2, <3>2
  <2>3. CASE v # w
    <3>1. job[v].done /\ job'[v] = job[v] BY <1>6, <2>3
    <3> QED BY <1>1, <1>2, <1>3, <2>1, <3>1 DEF WalkDone
  <2> QED BY <2>2, <2>3
<1>14. WalkHas'
  <2> SUFFICES ASSUME Clean', NEW k \in DOMAIN areas', NEW a \in Bytes(areas[k].base, areas[k].size)',
                      Good(areas[k], a)'
               PROVE  \E v \in Workers : Located(job[v], k, a)'
    BY DEF WalkHas
  <2>1. Clean /\ ~j.truncated /\ ~tok BY <1>10
  <2>2. k \in DOMAIN areas /\ a \in Bytes(areas[k].base, areas[k].size) BY <1>2 DEF Bytes
  <2>3. Good(areas[k], a) BY <1>2 DEF Good, BlockOf, Still, OldBits, check_value, Load, Wanted, Bytes, PageOf
  <2>4. PICK v \in Workers : Located(job[v], k, a) BY <1>1, <1>3, <2>1, <2>2, <2>3 DEF WalkHas
  <2>5. Located(job'[v], k, a)
    <3>1. CASE v = w
      <4>1. Located(j, k, a) BY <1>5, <2>1, <2>2, <2>3, <2>4, <3>1 DEF Keeps
      <4> QED BY <1>6, <3>1, <4>1
    <3>2. CASE v # w BY <1>6, <2>4, <3>2
    <3> QED BY <3>1, <3>2
  <2>6. Located(job[v], k, a)' BY <1>2, <2>5 DEF Located, Ahead, Coming, InHand, Taken, Bytes
  <2> QED BY <2>6
<1>15. RowsDone' /\ RowsHas' BY <1>1, <1>2 DEF RowsDone, RowsHas, Walks
<1>16. ScanIsComplete'
  <2>1. scan' # "no" BY <1>1, <1>2 DEF Walks
  <2>2. ~Settled' BY <2>1, Zenon DEF Settled
  <2> QED BY <2>2, CompleteNext
<1> QED BY <1>12, <1>13, <1>14, <1>15, <1>16 DEF ScanCovers

\* A worker's step of a rescan of rows.
LEMMA CoversTakeRows ==
  ASSUME ScanTyped, ScanCovers, NEW w \in Workers, TakeRows(w)
  PROVE  ScanCovers'
<1> DEFINE o == job[w]
<1>1. /\ scan = "rows" /\ ~o.done /\ o.todo = {} /\ UNCHANGED Shared
      /\ next_row' = IF tok THEN next_row ELSE next_row + Batch
  BY DEF TakeRows
<1>2. UNCHANGED <<bytes, readable, scan, areas, rows, check, tok, touched>> BY <1>1 DEF Shared
<1>3. RowsDone /\ RowsHas BY DEF ScanCovers
<1>j. o \in ScanJob BY JobShapes
<1>n. next_row \in Nat /\ Batch \in Nat /\ Batch > 0 BY ScanNumbers DEF ScanTyped
<1>r. DOMAIN rows = 1 .. Len(rows) /\ Len(rows) \in Nat
  <2>1. rows \in Seq(ScanRow) BY DEF ScanTyped
  <2> HIDE DEF ScanRow
  <2> QED BY <2>1
<1> DEFINE td == {k \in DOMAIN rows : k \in next_row .. next_row + Batch - 1}
           j == IF tok \/ next_row > Len(rows) THEN [o EXCEPT !.done = TRUE]
                ELSE [o EXCEPT !.todo = td]
<1>4. job' = [job EXCEPT ![w] = j] BY DEF TakeRows, SetJob
<1>5. \A v \in Workers : job'[v] = IF v = w THEN j ELSE job[v] BY <1>4 DEF ScanTyped
<1>6. /\ j.rows = o.rows /\ j.truncated = o.truncated
      /\ tok \/ next_row > Len(rows) => j.todo = o.todo
      /\ ~(tok \/ next_row > Len(rows)) => j.todo = td /\ j.done = o.done
  <2> HIDE DEF o, td, ScanRow, ScanCopy, ScanSeg
  <2> QED BY <1>j DEF ScanJob
<1> HIDE DEF j
<1>7. Clean' => Clean /\ ~tok
  <2>1. \A v \in Workers : job'[v].truncated = job[v].truncated BY <1>5, <1>6
  <2> QED BY <1>2, <2>1 DEF Clean
<1>8. RowsDone'
  <2>1. areas' = <<>> BY <1>1, <1>2, <1>3 DEF RowsDone
  <2>2. ASSUME Clean', NEW v \in Workers, job'[v].done
        PROVE  next_row' > Len(rows') /\ job'[v].todo = {}
    <3>1. Clean /\ ~tok BY <1>7, <2>2
    <3>2. CASE v = w
      <4>1. j.done BY <1>5, <2>2, <3>2
      <4>2. next_row > Len(rows) BY <1>1, <1>6, <3>1, <4>1
      <4> QED BY <1>1, <1>2, <1>5, <1>6, <1>n, <1>r, <3>1, <3>2, <4>2
    <3>3. CASE v # w
      <4>1. job'[v] = job[v] BY <1>5, <3>3
      <4>2. next_row > Len(rows) /\ job[v].todo = {} BY <1>1, <1>3, <2>2, <3>1, <4>1 DEF RowsDone
      <4> QED BY <1>1, <1>2, <1>n, <1>r, <3>1, <4>1, <4>2
    <3> QED BY <3>2, <3>3
  <2> QED BY <2>1, <2>2 DEF RowsDone
<1>9. RowsHas'
  <2> SUFFICES ASSUME Clean', NEW k \in DOMAIN rows', GoodRow(rows[k])'
               PROVE  (k >= next_row \/ \E v \in Workers : k \in job[v].todo \/ RowKept(job[v], rows[k].addr))'
    BY DEF RowsHas
  <2>1. Clean /\ ~tok BY <1>7
  <2>2. k \in DOMAIN rows /\ k \in Nat /\ k <= Len(rows) BY <1>2, <1>r
  <2>3. GoodRow(rows[k]) BY <1>2 DEF GoodRow, Still, Bytes, ReadOK, PageOf, check_value, Load, Wanted
  <2>4. k >= next_row \/ \E v \in Workers : k \in job[v].todo \/ RowKept(job[v], rows[k].addr)
    BY <1>1, <1>3, <2>1, <2>2, <2>3 DEF RowsHas
  <2>5. CASE k >= next_row
    <3>1. ~(tok \/ next_row > Len(rows)) BY <1>n, <1>r, <2>1, <2>2, <2>5
    <3>2. j.todo = td BY <1>6, <3>1
    <3>3. k >= next_row + Batch \/ k \in td BY <1>n, <2>2, <2>5
    <3> QED BY <1>1, <1>5, <2>1, <3>2, <3>3
  <2>6. CASE \E v \in Workers : k \in job[v].todo \/ RowKept(job[v], rows[k].addr)
    <3>1. PICK v \in Workers : k \in job[v].todo \/ RowKept(job[v], rows[k].addr) BY <2>6
    <3>2. k \in job'[v].todo \/ RowKept(job'[v], rows[k].addr)
      <4>1. CASE v = w BY <1>1, <1>5, <1>6, <3>1, <4>1 DEF RowKept
      <4>2. CASE v # w BY <1>5, <3>1, <4>2
      <4> QED BY <4>1, <4>2
    <3> QED BY <1>2, <3>2 DEF RowKept
  <2> QED BY <2>4, <2>5, <2>6
<1>10. WalkShape' /\ WalkDone' /\ WalkHas' BY <1>1, <1>2 DEF WalkShape, WalkDone, WalkHas, Walks
<1>11. ScanIsComplete'
  <2>1. ~Settled' BY <1>1, <1>2, Zenon DEF Settled
  <2> QED BY <2>1, CompleteNext
<1> QED BY <1>8, <1>9, <1>10, <1>11 DEF ScanCovers

LEMMA CoversCheckRow ==
  ASSUME ScanTyped, ScanCovers, NEW w \in Workers, CheckRow(w)
  PROVE  ScanCovers'
<1> DEFINE o == job[w]
           x == CHOOSE k \in o.todo : \A m \in o.todo : k <= m
           a == rows[x].addr
           match == ReadOK(a, Slot) /\ check_value(Load(bytes, a), rows[x].bits)
           full == match /\ Len(o.rows) + 1 >= MaxResults
           row == FreshRow(rows[x])
           rs == IF match THEN Append(o.rows, row) ELSE o.rows
           td == o.todo \ {x}
           tr == o.truncated \/ full
           j == [o EXCEPT !.todo = td, !.rows = rs, !.truncated = tr, !.done = full]
<1>1. scan = "rows" /\ UNCHANGED Shared /\ next_row' = next_row BY DEF CheckRow
<1>2. UNCHANGED <<bytes, readable, scan, areas, rows, check, tok, touched>> BY <1>1 DEF Shared
<1>3. RowsDone /\ RowsHas BY DEF ScanCovers
<1>j. o \in ScanJob /\ o.rows \in Seq(ScanRow) BY JobShapes
<1>4. job' = [job EXCEPT ![w] = j] BY Zenon DEF CheckRow, SetJob
<1>5. \A v \in Workers : job'[v] = IF v = w THEN j ELSE job[v] BY <1>4 DEF ScanTyped
<1>h. GoodRow(rows[x]) => match BY DEF GoodRow
<1>a. row.addr = rows[x].addr BY DEF FreshRow
<1>t. (full => tr) /\ (o.truncated => tr) BY Zenon
<1> HIDE DEF x, match, row
<1>6. /\ (\A i \in DOMAIN o.rows : i \in DOMAIN rs /\ rs[i] = o.rows[i])
      /\ match => \E i \in DOMAIN rs : rs[i] = row
  <2>1. CASE ~match BY <2>1
  <2>2. CASE match
    <3>1. rs = Append(o.rows, row) BY <2>2
    <3> HIDE DEF o, rs, ScanRow
    <3>2. Len(o.rows) \in Nat /\ Len(rs) = Len(o.rows) + 1 /\ rs[Len(o.rows) + 1] = row
          /\ DOMAIN rs = 1 .. Len(o.rows) + 1 /\ DOMAIN o.rows = 1 .. Len(o.rows)
          /\ \A i \in 1 .. Len(o.rows) : rs[i] = o.rows[i]
      BY <1>j, <3>1
    <3>3. Len(o.rows) + 1 \in DOMAIN rs BY <3>2
    <3> QED BY <3>2, <3>3
  <2> QED BY <2>1, <2>2
<1> HIDE DEF full, rs, td, tr
<1>7. j.rows = rs /\ j.truncated = tr /\ j.todo = td /\ j.done = full
  <2> HIDE DEF o, ScanRow, ScanCopy, ScanSeg
  <2> QED BY <1>j DEF ScanJob
<1> HIDE DEF j
<1>8. Clean' => Clean /\ ~j.truncated
  <2>1. \A v \in Workers : job[v].truncated => job'[v].truncated BY <1>5, <1>7, <1>t
  <2> QED BY <1>2, <1>5, <2>1 DEF Clean
<1>9. RowsDone'
  <2>1. areas' = <<>> BY <1>1, <1>2, <1>3 DEF RowsDone
  <2>2. ASSUME Clean', NEW v \in Workers, job'[v].done
        PROVE  next_row' > Len(rows') /\ job'[v].todo = {}
    <3>1. Clean /\ ~j.truncated BY <1>8, <2>2
    <3>2. v # w
      <4>1. ~tr BY <1>7, <3>1
      <4>2. ~j.done BY <1>7, <1>t, <4>1
      <4> QED BY <1>5, <2>2, <4>2
    <3>3. job'[v] = job[v] BY <1>5, <3>2
    <3> QED BY <1>1, <1>2, <1>3, <2>2, <3>1, <3>3 DEF RowsDone
  <2> QED BY <2>1, <2>2 DEF RowsDone
<1>10. RowsHas'
  <2> SUFFICES ASSUME Clean', NEW k \in DOMAIN rows', GoodRow(rows[k])'
               PROVE  (k >= next_row \/ \E v \in Workers : k \in job[v].todo \/ RowKept(job[v], rows[k].addr))'
    BY DEF RowsHas
  <2>1. Clean BY <1>8
  <2>2. k \in DOMAIN rows BY <1>2
  <2>3. GoodRow(rows[k]) BY <1>2 DEF GoodRow, Still, Bytes, ReadOK, PageOf, check_value, Load, Wanted
  <2>4. k >= next_row \/ \E v \in Workers : k \in job[v].todo \/ RowKept(job[v], rows[k].addr)
    BY <1>1, <1>3, <2>1, <2>2, <2>3 DEF RowsHas
  <2>5. CASE k >= next_row BY <1>1, <2>5
  <2>6. CASE \E v \in Workers : k \in job[v].todo \/ RowKept(job[v], rows[k].addr)
    <3>1. PICK v \in Workers : k \in job[v].todo \/ RowKept(job[v], rows[k].addr) BY <2>6
    <3>2. k \in job'[v].todo \/ RowKept(job'[v], rows[k].addr)
      <4>1. CASE v # w BY <1>5, <3>1, <4>1
      <4>2. CASE v = w /\ RowKept(job[v], rows[k].addr)
        <5>1. PICK i \in DOMAIN o.rows : o.rows[i].addr = rows[k].addr BY <4>2 DEF RowKept
        <5>2. i \in DOMAIN rs /\ rs[i].addr = rows[k].addr BY <1>6, <5>1
        <5> QED BY <1>5, <1>7, <4>2, <5>2 DEF RowKept
      <4>3. CASE v = w /\ k \in o.todo /\ k # x BY <1>5, <1>7, <4>3 DEF td
      <4>4. CASE v = w /\ k = x
        <5>1. match BY <1>h, <2>3, <4>4
        <5>2. PICK i \in DOMAIN rs : rs[i] = row BY <1>6, <5>1
        <5>3. rs[i].addr = rows[k].addr BY <1>a, <4>4, <5>2
        <5> QED BY <1>5, <1>7, <4>4, <5>2, <5>3 DEF RowKept
      <4> QED BY <3>1, <4>1, <4>2, <4>3, <4>4
    <3> QED BY <1>2, <3>2 DEF RowKept
  <2> QED BY <2>4, <2>5, <2>6
<1>11. WalkShape' /\ WalkDone' /\ WalkHas' BY <1>1, <1>2 DEF WalkShape, WalkDone, WalkHas, Walks
<1>12. ScanIsComplete'
  <2>1. ~Settled' BY <1>1, <1>2, Zenon DEF Settled
  <2> QED BY <2>1, CompleteNext
<1> QED BY <1>9, <1>10, <1>11, <1>12 DEF ScanCovers

\* When every worker of an undisturbed walk is done, what must be found is taken.
LEMMA DoneTaken ==
  ASSUME ScanTyped, ScanCovers, scan \in Walks, Clean, \A w \in Workers : job[w].done,
         NEW k \in DOMAIN areas, NEW a \in Bytes(areas[k].base, areas[k].size), Good(areas[k], a)
  PROVE  \E w \in Workers : Taken(job[w], a)
<1>1. PICK w \in Workers : Located(job[w], k, a) BY DEF ScanCovers, WalkHas
<1>2. job[w].area > Len(areas) BY DEF ScanCovers, WalkDone
<1>3. k \in Nat /\ k <= Len(areas) /\ Len(areas) \in Nat BY BytesNumbers
<1>4. job[w].area \in Nat BY JobShapes
<1>5. ~Ahead(job[w], k)
  <2> SUFFICES ASSUME NEW m \in Nat, k = job[w].area + m * Cardinality(Workers) PROVE FALSE
    BY DEF Ahead
  <2> DEFINE p == m * Cardinality(Workers)
  <2>1. p \in Nat
    <3>1. Cardinality(Workers) \in Nat BY ScanNumbers
    <3> QED BY <3>1, Multiples
  <2>2. k = job[w].area + p OBVIOUS
  <2> HIDE DEF p
  <2> QED BY <1>2, <1>3, <1>4, <2>1, <2>2
<1>6. job[w].area # k BY <1>2, <1>3, <1>4
<1> QED BY <1>1, <1>5, <1>6 DEF Located, Coming, InHand

LEMMA CoversMerge ==
  ASSUME ScanTyped, ScanCovers, merge_workers
  PROVE  ScanCovers'
<1>1. /\ scan # "no" /\ (\A w \in Workers : job[w].done) /\ scan' = "no" /\ cut_short' = tok
      /\ UNCHANGED <<bytes, readable, areas, rows, check, job, tok, touched>>
  BY DEF merge_workers
<1>2. WalkShape' /\ WalkDone' /\ WalkHas' /\ RowsDone' /\ RowsHas'
  BY <1>1 DEF WalkShape, WalkDone, WalkHas, RowsDone, RowsHas, Walks
<1>3. ScanIsComplete'
  <2> SUFFICES ASSUME Settled' PROVE Complete'
    BY CompleteNext
  <2>1. stash' = {} /\ ~truncated' /\ ~tok BY <1>1, Zenon DEF Settled
  <2>2. \A w \in Workers : ~job[w].truncated BY <2>1 DEF merge_workers
  <2>3. Clean BY <2>1, <2>2 DEF Clean
  <2>s. scan \in Walks \/ scan = "rows" BY <1>1 DEF ScanTyped, Walks
  \* What a worker holds is among the results.
  <2>4. ASSUME scan # "stash", NEW w \in Workers, NEW i \in DOMAIN job[w].rows
        PROVE  job[w].rows[i].addr \in Found'
    <3>1. /\ results' = {Flat[k] : k \in {k \in DOMAIN Flat : k <= MaxResults}}
          /\ truncated' = (Len(Flat) > MaxResults \/ \E v \in Workers : job[v].truncated)
      BY <2>4 DEF merge_workers
    <3>2. \A v \in Workers : job[v].rows \in Seq(ScanRow) BY JobShapes
    <3>3. Flat \in Seq(ScanRow) /\ \E k \in DOMAIN Flat : Flat[k] = job[w].rows[i]
      BY <2>4, <3>2, FlatFacts
    <3>4. PICK k \in DOMAIN Flat : Flat[k] = job[w].rows[i] BY <3>3
    <3>5. ~(Len(Flat) > MaxResults) BY <2>1, <3>1
    <3>6. k <= MaxResults
      <4>1. Len(Flat) \in Nat /\ k \in Nat /\ k <= Len(Flat)
        <5> HIDE DEF ScanRow
        <5> QED BY <3>3
      <4> QED BY <3>5, <4>1, ScanNumbers
    <3>7. job[w].rows[i] \in results' BY <3>1, <3>4, <3>6
    <3> QED BY <3>7 DEF Found
  <2>5. ASSUME NEW k \in DOMAIN areas, NEW a \in Bytes(areas[k].base, areas[k].size), Good(areas[k], a)
        PROVE  a \in Found'
    <3>1. scan \in Walks
      <4>1. areas # <<>> BY <2>5
      <4> QED BY <2>s, <4>1 DEF ScanCovers, RowsDone
    <3>2. PICK w \in Workers : Taken(job[w], a) BY <1>1, <2>3, <2>5, <3>1, DoneTaken
    <3>3. scan # "stash"
      <4> SUFFICES ASSUME scan = "stash" PROVE FALSE
        OBVIOUS
      <4>1. job[w].copies # {} BY <3>2 DEF Taken
      <4>2. stash' = UNION {job[v].copies : v \in Workers} BY DEF merge_workers
      <4>3. job[w].copies \subseteq stash' BY <4>2
      <4> QED BY <2>1, <4>1, <4>3
    <3>4. PICK i \in DOMAIN job[w].rows : job[w].rows[i].addr = a BY <3>2, <3>3 DEF Taken
    <3> QED BY <2>4, <3>3, <3>4
  <2>6. ASSUME NEW k \in DOMAIN rows, GoodRow(rows[k]) PROVE rows[k].addr \in Found'
    <3>1. scan = "rows"
      <4>1. rows # <<>> BY <2>6
      <4> QED BY <2>s, <4>1 DEF ScanCovers, WalkShape
    <3>2. Workers # {} BY ScannerConstants
    <3>3. next_row > Len(rows) /\ \A w \in Workers : job[w].todo = {}
      BY <1>1, <2>3, <3>1, <3>2 DEF ScanCovers, RowsDone
    <3>4. ~(k >= next_row)
      <4>1. rows \in Seq(ScanRow) /\ next_row \in Nat BY DEF ScanTyped
      <4>2. k \in Nat /\ k <= Len(rows) /\ Len(rows) \in Nat
        <5> HIDE DEF ScanRow
        <5> QED BY <4>1
      <4> QED BY <3>3, <4>1, <4>2
    <3>5. PICK w \in Workers : RowKept(job[w], rows[k].addr)
      BY <2>3, <2>6, <3>1, <3>3, <3>4 DEF ScanCovers, RowsHas
    <3>6. PICK i \in DOMAIN job[w].rows : job[w].rows[i].addr = rows[k].addr BY <3>5 DEF RowKept
    <3> QED BY <2>4, <3>1, <3>6
  <2>8. ASSUME NEW k, NEW a, Good(areas[k], a)' PROVE Good(areas[k], a)
    BY <1>1, <2>8 DEF Good, BlockOf, Still, OldBits, check_value, Load, Wanted, Bytes, PageOf
  <2>9. ASSUME NEW k, GoodRow(rows[k])' PROVE GoodRow(rows[k])
    BY <1>1, <2>9 DEF GoodRow, Still, Bytes, ReadOK, PageOf, check_value, Load, Wanted
  <2>10. \A k \in DOMAIN areas' : \A a \in Bytes(areas[k].base, areas[k].size)' :
           Good(areas[k], a)' => a \in Found'
    BY <1>1, <2>5, <2>8 DEF Bytes
  <2>11. \A k \in DOMAIN rows' : GoodRow(rows[k])' => rows'[k].addr \in Found' BY <1>1, <2>6, <2>9
  <2> QED BY <2>10, <2>11 DEF Complete
<1> QED BY <1>2, <1>3 DEF ScanCovers

LEMMA CoversInit == ScanInit => ScanCovers
<1> SUFFICES ASSUME ScanInit PROVE ScanCovers
  OBVIOUS
<1>1. scan = "no" /\ scan_used = FALSE BY DEF ScanInit
<1>2. ScanIsComplete BY <1>1 DEF ScanIsComplete
<1> QED BY <1>1, <1>2 DEF ScanCovers, WalkShape, WalkDone, WalkHas, RowsDone, RowsHas, Walks

LEMMA CoversStep == ScanTyped /\ ScanCovers /\ [ScanNext]_scanVars => ScanCovers'
<1> SUFFICES ASSUME ScanTyped, ScanCovers, [ScanNext]_scanVars PROVE ScanCovers'
  OBVIOUS
<1>0. CASE UNCHANGED scanVars
  <2>1. TargetRan(0) BY <1>0 DEF TargetRan, scanVars
  <2>2. tok => tok' BY <1>0 DEF scanVars
  <2> QED BY <1>0, <2>1, <2>2, CoversStay DEF scanVars
<1>1. ASSUME NEW b \in Space, TargetWrites(b) PROVE ScanCovers'
  <2>1. TargetRan(b) BY <1>1 DEF TargetRan, TargetWrites
  <2>2. tok => tok' BY <1>1 DEF TargetWrites
  <2> QED BY <1>1, <2>1, <2>2, CoversStay DEF TargetWrites
<1>2. ASSUME NEW g \in readable, TargetFrees(g) PROVE ScanCovers'
  <2>1. TargetRan(0) BY <1>2 DEF TargetRan, TargetFrees
  <2>2. tok => tok' BY <1>2 DEF TargetFrees
  <2> QED BY <1>2, <2>1, <2>2, CoversStay DEF TargetFrees
<1>3. ASSUME NEW begin \in Begins, NEW type \in {"exact", "changed"}, first_scan(begin, type)
      PROVE  ScanCovers'
  <2>1. begin \in Nat BY ScannerConstants
  <2> DEFINE list == filter_regions(begin)
             kind == IF type = "exact" THEN "values" ELSE "stash"
             A == {r \in ScanArea : r.old = <<>>}
  <2>2. list \in Seq(A) BY <2>1, FilterFacts
  <2>3. list \in Seq(ScanArea) /\ \A k \in DOMAIN list : list[k].old = <<>>
    <3>1. A \subseteq ScanArea OBVIOUS
    <3>2. \A k \in DOMAIN list : list[k] \in A
      <4> HIDE DEF A, list
      <4> QED BY <2>2, ElementOf
    <3>3. \A k \in DOMAIN list : list[k].old = <<>> BY <3>2
    <3> HIDE DEF A, list, ScanArea
    <3> QED BY <2>2, <3>1, <3>3
  <2>4. <<>> \in Seq(ScanRow)
    <3> HIDE DEF ScanRow
    <3> QED OBVIOUS
  <2>5. Start(kind, list, <<>>, type) BY <1>3 DEF first_scan
  <2>6. kind \in {"values", "stash", "compare", "rows"} /\ kind # "rows" /\ kind # "compare" OBVIOUS
  <2> HIDE DEF list, kind
  <2> QED BY <2>3, <2>4, <2>5, <2>6, CoversStart
<1>4. ASSUME NEW type \in {"exact", "changed"}, next_scan(type) PROVE ScanCovers'
  <2>e. <<>> \in Seq(ScanRow) /\ <<>> \in Seq(ScanArea)
    <3> HIDE DEF ScanRow, ScanArea
    <3> QED OBVIOUS
  <2>1. CASE stash # {}
    <3> DEFINE list == [k \in 1 .. Cardinality(stash) |-> OldArea(InOrder(stash)[k])]
    <3>1. Start("compare", list, <<>>, type) BY <1>4, <2>1 DEF next_scan
    <3>2. list \in Seq(ScanArea) /\ \A k \in DOMAIN list : list[k].old # <<>> BY OldAreas
    <3> HIDE DEF list
    <3> QED BY <2>e, <3>1, <3>2, CoversStart
  <2>2. CASE stash = {}
    <3>1. Start("rows", <<>>, InOrder(results), type) BY <1>4, <2>2 DEF next_scan
    <3>2. InOrder(results) \in Seq(ScanRow) BY OldRows
    <3> QED BY <2>e, <3>1, <3>2, CoversStart
  <2> QED BY <2>1, <2>2
<1>5. ASSUME NEW w \in Workers, WorkerStep(w) PROVE ScanCovers'
  BY <1>5, CoversWalk, CoversTakeRows, CoversCheckRow DEF WorkerStep
<1>6. CASE merge_workers BY <1>6, CoversMerge
<1>7. CASE scan_reset
  <2>1. scan' = "no" /\ scan_used' = FALSE BY <1>7 DEF scan_reset
  <2>2. ~Settled' BY <2>1 DEF Settled
  <2>3. ScanIsComplete' BY <2>2, CompleteNext
  <2> QED BY <2>1, <2>3 DEF ScanCovers, WalkShape, WalkDone, WalkHas, RowsDone, RowsHas, Walks
<1>8. CASE cancel
  <2>1. TargetRan(0) BY <1>8 DEF TargetRan, cancel
  <2>2. tok => tok' BY <1>8 DEF cancel
  <2> QED BY <1>8, <2>1, <2>2, CoversStay DEF cancel
<1> QED BY <1>0, <1>1, <1>2, <1>3, <1>4, <1>5, <1>6, <1>7, <1>8 DEF ScanNext, WorkerStep

\* No value is lost in the fan-out: a scan or rescan that reports itself neither
\* truncated nor cancelled has a row for every matching value in a readable
\* block the target left alone, whatever the number of workers, the regions,
\* the chunk, page and value sizes, and however the splits interleave.
THEOREM ScanLosesNothing == ScanSpec => []ScanIsComplete
<1>1. ScanCovers => ScanIsComplete BY DEF ScanCovers
<1> QED BY <1>1, ScanInitTyped, ScanStep, CoversInit, CoversStep, PTL DEF ScanSpec

-----------------------------------------------------------------------------
(* The four services together.                                             *)

ServicesInv ==
  /\ DebuggerTyped /\ RecordsInv /\ WatchInv
  /\ ScanTyped /\ ScanTruth /\ ScanCovers /\ ImageInv /\ StoreInv

LEMMA ServicesInitInv == ServicesInit => ServicesInv
  BY DebuggerTypedInit, RecordsInit, WatchInitInv, ScanInitTyped, CoversInit, JournalInit,
     AnnotationsInit, AnalysisInit
     DEF ServicesInit, ServicesInv, ImageInv

LEMMA ServicesStep == ServicesInv /\ [ServicesNext]_servicesVars => ServicesInv'
<1> SUFFICES ASSUME ServicesInv, [ServicesNext]_servicesVars PROVE ServicesInv'
  OBVIOUS
<1>1. /\ [DebuggerNext]_debuggerVars /\ [WatchNext]_watchVars
      /\ [ScanNext]_scanVars /\ [ImageNext]_imageVars
  BY DEF ServicesNext, servicesVars
<1>2. DebuggerTyped' BY <1>1, DebuggerTypedStep DEF ServicesInv
<1>3. RecordsInv' BY <1>1, RecordsStep DEF ServicesInv, DebuggerTyped
<1>4. WatchInv' BY <1>1, WatchStep DEF ServicesInv
<1>5. ScanTyped' /\ ScanTruth' /\ ScanCovers' BY <1>1, ScanStep, CoversStep DEF ServicesInv
<1>6. ImageInv' BY <1>1, ImageStep DEF ServicesInv
<1>7. StoreInv' BY <1>1, StoreStep DEF ServicesInv, ImageInv
<1> QED BY <1>2, <1>3, <1>4, <1>5, <1>6, <1>7 DEF ServicesInv

\* The composition's variables stay within the declarations of the code, and
\* within its bounds: a thread's suspensions, the rows of a scan, the watch
\* list, the journal and the annotations.
THEOREM ServicesTypeCorrect == ServicesSpec => []ServicesTypeOK
<1>1. ServicesInv => ServicesTypeOK
  BY DebuggerTypes, ScanTypes, ImageInvTypes DEF ServicesInv, ServicesTypeOK, WatchInv
<1> QED BY <1>1, ServicesInitInv, ServicesStep, PTL DEF ServicesSpec

\* The services keep their promises side by side: what was proved of each alone
\* holds of the engine that runs them all.
THEOREM ServicesSafe ==
  ServicesSpec => [](/\ PausedIsHeld /\ TrapsAreRecorded /\ HandleIsOwned
                     /\ RowsAreTrue /\ ScanIsComplete
                     /\ JournalRestores /\ AnnotationsSurvive)
<1>1. ASSUME ServicesInv
      PROVE  /\ PausedIsHeld /\ TrapsAreRecorded /\ HandleIsOwned
             /\ RowsAreTrue /\ ScanIsComplete
             /\ JournalRestores /\ AnnotationsSurvive
  <2>1. PausedIsHeld
    BY <1>1 DEF ServicesInv, DebuggerTyped, ControlInv, ControlTyped, Handling, Parked, PausedIsHeld
  <2>2. TrapsAreRecorded
    BY <1>1, RecordsTraps DEF ServicesInv, DebuggerTyped, DebuggerInv
  <2>3. HandleIsOwned BY <1>1 DEF ServicesInv, WatchInv
  <2>4. RowsAreTrue BY <1>1 DEF ServicesInv, ScanTruth, RowsAreTrue, RowTrue
  <2>5. ScanIsComplete BY <1>1 DEF ServicesInv, ScanCovers
  <2>6. JournalRestores /\ AnnotationsSurvive
    BY <1>1 DEF ServicesInv, ImageInv, JournalInv, JournalRestores, StoreInv
  <2> QED BY <2>1, <2>2, <2>3, <2>4, <2>5, <2>6
<1> QED BY <1>1, ServicesInitInv, ServicesStep, PTL DEF ServicesSpec
=============================================================================
