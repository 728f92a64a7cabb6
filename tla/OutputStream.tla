---------------------------- MODULE OutputStream ----------------------------
(***************************************************************************)
(* The application output, end to end: the numbered ring and the fan-out   *)
(* of core/infra/event_bus.cpp, the /events stream of core/mcp/            *)
(* mcp_server.cpp, the app.output request of core/mcp/mcp_tools.cpp, and   *)
(* the output pane's store of app/src/store/output.ts.                     *)
(*                                                                         *)
(* There is one pane.  A line is its sequence number; its text plays no    *)
(* part.  A frame on the stream is a line's number, or 0 for               *)
(* "output.cleared".                                                       *)
(***************************************************************************)
EXTENDS Integers, Sequences, FiniteSets

CONSTANTS
  MaxLines,     \* bound: lines written in a behaviour
  MaxClears,    \* bound: output_clear requests
  MaxStreams,   \* bound: connections the pane makes
  MaxRestarts,  \* bound: engine processes that die and are replaced
  CanFail,      \* whether a replay request may fail
  Writers,      \* how many threads may be inside output() at once
  RingCap,      \* kMaxOutput
  PaneCap,      \* kMaxLines of the pane
  QueueCap      \* kMaxQueueFrames

ASSUME StreamAssumption ==
  /\ MaxLines \in Nat /\ MaxClears \in Nat /\ MaxStreams \in Nat
  /\ MaxRestarts \in Nat /\ CanFail \in BOOLEAN
  /\ Writers \in Nat \ {0} /\ RingCap \in Nat \ {0} /\ PaneCap \in Nat \ {0}
  /\ QueueCap \in Nat \ {0}

Calls == 1..MaxStreams   \* one replay request per connection

VARIABLES
  ring,      \* g_out
  last,      \* g_out_seq
  writing,   \* lines that are in the ring and not published yet
  clears,    \* output_clear requests so far
  clearing,  \* the one under way: "no", "emptied" the ring, "reply" on its way to the pane
  restarts,  \* engine restarts so far
  conn,      \* the stream: "down", "subscribed", "greeting", "up"
  streams,   \* connections so far
  hello,     \* the output_revision the stream greets with
  queue,     \* the subscriber's queue in the engine
  wire,      \* frames written to the socket and not handled yet
  call,      \* replay requests: where each is and what it carries
  lines,     \* the pane's lines
  revision   \* the pane's cursor

engineVars == <<ring, last, writing, clears, clearing, restarts>>
streamVars == <<conn, streams, hello, queue, wire>>
paneVars == <<lines, revision>>
vars == <<engineVars, streamVars, call, paneVars>>

NoCall == [at |-> "none", since |-> 0, lines |-> <<>>, revision |-> 0]

Init ==
  /\ ring = <<>> /\ last = 0 /\ writing = {} /\ clears = 0 /\ clearing = "no"
  /\ restarts = 0
  /\ conn = "down" /\ streams = 0 /\ hello = 0 /\ queue = <<>> /\ wire = <<>>
  /\ call = [c \in Calls |-> NoCall]
  /\ lines = <<>> /\ revision = 0

\* The newest n elements of s.
Newest(s, n) == IF Len(s) <= n THEN s ELSE SubSeq(s, Len(s) - n + 1, Len(s))

\* The elements of s that are greater than r, in their order.
Newer(s, r) ==
  LET kept[i \in 0..Len(s)] ==
        IF i = 0 THEN <<>>
        ELSE IF s[i] > r THEN Append(kept[i - 1], s[i]) ELSE kept[i - 1]
  IN kept[Len(s)]

-----------------------------------------------------------------------------
(* The engine *)

\* impl_t::push: a full queue loses its oldest frame.
PushedDropNewest(f) == IF Len(queue) >= QueueCap THEN queue ELSE Append(queue, f)
Pushed(f) == Append(IF Len(queue) >= QueueCap THEN Tail(queue) ELSE queue, f)

Publish(f) == queue' = IF conn = "down" THEN queue ELSE Pushed(f)

RingKeepOneMore(s) == Newest(s, RingCap + 1)
RingKeepOldest(s) == IF Len(s) <= RingCap THEN s ELSE SubSeq(s, 1, RingCap)

\* A ring over its limit loses its oldest line.
RingKeep(s) == Newest(s, RingCap)

\* output(), first half: number the line and keep it.
WriteLine ==
  /\ last < MaxLines /\ Cardinality(writing) < Writers
  /\ last' = last + 1
  /\ ring' = RingKeep(Append(ring, last'))
  /\ writing' = writing \cup {last'}
  /\ UNCHANGED <<clears, clearing, restarts, streamVars, call, paneVars>>

\* output(), second half, outside the lock: publish it.
PublishLine(n) ==
  /\ n \in writing
  /\ writing' = writing \ {n}
  /\ Publish(n)
  /\ UNCHANGED <<ring, last, clears, clearing, restarts, conn, streams, hello, wire, call, paneVars>>

\* output_clear(), for the pane or for another client, in two halves as well.
ClearRing ==
  /\ clears < MaxClears /\ clearing = "no"
  /\ ring' = <<>>
  /\ clears' = clears + 1 /\ clearing' = "emptied"
  /\ UNCHANGED <<last, writing, restarts, streamVars, call, paneVars>>

PublishClear ==
  /\ clearing = "emptied"
  /\ clearing' \in {"no", "reply"}
  /\ Publish(0)
  /\ UNCHANGED <<ring, last, writing, clears, restarts, conn, streams, hello, wire, call, paneVars>>

-----------------------------------------------------------------------------
(* The stream *)

\* EventSource opens /events: subscribe() first, then output_revision().
Subscribe ==
  /\ conn = "down" /\ streams < MaxStreams
  /\ conn' = "subscribed" /\ streams' = streams + 1
  /\ queue' = <<>> /\ wire' = <<>>
  /\ UNCHANGED <<engineVars, hello, call, paneVars>>

ReadRevision ==
  /\ conn = "subscribed"
  /\ conn' = "greeting" /\ hello' = last
  /\ UNCHANGED <<engineVars, streams, queue, wire, call, paneVars>>

\* sub->wait() and the write of the whole batch.
WriteBatch ==
  /\ conn = "up" /\ queue # <<>>
  /\ wire' = wire \o queue /\ queue' = <<>>
  /\ UNCHANGED <<engineVars, conn, streams, hello, call, paneVars>>

\* The connection breaks; what was under way on it is gone.
Break ==
  /\ conn # "down"
  /\ conn' = "down" /\ queue' = <<>> /\ wire' = <<>> /\ hello' = 0
  /\ UNCHANGED <<engineVars, streams, call, paneVars>>

\* The engine process ends and a new one starts with an empty ring and seq 0;
\* its stream and the requests in it end with it.  (An answer already on its way
\* is handled, or lost, long before the pane's reconnect timer fires.)
Restart ==
  /\ restarts < MaxRestarts
  /\ restarts' = restarts + 1
  /\ ring' = <<>> /\ last' = 0 /\ writing' = {} /\ clearing' = "no"
  /\ conn' = "down" /\ queue' = <<>> /\ wire' = <<>> /\ hello' = 0
  /\ call' = [c \in Calls |-> NoCall]
  /\ UNCHANGED <<clears, streams, paneVars>>

-----------------------------------------------------------------------------
(* The pane *)

NeverRestarted == FALSE
Restarted == hello < revision

OnHello ==
  /\ conn = "greeting"
  /\ conn' = "up" /\ hello' = 0
  /\ LET r == IF Restarted THEN 0 ELSE revision
         gap == IF hello > PaneCap THEN hello - PaneCap ELSE 0
     IN /\ lines' = IF Restarted THEN <<>> ELSE lines
        /\ revision' = r
        /\ call' = [call EXCEPT ![streams] =
                      [NoCall EXCEPT !.at = "sent", !.since = IF r > 0 THEN r ELSE gap]]
  /\ UNCHANGED <<engineVars, streams, queue, wire>>

\* A line arrives on the stream: one that is not newer than the cursor is dropped.
OnOutput(n) ==
  IF n <= revision
    THEN UNCHANGED paneVars
    ELSE lines' = Newest(Append(lines, n), PaneCap) /\ revision' = n

OnCleared == lines' = <<>> /\ revision' = 0

\* clear() of the pane, once the engine has answered.
ClearReply ==
  /\ clearing = "reply"
  /\ clearing' = "no"
  /\ OnCleared
  /\ UNCHANGED <<ring, last, writing, clears, restarts, streamVars, call>>

OnFrame ==
  /\ conn = "up" /\ wire # <<>>
  /\ wire' = Tail(wire)
  /\ IF Head(wire) = 0 THEN OnCleared ELSE OnOutput(Head(wire))
  /\ UNCHANGED <<engineVars, conn, streams, hello, queue, call>>

\* app.output in the engine: the lines, then, separately, the revision.
ReplayLines(c) ==
  /\ call[c].at = "sent"
  /\ call' = [call EXCEPT ![c].at = "lines", ![c].lines = Newer(ring, call[c].since)]
  /\ UNCHANGED <<engineVars, streamVars, paneVars>>

ReplayRevision(c) ==
  /\ call[c].at = "lines"
  /\ call' = [call EXCEPT ![c].at = "answered", ![c].revision = last]
  /\ UNCHANGED <<engineVars, streamVars, paneVars>>

MergeUnfiltered(c) == lines \o call[c].lines
Merge(c) == lines \o Newer(call[c].lines, revision)

\* The answer reaches the pane.
ReplayApply(c) ==
  /\ call[c].at = "answered"
  /\ call' = [call EXCEPT ![c] = NoCall]
  /\ IF call[c].lines = <<>>
       THEN UNCHANGED paneVars
       ELSE lines' = Newest(Merge(c), PaneCap) /\ revision' = call[c].revision
  /\ UNCHANGED <<engineVars, streamVars>>

\* The request fails, which the pane swallows.
ReplayFail(c) ==
  /\ CanFail /\ call[c].at # "none"
  /\ call' = [call EXCEPT ![c] = NoCall]
  /\ UNCHANGED <<engineVars, streamVars, paneVars>>

-----------------------------------------------------------------------------
Next ==
  \/ WriteLine \/ ClearRing \/ PublishClear \/ ClearReply \/ \E n \in 1..MaxLines : PublishLine(n)
  \/ Subscribe \/ ReadRevision \/ WriteBatch \/ Break \/ Restart
  \/ OnHello \/ OnFrame
  \/ \E c \in Calls : ReplayLines(c) \/ ReplayRevision(c) \/ ReplayApply(c) \/ ReplayFail(c)

Spec == Init /\ [][Next]_vars

\* Threads inside output() finish it, an open stream is served and the pane
\* handles what arrives; connections and requests may fail at any time.
FairSpec ==
  /\ Spec
  /\ \A n \in 1..MaxLines : WF_vars(PublishLine(n))
  /\ WF_vars(PublishClear) /\ WF_vars(ClearReply)
  /\ WF_vars(ReadRevision) /\ WF_vars(WriteBatch) /\ WF_vars(OnHello) /\ WF_vars(OnFrame)
  /\ \A c \in Calls : WF_vars(ReplayLines(c) \/ ReplayRevision(c) \/ ReplayApply(c))

-----------------------------------------------------------------------------
Line == 1..MaxLines

TypeOK ==
  /\ ring \in Seq(Line) /\ Len(ring) <= RingCap
  /\ last \in 0..MaxLines /\ writing \subseteq Line
  /\ clears \in 0..MaxClears /\ clearing \in {"no", "emptied", "reply"}
  /\ restarts \in 0..MaxRestarts
  /\ conn \in {"down", "subscribed", "greeting", "up"} /\ streams \in 0..MaxStreams
  /\ hello \in 0..MaxLines
  /\ queue \in Seq({0} \cup Line) /\ Len(queue) <= QueueCap
  /\ wire \in Seq({0} \cup Line)
  /\ call \in [Calls -> [at : {"none", "sent", "lines", "answered"}, since : 0..MaxLines,
                         lines : Seq(Line), revision : 0..MaxLines]]
  /\ lines \in Seq(Line) /\ Len(lines) <= PaneCap
  /\ revision \in 0..MaxLines

Increasing(s) == \A i, j \in DOMAIN s : i < j => s[i] < s[j]

\* What a replay answers with is always a gapless run of the newest lines: the
\* ring loses lines only at its old end.  (event_bus.cpp:113-114, 122-124)
RingIsNewestRun ==
  ring # <<>> => \A i \in DOMAIN ring : ring[i] = last - Len(ring) + i

\* While its stream is up, the pane's cursor is never past the engine's newest
\* line, across reconnects and engine restarts: a cursor that is ahead would drop
\* every new line.  (output.ts:43, 61; event_bus.cpp:110)
CursorNeverAhead == conn = "up" => revision <= last

Distinct(s) == \A i, j \in DOMAIN s : s[i] = s[j] => i = j

\* As long as it stays on its first connection, the pane shows no line twice,
\* whatever order the replay answer, the live frames and a clear reach it in, and
\* it shows lines in the order they were written: until the replay's answer has
\* been applied, however many threads write, and after it (the answer may move the
\* cursor back) if they write one at a time.  (output.ts:28-35, 58)
PaneInOrder ==
  streams <= 1 /\ restarts = 0 =>
    /\ Distinct(lines)
    /\ Writers = 1 \/ (\E c \in Calls : call[c].at # "none") => Increasing(lines)

\* The pane is connected and has no replay request under way.
Settled == conn = "up" /\ \A c \in Calls : call[c].at = "none"
Shown(n) == \E i \in DOMAIN lines : lines[i] = n

\* A settled pane follows the stream: a line that is published to it, with no other
\* writer half way through output(), comes to be shown, unless a newer line
\* overtakes it, the pane is cleared, or the stream breaks.
\* (event_bus.cpp:45-56, 116, 194-214; output.ts:26-37)
StreamIsFollowed ==
  \A n \in 1..MaxLines :
    (Settled /\ writing = {n} /\ n > revision)
      ~> (Shown(n) \/ revision > n \/ clears > 0 \/ restarts > 0 \/ ~Settled)

\* "a reconnect replays what was missed via the seq cursor" (output.ts:2-3): once
\* everything under way has arrived, the pane shows all the lines in the ring.
Quiet ==
  /\ Settled /\ queue = <<>> /\ wire = <<>> /\ writing = {} /\ clearing = "no"
ReplayClosesGap ==
  Quiet => \A i \in DOMAIN ring : Shown(ring[i])
=============================================================================
