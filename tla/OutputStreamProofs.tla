------------------------- MODULE OutputStreamProofs -------------------------
(***************************************************************************)
(* Proofs about the application output, for any number of lines, writers,  *)
(* connections and restarts, and for rings, panes and queues of any size.  *)
(***************************************************************************)
EXTENDS OutputStream, InductionLemmas

-----------------------------------------------------------------------------
(* Sequences *)

Elems(s) == {s[i] : i \in DOMAIN s}

\* What Newest keeps: a suffix, within the cap.
LEMMA NewestFacts ==
  ASSUME NEW A, NEW s \in Seq(A), NEW n \in Nat \ {0}
  PROVE  /\ Newest(s, n) \in Seq(A) /\ Len(Newest(s, n)) <= n
         /\ \E d \in Nat : /\ Len(Newest(s, n)) = Len(s) - d
                           /\ \A i \in DOMAIN Newest(s, n) :
                                i + d \in DOMAIN s /\ Newest(s, n)[i] = s[i + d]
         /\ s # <<>> => Newest(s, n) # <<>>
<1>1. CASE Len(s) <= n
  <2>1. Newest(s, n) = s BY <1>1 DEF Newest
  <2>2. Len(s) = Len(s) - 0 /\ \A i \in DOMAIN s : i + 0 \in DOMAIN s /\ s[i] = s[i + 0]
    OBVIOUS
  <2> QED BY <1>1, <2>1, <2>2
<1>2. CASE Len(s) > n
  <2> DEFINE d == Len(s) - n
  <2>1. Newest(s, n) = SubSeq(s, d + 1, Len(s)) BY <1>2 DEF Newest
  <2>2. d \in Nat /\ d + 1 \in 1..Len(s) BY <1>2
  <2>3. /\ Newest(s, n) \in Seq(A) /\ Len(Newest(s, n)) = n
        /\ \A i \in 1..n : i + d \in 1..Len(s) /\ Newest(s, n)[i] = s[i + d]
    BY <1>2, <2>1, <2>2
  <2>4. Len(Newest(s, n)) = Len(s) - d /\ DOMAIN Newest(s, n) = 1..n /\ DOMAIN s = 1..Len(s)
    BY <2>3
  <2> HIDE DEF d
  <2> QED BY <2>2, <2>3, <2>4
<1> QED BY <1>1, <1>2

\* The function that Newer's definition introduces.
Kept(s, r, f, n) ==
  f = [i \in 0..n |->
         IF i = 0 THEN <<>> ELSE IF s[i] > r THEN Append(f[i - 1], s[i]) ELSE f[i - 1]]

\* It exists: by induction on the length it is defined up to.
LEMMA KeptExists ==
  ASSUME NEW s, NEW r
  PROVE  \A n \in Nat : \E f : Kept(s, r, f, n)
<1> DEFINE S == {n \in Nat : \E f : Kept(s, r, f, n)}
           Step(f, i) == IF i = 0 THEN <<>>
                         ELSE IF s[i] > r THEN Append(f[i - 1], s[i]) ELSE f[i - 1]
<1>1. 0 \in S
  <2> DEFINE g == [i \in 0..0 |-> <<>>]
  <2>1. g = [i \in 0..0 |-> Step(g, i)] OBVIOUS
  <2> QED BY <2>1 DEF Kept
<1>2. ASSUME NEW n \in Nat, n \in S PROVE n + 1 \in S
  <2>1. PICK f : Kept(s, r, f, n) BY <1>2
  <2> DEFINE g == [i \in 0..(n + 1) |-> IF i = n + 1 THEN Step(f, i) ELSE f[i]]
  <2>2. \A i \in 0..(n + 1) : g[i] = Step(g, i)
    <3> SUFFICES ASSUME NEW i \in 0..(n + 1) PROVE g[i] = Step(g, i)
      OBVIOUS
    <3>0. f = [k \in 0..n |-> Step(f, k)] BY <2>1 DEF Kept
    <3>1. CASE i = n + 1
      <4>1. i # 0 /\ i - 1 = n /\ n # n + 1 /\ n \in 0..(n + 1) BY <3>1
      <4>2. g[i - 1] = f[i - 1] BY <4>1
      <4> QED BY <3>1, <4>1, <4>2
    <3>2. CASE i # n + 1 /\ i # 0
      <4>1. i \in 0..n /\ i - 1 \in 0..(n + 1) /\ i - 1 # n + 1 BY <3>2
      <4>2. g[i - 1] = f[i - 1] /\ g[i] = f[i] BY <3>2, <4>1
      <4>3. f[i] = Step(f, i) BY <3>0, <4>1
      <4> QED BY <3>2, <4>2, <4>3
    <3>3. CASE i = 0
      <4>1. 0 \in 0..n /\ 0 # n + 1 BY <1>2
      <4>2. g[0] = f[0] BY <4>1
      <4>3. f[0] = <<>> BY <3>0, <4>1
      <4> QED BY <3>3, <4>2, <4>3
    <3> QED BY <3>1, <3>2, <3>3
  <2>3. Kept(s, r, g, n + 1)
    <3>1. g = [i \in 0..(n + 1) |-> g[i]] OBVIOUS
    <3> HIDE DEF g
    <3> QED BY <2>2, <3>1, Zenon DEF Kept
  <2> QED BY <2>3
<1> HIDE DEF S
<1>3. Nat \subseteq S BY <1>1, <1>2, SetInduction
<1> QED BY <1>3 DEF S

\* What Newer keeps: elements of s that are greater than r, in order.
LEMMA NewerFacts ==
  ASSUME NEW A \in SUBSET Int, NEW s \in Seq(A), NEW r \in Int
  PROVE  /\ Newer(s, r) \in Seq(A)
         /\ \A k \in DOMAIN Newer(s, r) : Newer(s, r)[k] > r /\ Newer(s, r)[k] \in Elems(s)
         /\ Increasing(s) => Increasing(Newer(s, r))
<1> DEFINE f == CHOOSE f : Kept(s, r, f, Len(s))
<1>1. Kept(s, r, f, Len(s)) BY KeptExists
<1>2. Newer(s, r) = f[Len(s)] BY DEF Newer, Kept
<1>3. /\ \A n \in 1..Len(s) : f[n] = IF s[n] > r THEN Append(f[n - 1], s[n]) ELSE f[n - 1]
      /\ f[0] = <<>>
  <2> HIDE DEF f
  <2>1. f = [i \in 0..Len(s) |-> IF i = 0 THEN <<>>
                                 ELSE IF s[i] > r THEN Append(f[i - 1], s[i]) ELSE f[i - 1]]
    BY <1>1 DEF Kept
  <2>2. Len(s) \in Nat /\ 0 \in 0..Len(s) OBVIOUS
  <2>3. f[0] = <<>> BY <2>1, <2>2
  <2>4. ASSUME NEW n \in 1..Len(s)
        PROVE  f[n] = IF s[n] > r THEN Append(f[n - 1], s[n]) ELSE f[n - 1]
    <3>1. n \in 0..Len(s) /\ n # 0 BY <2>2
    <3> QED BY <2>1, <3>1
  <2> QED BY <2>3, <2>4
<1> HIDE DEF f
\* What is kept of the first n elements.
<1> DEFINE Good(n) ==
             /\ f[n] \in Seq(A)
             /\ \A k \in DOMAIN f[n] : f[n][k] > r /\ \E i \in 1..n : s[i] = f[n][k]
             /\ Increasing(s) => Increasing(f[n])
           S == {n \in Nat : n <= Len(s) => Good(n)}
<1>4. 0 \in S
  <2>1. f[0] = <<>> /\ DOMAIN f[0] = {} /\ f[0] \in Seq(A) BY <1>3
  <2>2. Good(0) BY <2>1 DEF Increasing
  <2> QED BY <2>2
<1>5. ASSUME NEW n \in Nat, n \in S PROVE n + 1 \in S
  <2> SUFFICES ASSUME n + 1 <= Len(s) PROVE Good(n + 1)
    OBVIOUS
  <2> DEFINE g == f[n]
             x == s[n + 1]
  <2>1. n + 1 \in 1..Len(s) /\ (n + 1) - 1 = n /\ x \in A OBVIOUS
  <2>2. f[n + 1] = IF x > r THEN Append(g, x) ELSE g BY <1>3, <2>1
  <2>3. g \in Seq(A) /\ \A k \in DOMAIN g : g[k] > r /\ \E i \in 1..n : s[i] = g[k]
    BY <1>5
  <2>4. Increasing(s) => Increasing(g) BY <1>5
  <2> HIDE DEF g
  <2>5. CASE ~(x > r) BY <2>2, <2>3, <2>4, <2>5
  <2>6. CASE x > r
    <3> DEFINE h == Append(g, x)
    <3>1. /\ h \in Seq(A) /\ DOMAIN h = 1..(Len(g) + 1) /\ DOMAIN g = 1..Len(g) /\ Len(g) \in Nat
          /\ \A k \in 1..Len(g) : h[k] = g[k]
          /\ h[Len(g) + 1] = x
      BY <2>1, <2>3
    <3> HIDE DEF h
    <3>2. \A k \in DOMAIN h : h[k] > r /\ \E i \in 1..(n + 1) : s[i] = h[k]
      BY <2>3, <2>6, <3>1
    <3>3. ASSUME Increasing(s) PROVE Increasing(h)
      <4>1. \A k \in DOMAIN g : g[k] < x
        BY <2>3, <3>3, <2>1 DEF Increasing
      <4> QED BY <2>4, <3>1, <3>3, <4>1 DEF Increasing
    <3> QED BY <2>2, <2>6, <3>1, <3>2, <3>3 DEF h
  <2> QED BY <2>5, <2>6
<1> HIDE DEF S
<1>6. Len(s) \in S BY <1>4, <1>5, SetInduction
<1>7. Good(Len(s)) BY <1>6 DEF S
<1> QED BY <1>2, <1>7 DEF Elems

-----------------------------------------------------------------------------
(* The inductive invariant *)

\* Nothing under way is newer than the engine's newest line: not a line that is
\* being written, a frame, the greeting or an answer.  The pane itself may be ahead
\* of a restarted engine, but not while its stream is up.
NothingAhead ==
  /\ \A n \in writing : n <= last
  /\ \A i \in DOMAIN queue : queue[i] <= last
  /\ \A i \in DOMAIN wire : wire[i] <= last
  /\ hello <= last
  /\ \A c \in Calls : call[c].revision <= last
  /\ CursorNeverAhead

\* An answer carries lines in order, none of them newer than its revision, which
\* is read after them; requests belong to connections that were made.
AnswersInOrder ==
  \A c \in Calls :
    /\ call[c].at # "none" => c <= streams
    /\ Increasing(call[c].lines)
    /\ \A i \in DOMAIN call[c].lines :
         /\ call[c].lines[i] <= last
         /\ call[c].at = "answered" => call[c].lines[i] <= call[c].revision

StreamInv == TypeOK /\ RingIsNewestRun /\ NothingAhead /\ AnswersInOrder

\* How two lines that are published in turn differ: one writer at a time publishes
\* in order, several at least never the same line.
Apart(a, b) == IF Writers = 1 THEN a < b ELSE a # b

Sorted(s) == \A i, j \in DOMAIN s : i < j /\ s[i] # 0 /\ s[j] # 0 => Apart(s[i], s[j])
Before(S, T) == \A a \in S, b \in T : a # 0 /\ b # 0 => Apart(a, b)

\* The lines that may still reach the pane as frames.
UnderWay == Elems(wire) \cup Elems(queue) \cup writing

Awaiting == \E c \in Calls : call[c].at # "none"

\* Frames travel in the order they were published.
FramesInOrder ==
  /\ Sorted(wire) /\ Sorted(queue)
  /\ Before(Elems(wire), Elems(queue))
  /\ Before(Elems(wire), writing) /\ Before(Elems(queue), writing)
  /\ Writers = 1 => \A m, n \in writing : m = n

\* A line on the pane has passed: either nothing under way can repeat it (or be
\* older), or the cursor will drop what does.  As long as the answer is awaited,
\* both hold, since the answer may move the cursor back.
LinesHavePassed ==
  /\ \A x \in Elems(lines) :
       /\ x <= last
       /\ x <= revision \/ Before({x}, UnderWay)
       /\ Awaiting => x <= revision /\ Before({x}, UnderWay)
  /\ \A i, j \in DOMAIN lines : i < j => Apart(lines[i], lines[j])
  /\ Awaiting => Increasing(lines)

\* The pane on its first connection.
FirstConnection ==
  streams <= 1 /\ restarts = 0 =>
    /\ streams = 0 => conn = "down"
    /\ streams = 0 \/ conn \in {"subscribed", "greeting"}
         => lines = <<>> /\ revision = 0 /\ ~Awaiting
    /\ LinesHavePassed

\* A request as TypeOK describes it.
CallRecord == [at : {"none", "sent", "lines", "answered"}, since : 0..MaxLines,
               lines : Seq(Line), revision : 0..MaxLines]

\* The system starts with the invariant.
LEMMA StreamInitInv == Init => StreamInv /\ FramesInOrder /\ FirstConnection
<1> SUFFICES ASSUME Init PROVE StreamInv /\ FramesInOrder /\ FirstConnection
  OBVIOUS
<1>1. call \in [Calls -> CallRecord] /\ \A c \in Calls : call[c] = NoCall
  BY StreamAssumption DEF Init, NoCall, CallRecord
<1>2. TypeOK BY <1>1, StreamAssumption DEF Init, TypeOK, CallRecord
<1>3. RingIsNewestRun /\ NothingAhead
  BY <1>1 DEF Init, RingIsNewestRun, NothingAhead, CursorNeverAhead, NoCall
<1>4. AnswersInOrder BY <1>1 DEF AnswersInOrder, NoCall, Increasing
<1>5. FramesInOrder /\ FirstConnection
  <2>1. Elems(wire) = {} /\ Elems(queue) = {} /\ Elems(lines) = {} BY DEF Init, Elems
  <2>2. FramesInOrder BY <2>1 DEF FramesInOrder, Sorted, Before, Init
  <2>3. LinesHavePassed BY <2>1, <1>1 DEF LinesHavePassed, Init, Awaiting, NoCall
  <2>4. lines = <<>> /\ revision = 0 /\ ~Awaiting /\ conn = "down"
    BY <1>1 DEF Init, Awaiting, NoCall
  <2> QED BY <2>2, <2>3, <2>4 DEF FirstConnection
<1> QED BY <1>2, <1>3, <1>4, <1>5 DEF StreamInv

\* Pushing a frame into the subscriber's queue: the frame is appended, and the
\* oldest one may have gone.
LEMMA PushedFacts ==
  ASSUME TypeOK, NEW f \in {0} \cup Line
  PROVE  /\ Pushed(f) \in Seq({0} \cup Line) /\ Len(Pushed(f)) <= QueueCap
         /\ \E d \in {0, 1} :
              /\ Len(queue) >= d /\ Len(Pushed(f)) = Len(queue) - d + 1
              /\ \A i \in 1..(Len(queue) - d) : Pushed(f)[i] = queue[i + d]
              /\ Pushed(f)[Len(queue) - d + 1] = f
<1>0. queue \in Seq({0} \cup Line) /\ Len(queue) <= QueueCap /\ QueueCap \in Nat \ {0}
  BY StreamAssumption DEF TypeOK
<1>1. CASE Len(queue) >= QueueCap
  <2>1. Pushed(f) = Append(Tail(queue), f) BY <1>1 DEF Pushed
  <2>2. queue # <<>> /\ Len(queue) >= 1 BY <1>0, <1>1
  <2>3. /\ Tail(queue) \in Seq({0} \cup Line) /\ Len(Tail(queue)) = Len(queue) - 1
        /\ \A i \in 1..(Len(queue) - 1) : Tail(queue)[i] = queue[i + 1]
    BY <1>0, <2>2
  <2>4. /\ Pushed(f) \in Seq({0} \cup Line) /\ Len(Pushed(f)) = Len(queue) - 1 + 1
        /\ \A i \in 1..(Len(queue) - 1) : Pushed(f)[i] = queue[i + 1]
        /\ Pushed(f)[Len(queue) - 1 + 1] = f
    BY <2>1, <2>2, <2>3, <1>0
  <2> QED BY <1>0, <2>2, <2>4
<1>2. CASE Len(queue) < QueueCap
  <2>1. Pushed(f) = Append(queue, f) BY <1>0, <1>2 DEF Pushed
  <2>2. /\ Pushed(f) \in Seq({0} \cup Line) /\ Len(Pushed(f)) = Len(queue) - 0 + 1
        /\ \A i \in 1..(Len(queue) - 0) : Pushed(f)[i] = queue[i + 0]
        /\ Pushed(f)[Len(queue) - 0 + 1] = f
    BY <1>0, <2>1
  <2> QED BY <1>0, <1>2, <2>2
<1> QED BY <1>0, <1>1, <1>2

\* Every step keeps the state well typed.
LEMMA StreamTypeStep == TypeOK /\ [Next]_vars => TypeOK'
<1> SUFFICES ASSUME TypeOK, [Next]_vars PROVE TypeOK'
  OBVIOUS
<1> USE StreamAssumption
<1>t. call \in [Calls -> CallRecord] BY DEF TypeOK, CallRecord
\* The requests, one of which may be replaced.
<1>c. ASSUME call' = call \/ \E c, r : r \in CallRecord /\ call' = [call EXCEPT ![c] = r]
      PROVE  call' \in [Calls -> CallRecord]
  BY <1>c, <1>t
<1>1. CASE WriteLine
  <2>1. Append(ring, last') \in Seq(Line) BY <1>1 DEF WriteLine, TypeOK, Line
  <2>2. ring' \in Seq(Line) /\ Len(ring') <= RingCap
    BY <1>1, <2>1, NewestFacts DEF WriteLine, RingKeep
  <2> QED BY <1>1, <2>2 DEF WriteLine, TypeOK, streamVars, paneVars, Line
<1>2. ASSUME NEW n \in 1..MaxLines, PublishLine(n) PROVE TypeOK'
  <2>1. queue' \in Seq({0} \cup Line) /\ Len(queue') <= QueueCap
    BY <1>2, PushedFacts DEF PublishLine, Publish, TypeOK, Line
  <2> QED BY <1>2, <2>1 DEF PublishLine, TypeOK, paneVars
<1>3. CASE ClearRing
  BY <1>3 DEF ClearRing, TypeOK, streamVars, paneVars
<1>4. CASE PublishClear
  <2>1. queue' \in Seq({0} \cup Line) /\ Len(queue') <= QueueCap
    BY <1>4, PushedFacts DEF PublishClear, Publish, TypeOK
  <2> QED BY <1>4, <2>1 DEF PublishClear, TypeOK, paneVars
<1>5. CASE ClearReply
  BY <1>5 DEF ClearReply, OnCleared, TypeOK, streamVars
<1>6. CASE Subscribe \/ ReadRevision \/ Break
  <2>1. CASE Subscribe BY <2>1 DEF Subscribe, TypeOK, engineVars, paneVars
  <2>2. CASE ReadRevision BY <2>2 DEF ReadRevision, TypeOK, engineVars, paneVars
  <2>3. CASE Break BY <2>3 DEF Break, TypeOK, engineVars, paneVars
  <2> QED BY <1>6, <2>1, <2>2, <2>3
<1>7. CASE WriteBatch
  <2>1. wire \o queue \in Seq({0} \cup Line) BY DEF TypeOK
  <2> QED BY <1>7, <2>1 DEF WriteBatch, TypeOK, engineVars, paneVars
<1>8. CASE Restart
  <2>1. call' \in [Calls -> CallRecord] BY <1>8 DEF Restart, CallRecord, NoCall
  <2> QED BY <1>8, <2>1 DEF Restart, TypeOK, CallRecord, paneVars
<1>9. CASE OnHello
  <2> DEFINE r == IF Restarted THEN 0 ELSE revision
             gap == IF hello > PaneCap THEN hello - PaneCap ELSE 0
             q == [NoCall EXCEPT !.at = "sent", !.since = IF r > 0 THEN r ELSE gap]
  <2>1. /\ conn' = "up" /\ hello' = 0 /\ lines' = (IF Restarted THEN <<>> ELSE lines)
        /\ revision' = r /\ call' = [call EXCEPT ![streams] = q]
    BY <1>9 DEF OnHello
  <2>2. r \in 0..MaxLines /\ gap \in 0..MaxLines BY DEF TypeOK
  <2>3. UNCHANGED <<engineVars, streams, queue, wire>> BY <1>9 DEF OnHello
  <2> HIDE DEF r, gap
  <2>4. q \in CallRecord
    <3>1. (IF r > 0 THEN r ELSE gap) \in 0..MaxLines BY <2>2
    <3>2. \A d \in 0..MaxLines : [NoCall EXCEPT !.at = "sent", !.since = d] \in CallRecord
      <4>1. NoCall \in CallRecord BY DEF NoCall, CallRecord
      <4> QED BY <4>1 DEF CallRecord
    <3> QED BY <3>1, <3>2, Zenon
  <2> HIDE DEF q
  <2>5. call' \in [Calls -> CallRecord] BY <1>c, <2>1, <2>4
  <2>6. lines' \in Seq(Line) /\ Len(lines') <= PaneCap BY <2>1 DEF TypeOK
  <2> QED BY <2>1, <2>2, <2>3, <2>5, <2>6 DEF TypeOK, CallRecord, engineVars
<1>10. CASE OnFrame
  <2>1. wire # <<>> /\ wire' = Tail(wire) BY <1>10 DEF OnFrame
  <2>2. wire' \in Seq({0} \cup Line) /\ Head(wire) \in {0} \cup Line
    BY <2>1 DEF TypeOK
  <2>3. lines' \in Seq(Line) /\ Len(lines') <= PaneCap /\ revision' \in 0..MaxLines
    <3>1. CASE Head(wire) = 0 BY <1>10, <3>1 DEF OnFrame, OnCleared
    <3>2. CASE Head(wire) # 0 /\ Head(wire) <= revision
      BY <1>10, <3>2 DEF OnFrame, OnOutput, paneVars, TypeOK
    <3>3. CASE Head(wire) # 0 /\ ~(Head(wire) <= revision)
      <4>1. lines' = Newest(Append(lines, Head(wire)), PaneCap) /\ revision' = Head(wire)
        BY <1>10, <3>3 DEF OnFrame, OnOutput
      <4>2. Head(wire) \in Line /\ Append(lines, Head(wire)) \in Seq(Line)
        BY <2>2, <3>3 DEF TypeOK
      <4>3. lines' \in Seq(Line) /\ Len(lines') <= PaneCap BY <4>1, <4>2, NewestFacts
      <4> QED BY <4>1, <4>2, <4>3 DEF Line
    <3> QED BY <3>1, <3>2, <3>3
  <2> QED BY <1>10, <2>2, <2>3 DEF OnFrame, TypeOK, engineVars
<1>11. ASSUME NEW c \in Calls,
              ReplayLines(c) \/ ReplayRevision(c) \/ ReplayApply(c) \/ ReplayFail(c)
       PROVE  TypeOK'
  <2>0. call[c] \in CallRecord BY <1>t
  <2>1. CASE ReplayLines(c)
    <3>1. Newer(ring, call[c].since) \in Seq(Line)
      BY <2>0, NewerFacts DEF TypeOK, Line, CallRecord
    <3>2. call' \in [Calls -> CallRecord]
      <4>1. call' = [call EXCEPT ![c] = [call[c] EXCEPT !.at = "lines",
                                                        !.lines = Newer(ring, call[c].since)]]
        BY <2>1, <1>t DEF ReplayLines
      <4>2. [call[c] EXCEPT !.at = "lines", !.lines = Newer(ring, call[c].since)] \in CallRecord
        BY <2>0, <3>1 DEF CallRecord
      <4> QED BY <1>c, <4>1, <4>2
    <3> QED BY <2>1, <3>2 DEF ReplayLines, TypeOK, CallRecord, engineVars, streamVars, paneVars
  <2>2. CASE ReplayRevision(c)
    <3>1. call' \in [Calls -> CallRecord]
      <4>1. call' = [call EXCEPT ![c] = [call[c] EXCEPT !.at = "answered", !.revision = last]]
        BY <2>2, <1>t DEF ReplayRevision
      <4>2. [call[c] EXCEPT !.at = "answered", !.revision = last] \in CallRecord
        BY <2>0 DEF CallRecord, TypeOK
      <4> QED BY <1>c, <4>1, <4>2
    <3> QED BY <2>2, <3>1 DEF ReplayRevision, TypeOK, CallRecord, engineVars, streamVars, paneVars
  <2>3. NoCall \in CallRecord BY DEF NoCall, CallRecord
  <2>4. CASE ReplayApply(c)
    <3>1. call' \in [Calls -> CallRecord] BY <1>c, <2>3, <2>4 DEF ReplayApply
    <3>2. lines' \in Seq(Line) /\ Len(lines') <= PaneCap /\ revision' \in 0..MaxLines
      <4>1. CASE call[c].lines = <<>> BY <2>4, <4>1 DEF ReplayApply, paneVars, TypeOK
      <4>2. CASE call[c].lines # <<>>
        <5>1. lines' = Newest(Merge(c), PaneCap) /\ revision' = call[c].revision
          BY <2>4, <4>2 DEF ReplayApply
        <5>2. Newer(call[c].lines, revision) \in Seq(Line)
          BY <2>0, NewerFacts DEF TypeOK, Line, CallRecord
        <5>3. Merge(c) \in Seq(Line) BY <5>2 DEF Merge, TypeOK
        <5> QED BY <2>0, <5>1, <5>3, NewestFacts DEF CallRecord
      <4> QED BY <4>1, <4>2
    <3> QED BY <2>4, <3>1, <3>2 DEF ReplayApply, TypeOK, CallRecord, engineVars, streamVars
  <2>5. CASE ReplayFail(c)
    <3>1. call' \in [Calls -> CallRecord] BY <1>c, <2>3, <2>5 DEF ReplayFail
    <3> QED BY <2>5, <3>1 DEF ReplayFail, TypeOK, CallRecord, engineVars, streamVars, paneVars
  <2> QED BY <1>11, <2>1, <2>2, <2>4, <2>5
<1>12. CASE UNCHANGED vars
  BY <1>12 DEF vars, TypeOK, engineVars, streamVars, paneVars
<1> QED BY <1>1, <1>2, <1>3, <1>4, <1>5, <1>6, <1>7, <1>8, <1>9, <1>10, <1>11, <1>12 DEF Next

\* Only the writer and the clear touch the ring of a running engine, and the
\* writer's trimming takes the old end.
LEMMA RingStep == TypeOK /\ RingIsNewestRun /\ [Next]_vars => RingIsNewestRun'
<1> SUFFICES ASSUME TypeOK, RingIsNewestRun, [Next]_vars PROVE RingIsNewestRun'
  OBVIOUS
<1>1. CASE WriteLine
  <2> DEFINE s == Append(ring, last')
  <2>1. last' = last + 1 /\ last < MaxLines /\ ring' = Newest(s, RingCap)
    BY <1>1 DEF WriteLine, RingKeep
  <2>2. /\ ring \in Seq(Line) /\ last \in Nat /\ last' \in Line /\ last' \in Nat
        /\ RingCap \in Nat \ {0}
    BY <2>1, StreamAssumption DEF TypeOK, Line
  <2>3. s \in Seq(Line) /\ Len(s) = Len(ring) + 1 BY <2>2
  <2>4. \A i \in DOMAIN s : s[i] = last' - Len(s) + i
    <3> SUFFICES ASSUME NEW i \in DOMAIN s PROVE s[i] = last' - Len(s) + i
      OBVIOUS
    <3>1. CASE i = Len(ring) + 1 BY <2>2, <2>3, <3>1
    <3>2. CASE i \in DOMAIN ring
      <4>1. ring[i] = last - Len(ring) + i BY <3>2 DEF RingIsNewestRun
      <4>2. s[i] = ring[i] BY <2>2, <3>2
      <4> QED BY <2>1, <2>2, <2>3, <3>2, <4>1, <4>2
    <3> QED BY <2>2, <3>1, <3>2
  <2> HIDE DEF s
  <2>5. PICK d \in Nat : /\ Len(ring') = Len(s) - d
                         /\ \A i \in DOMAIN ring' : i + d \in DOMAIN s /\ ring'[i] = s[i + d]
    <3>1. \E d \in Nat : /\ Len(Newest(s, RingCap)) = Len(s) - d
                         /\ \A i \in DOMAIN Newest(s, RingCap) :
                              i + d \in DOMAIN s /\ Newest(s, RingCap)[i] = s[i + d]
      BY <2>2, <2>3, NewestFacts
    <3> QED BY <2>1, <3>1
  <2>6. ring' \in Seq(Line) BY <2>1, <2>2, <2>3, NewestFacts
  <2>7. ASSUME NEW i \in DOMAIN ring' PROVE ring'[i] = last' - Len(ring') + i
    <3>1. ring'[i] = last' - Len(s) + (i + d) BY <2>4, <2>5
    <3>2. i \in Nat /\ Len(s) \in Nat /\ Len(ring') = Len(s) - d BY <2>3, <2>5, <2>6
    <3> QED BY <2>2, <3>1, <3>2
  <2> QED BY <2>7 DEF RingIsNewestRun
<1>2. CASE ClearRing \/ Restart BY <1>2 DEF ClearRing, Restart, RingIsNewestRun
<1>3. CASE ring' = ring /\ last' = last BY <1>3 DEF RingIsNewestRun
<1>4. CASE \/ PublishClear \/ ClearReply \/ \E n \in 1..MaxLines : PublishLine(n)
           \/ Subscribe \/ ReadRevision \/ WriteBatch \/ Break \/ OnHello \/ OnFrame
           \/ \E c \in Calls : ReplayLines(c) \/ ReplayRevision(c) \/ ReplayApply(c) \/ ReplayFail(c)
           \/ UNCHANGED vars
  <2>1. ring' = ring /\ last' = last
    BY <1>4 DEF PublishClear, ClearReply, PublishLine, Subscribe, ReadRevision, WriteBatch,
                Break, OnHello, OnFrame, ReplayLines, ReplayRevision, ReplayApply, ReplayFail,
                vars, engineVars
  <2> QED BY <1>3, <2>1
<1> QED BY <1>1, <1>2, <1>4 DEF Next

\* A ring that is the newest run is in order.
LEMMA RingIncreasing ==
  ASSUME TypeOK, RingIsNewestRun
  PROVE  Increasing(ring) /\ \A i \in DOMAIN ring : ring[i] <= last
<1>1. ring \in Seq(Line) /\ last \in Nat BY StreamAssumption DEF TypeOK
<1>2. \A i \in DOMAIN ring : ring[i] = last - Len(ring) + i BY DEF RingIsNewestRun
<1> QED BY <1>1, <1>2 DEF Increasing

\* Every step keeps NothingAhead: what is under way dies with the engine that
\* numbered it, and the greeting of a new one takes a pane that is ahead back to 0.
LEMMA AheadStep == TypeOK /\ NothingAhead /\ [Next]_vars => NothingAhead'
<1> SUFFICES ASSUME TypeOK, NothingAhead, [Next]_vars PROVE NothingAhead'
  OBVIOUS
<1>t. TypeOK' BY StreamTypeStep
<1>n. /\ last \in Nat /\ last' \in Nat /\ revision \in Nat /\ hello \in Nat
      /\ queue \in Seq({0} \cup Line) /\ wire \in Seq({0} \cup Line)
      /\ \A n \in {0} \cup Line : n \in Nat
  BY <1>t, StreamAssumption DEF TypeOK, Line
\* A frame that is not ahead may be pushed.
<1>p. ASSUME NEW f \in {0} \cup Line, f <= last, Publish(f), last' = last
      PROVE  \A i \in DOMAIN queue' : queue'[i] <= last'
  <2>1. CASE queue' = queue BY <1>p, <2>1 DEF NothingAhead
  <2>2. CASE queue' = Pushed(f)
    <3>1. PICK d \in {0, 1} :
            /\ Len(queue) >= d /\ Len(queue') = Len(queue) - d + 1
            /\ \A i \in 1..(Len(queue) - d) : queue'[i] = queue[i + d]
            /\ queue'[Len(queue) - d + 1] = f
      BY <2>2, PushedFacts
    <3> SUFFICES ASSUME NEW i \in DOMAIN queue' PROVE queue'[i] <= last
      BY <1>p
    <3>2. queue' \in Seq({0} \cup Line) BY <1>t DEF TypeOK
    <3>3. CASE i = Len(queue) - d + 1 BY <1>p, <3>1, <3>3
    <3>4. CASE i \in 1..(Len(queue) - d)
      <4>1. i + d \in DOMAIN queue BY <1>n, <3>4
      <4> QED BY <3>1, <3>4, <4>1 DEF NothingAhead
    <3> QED BY <1>n, <3>1, <3>2, <3>3, <3>4
  <2> QED BY <1>p, <2>1, <2>2 DEF Publish
<1>1. CASE WriteLine
  <2>1. /\ last' = last + 1 /\ writing' = writing \cup {last'} /\ conn' = conn
        /\ queue' = queue /\ wire' = wire /\ hello' = hello /\ call' = call /\ revision' = revision
    BY <1>1 DEF WriteLine, streamVars, paneVars
  <2>2. \A x \in Nat : x <= last => x <= last' BY <1>n, <2>1
  <2>3. \A n \in writing : n \in Nat BY StreamAssumption DEF TypeOK, Line
  <2>4. /\ \A i \in DOMAIN queue : queue[i] \in Nat
        /\ \A i \in DOMAIN wire : wire[i] \in Nat
    <3>1. /\ \A i \in DOMAIN queue : queue[i] \in {0} \cup Line
          /\ \A i \in DOMAIN wire : wire[i] \in {0} \cup Line
      BY <1>n
    <3> QED BY <1>n, <3>1
  <2>5. \A c \in Calls : call[c].revision \in Nat BY StreamAssumption DEF TypeOK
  <2> QED BY <1>n, <2>1, <2>2, <2>3, <2>4, <2>5 DEF NothingAhead, CursorNeverAhead
<1>2. ASSUME NEW n \in 1..MaxLines, PublishLine(n) PROVE NothingAhead'
  <2>1. /\ n \in writing /\ writing' \subseteq writing /\ Publish(n) /\ last' = last /\ conn' = conn
        /\ wire' = wire /\ hello' = hello /\ call' = call /\ revision' = revision
    BY <1>2 DEF PublishLine, paneVars
  <2>2. n <= last /\ n \in Line BY <2>1 DEF NothingAhead, Line
  <2>3. \A i \in DOMAIN queue' : queue'[i] <= last' BY <1>p, <2>1, <2>2
  <2> QED BY <2>1, <2>3 DEF NothingAhead, CursorNeverAhead
<1>3. CASE PublishClear
  <2>1. /\ writing' = writing /\ Publish(0) /\ last' = last /\ conn' = conn
        /\ wire' = wire /\ hello' = hello /\ call' = call /\ revision' = revision
    BY <1>3 DEF PublishClear, paneVars
  <2>2. \A i \in DOMAIN queue' : queue'[i] <= last' BY <1>n, <1>p, <2>1
  <2> QED BY <2>1, <2>2 DEF NothingAhead, CursorNeverAhead
<1>4. CASE ClearRing
  BY <1>4 DEF ClearRing, NothingAhead, CursorNeverAhead, streamVars, paneVars
<1>5. CASE ClearReply
  BY <1>n, <1>5 DEF ClearReply, OnCleared, NothingAhead, CursorNeverAhead, streamVars
<1>6. CASE Subscribe \/ ReadRevision \/ Break
  BY <1>n, <1>6 DEF Subscribe, ReadRevision, Break, NothingAhead, CursorNeverAhead, engineVars,
                    paneVars
<1>7. CASE WriteBatch
  <2>1. /\ wire' = wire \o queue /\ queue' = <<>> /\ last' = last /\ writing' = writing
        /\ conn' = conn /\ hello' = hello /\ call' = call /\ revision' = revision
    BY <1>7 DEF WriteBatch, engineVars, paneVars
  <2>2. \A i \in DOMAIN wire' : wire'[i] <= last
    <3> SUFFICES ASSUME NEW i \in DOMAIN (wire \o queue) PROVE (wire \o queue)[i] <= last
      BY <2>1
    <3>1. CASE i \in DOMAIN wire BY <1>n, <3>1 DEF NothingAhead
    <3>2. CASE i \notin DOMAIN wire
      <4>1. i - Len(wire) \in DOMAIN queue /\ (wire \o queue)[i] = queue[i - Len(wire)]
        BY <1>n, <3>2
      <4> QED BY <4>1 DEF NothingAhead
    <3> QED BY <3>1, <3>2
  <2> QED BY <2>1, <2>2 DEF NothingAhead, CursorNeverAhead
<1>8. CASE Restart
  <2>1. /\ last' = 0 /\ writing' = {} /\ conn' = "down" /\ queue' = <<>> /\ wire' = <<>>
        /\ hello' = 0 /\ call' = [c \in Calls |-> NoCall]
    BY <1>8 DEF Restart
  <2> QED BY <2>1 DEF NothingAhead, CursorNeverAhead, NoCall
<1>9. CASE OnHello
  <2>1. /\ writing' = writing /\ queue' = queue /\ wire' = wire /\ last' = last /\ hello' = 0
        /\ revision' = IF Restarted THEN 0 ELSE revision
    BY <1>9 DEF OnHello, engineVars
  <2>2. \A c \in Calls : call'[c].revision \in {0, call[c].revision}
    <3> SUFFICES ASSUME NEW c \in Calls PROVE call'[c].revision \in {0, call[c].revision}
      OBVIOUS
    <3>1. PICK q : call' = [call EXCEPT ![streams] = [NoCall EXCEPT !.at = "sent", !.since = q]]
      BY <1>9 DEF OnHello
    <3>2. [NoCall EXCEPT !.at = "sent", !.since = q].revision = 0 BY DEF NoCall
    <3> QED BY <3>1, <3>2 DEF TypeOK
  <2>3. revision' <= last BY <1>n, <2>1 DEF Restarted, NothingAhead
  <2> QED BY <1>n, <2>1, <2>2, <2>3 DEF NothingAhead, CursorNeverAhead
<1>10. CASE OnFrame
  <2>1. /\ wire # <<>> /\ wire' = Tail(wire) /\ conn = "up" /\ conn' = conn /\ queue' = queue
        /\ writing' = writing /\ last' = last /\ hello' = hello /\ call' = call
        /\ revision' \in {0, revision, Head(wire)}
    BY <1>10 DEF OnFrame, engineVars, OnCleared, OnOutput, paneVars
  <2>2. Head(wire) <= last /\ \A i \in DOMAIN wire' : wire'[i] <= last
    <3>1. Head(wire) = wire[1] /\ 1 \in DOMAIN wire BY <1>n, <2>1
    <3>2. \A i \in DOMAIN wire' : i + 1 \in DOMAIN wire /\ wire'[i] = wire[i + 1] BY <1>n, <2>1
    <3> QED BY <3>1, <3>2 DEF NothingAhead
  <2>3. revision' <= last BY <1>n, <2>1, <2>2 DEF NothingAhead, CursorNeverAhead
  <2> QED BY <2>1, <2>2, <2>3 DEF NothingAhead, CursorNeverAhead
<1>11. ASSUME NEW c \in Calls,
              ReplayLines(c) \/ ReplayRevision(c) \/ ReplayApply(c) \/ ReplayFail(c)
       PROVE  NothingAhead'
  <2>1. /\ writing' = writing /\ queue' = queue /\ wire' = wire /\ last' = last /\ hello' = hello
        /\ conn' = conn /\ revision' \in {revision, call[c].revision}
    BY <1>11 DEF ReplayLines, ReplayRevision, ReplayApply, ReplayFail, engineVars, streamVars,
                 paneVars
  <2>2. \A b \in Calls : call'[b].revision \in {0, last, call[b].revision}
    <3>1. CASE ReplayLines(c) BY <3>1 DEF ReplayLines, TypeOK
    <3>2. CASE ReplayRevision(c) BY <3>2 DEF ReplayRevision, TypeOK
    <3>3. CASE ReplayApply(c) \/ ReplayFail(c)
      <4>1. call' = [call EXCEPT ![c] = NoCall] BY <3>3 DEF ReplayApply, ReplayFail
      <4>2. NoCall.revision = 0 BY DEF NoCall
      <4> QED BY <4>1, <4>2 DEF TypeOK
    <3> QED BY <1>11, <3>1, <3>2, <3>3
  <2> QED BY <1>n, <2>1, <2>2 DEF NothingAhead, CursorNeverAhead
<1>12. CASE UNCHANGED vars
  BY <1>12 DEF vars, NothingAhead, CursorNeverAhead, engineVars, streamVars, paneVars
<1> QED BY <1>1, <1>2, <1>3, <1>4, <1>5, <1>6, <1>7, <1>8, <1>9, <1>10, <1>11, <1>12 DEF Next

\* Every step keeps AnswersInOrder.
LEMMA AnswersStep ==
  TypeOK /\ RingIsNewestRun /\ AnswersInOrder /\ [Next]_vars => AnswersInOrder'
<1> SUFFICES ASSUME TypeOK, RingIsNewestRun, AnswersInOrder, [Next]_vars PROVE AnswersInOrder'
  OBVIOUS
<1> DEFINE Fine(q, c) ==
             /\ q.at # "none" => c <= streams'
             /\ Increasing(q.lines)
             /\ \A i \in DOMAIN q.lines :
                  q.lines[i] <= last' /\ (q.at = "answered" => q.lines[i] <= q.revision)
<1>t. call \in [Calls -> CallRecord] BY DEF TypeOK, CallRecord
<1>n. last \in Nat /\ streams \in Nat /\ Calls \subseteq Nat
  BY StreamAssumption DEF TypeOK, Calls
\* Requests that stay as they are stay fine while the counters grow.
<1>k. ASSUME NEW c \in Calls, call'[c] = call[c], last' \in {last, last + 1},
             streams' \in {streams, streams + 1}
      PROVE  Fine(call'[c], c)
  <2>1. call[c].lines \in Seq(Line) /\ \A i \in DOMAIN call[c].lines : call[c].lines[i] \in Nat
    BY <1>t, StreamAssumption DEF CallRecord, Line
  <2> QED BY <1>k, <1>n, <2>1 DEF AnswersInOrder
<1>e. ASSUME NEW c \in Calls, call'[c].lines = <<>>, call'[c].at # "none" => c <= streams'
      PROVE  Fine(call'[c], c)
  BY <1>e DEF Increasing
<1>a. ASSUME \A c \in Calls : Fine(call'[c], c) PROVE AnswersInOrder'
  BY <1>a DEF AnswersInOrder
<1> HIDE DEF Fine
<1>1. CASE \/ WriteLine \/ ClearRing \/ PublishClear \/ ClearReply
           \/ \E n \in 1..MaxLines : PublishLine(n)
           \/ Subscribe \/ ReadRevision \/ WriteBatch \/ Break \/ OnFrame \/ UNCHANGED vars
  <2>1. call' = call /\ last' \in {last, last + 1} /\ streams' \in {streams, streams + 1}
    BY <1>1 DEF WriteLine, ClearRing, PublishClear, ClearReply, PublishLine, Subscribe,
                ReadRevision, WriteBatch, Break, OnFrame, vars, engineVars, streamVars
  <2> QED BY <1>a, <1>k, <2>1
<1>2. CASE Restart
  <2>1. \A c \in Calls : call'[c].at = "none" /\ call'[c].lines = <<>>
    BY <1>2 DEF Restart, NoCall
  <2> QED BY <1>a, <1>e, <2>1
<1>3. CASE OnHello
  <2>1. PICK d : call' = [call EXCEPT ![streams] = [NoCall EXCEPT !.at = "sent", !.since = d]]
    BY <1>3 DEF OnHello
  <2>2. last' = last /\ streams' = streams BY <1>3 DEF OnHello, engineVars
  <2>3. ASSUME NEW c \in Calls PROVE Fine(call'[c], c)
    <3>1. CASE c = streams
      <4>1. call'[c].lines = <<>> BY <1>t, <2>1, <3>1 DEF NoCall
      <4> QED BY <1>e, <1>n, <2>2, <3>1, <4>1
    <3>2. CASE c # streams BY <1>k, <1>t, <2>1, <2>2, <3>2
    <3> QED BY <3>1, <3>2
  <2> QED BY <1>a, <2>3
<1>4. ASSUME NEW c \in Calls,
             ReplayLines(c) \/ ReplayRevision(c) \/ ReplayApply(c) \/ ReplayFail(c)
      PROVE  AnswersInOrder'
  <2>0. last' = last /\ streams' = streams
    BY <1>4 DEF ReplayLines, ReplayRevision, ReplayApply, ReplayFail, engineVars, streamVars
  <2>o. call[c] \in CallRecord BY <1>t
  <2>1. Fine(call'[c], c)
    <3>1. CASE ReplayLines(c)
      <4> DEFINE s == Newer(ring, call[c].since)
      <4>1. call[c].at = "sent" /\ call'[c].at = "lines" /\ call'[c].lines = s
        BY <1>t, <2>o, <3>1 DEF ReplayLines, CallRecord
      <4>2. ring \in Seq(Line) /\ Line \in SUBSET Int /\ call[c].since \in Int
        BY <2>o, StreamAssumption DEF TypeOK, Line, CallRecord
      <4>3. /\ \A k \in DOMAIN s : s[k] \in Elems(ring)
            /\ Increasing(ring) => Increasing(s)
        BY <4>2, NewerFacts
      <4>4. Increasing(s) /\ \A k \in DOMAIN s : s[k] <= last
        BY <4>3, RingIncreasing DEF Elems
      <4>5. c <= streams BY <4>1 DEF AnswersInOrder
      <4> HIDE DEF s
      <4> QED BY <2>0, <4>1, <4>4, <4>5 DEF Fine
    <3>2. CASE ReplayRevision(c)
      <4>1. /\ call[c].at = "lines" /\ call'[c].at = "answered" /\ call'[c].lines = call[c].lines
            /\ call'[c].revision = last
        BY <1>t, <2>o, <3>2 DEF ReplayRevision, CallRecord
      <4> QED BY <2>0, <4>1 DEF Fine, AnswersInOrder
    <3>3. CASE ReplayApply(c) \/ ReplayFail(c)
      <4>1. call'[c] = NoCall BY <1>t, <3>3 DEF ReplayApply, ReplayFail
      <4>2. call'[c].lines = <<>> /\ call'[c].at = "none" BY <4>1 DEF NoCall
      <4> QED BY <1>e, <4>2
    <3> QED BY <1>4, <3>1, <3>2, <3>3
  <2>2. ASSUME NEW b \in Calls, b # c PROVE Fine(call'[b], b)
    <3>1. call'[b] = call[b]
      BY <1>4, <1>t, <2>2 DEF ReplayLines, ReplayRevision, ReplayApply, ReplayFail
    <3> QED BY <1>k, <2>0, <3>1
  <2> QED BY <1>a, <2>1, <2>2
<1> QED BY <1>1, <1>2, <1>3, <1>4 DEF Next

\* The invariant is inductive.
LEMMA StreamStep == StreamInv /\ [Next]_vars => StreamInv'
BY StreamTypeStep, RingStep, AheadStep, AnswersStep DEF StreamInv

\* The output path is well typed; the ring, the subscriber's queue and the pane
\* stay within kMaxOutput, kMaxQueueFrames and kMaxLines.
\* (event_bus.cpp:21, 47-54, 113; output.ts:31, 60)
THEOREM StreamTypeCorrect == Spec => []TypeOK
<1>1. StreamInv => TypeOK BY DEF StreamInv
<1> QED BY <1>1, StreamInitInv, StreamStep, PTL DEF Spec

\* The ring is always a gapless run of the newest lines.  (event_bus.cpp:113-114)
THEOREM RingKeepsNewest == Spec => []RingIsNewestRun
<1>1. StreamInv => RingIsNewestRun BY DEF StreamInv
<1> QED BY <1>1, StreamInitInv, StreamStep, PTL DEF Spec

\* The cursor of a connected pane is never ahead of the engine, across reconnects,
\* restarts and answers that arrive late.  (output.ts:43, 61; event_bus.cpp:110)
THEOREM CursorFollows == Spec => []CursorNeverAhead
<1>1. StreamInv => CursorNeverAhead BY DEF StreamInv, NothingAhead
<1> QED BY <1>1, StreamInitInv, StreamStep, PTL DEF Spec

-----------------------------------------------------------------------------
(* The order of frames and of the pane's lines *)

LEMMA ApartFacts ==
  ASSUME NEW a \in Int, NEW b \in Int
  PROVE  /\ a < b => Apart(a, b)
         /\ Apart(a, b) => a # b
         /\ Writers = 1 /\ Apart(a, b) => a < b
BY DEF Apart

\* The sequences the order is about hold integers.
LEMMA Numbers ==
  ASSUME TypeOK
  PROVE  /\ wire \in Seq({0} \cup Line) /\ queue \in Seq({0} \cup Line) /\ lines \in Seq(Line)
         /\ Elems(wire) \subseteq Int /\ Elems(queue) \subseteq Int /\ writing \subseteq Int
         /\ Elems(lines) \subseteq Int /\ UnderWay \subseteq Int
         /\ last \in Int /\ revision \in Int /\ Line \subseteq Int
<1>1. Line \subseteq Int /\ {0} \cup Line \subseteq Int BY DEF Line
<1>2. wire \in Seq({0} \cup Line) /\ queue \in Seq({0} \cup Line) /\ lines \in Seq(Line)
  BY DEF TypeOK
<1>3. /\ \A i \in DOMAIN wire : wire[i] \in {0} \cup Line
      /\ \A i \in DOMAIN queue : queue[i] \in {0} \cup Line
      /\ \A i \in DOMAIN lines : lines[i] \in Line
  BY <1>2
<1>4. Elems(wire) \subseteq Int /\ Elems(queue) \subseteq Int /\ Elems(lines) \subseteq Int
  BY <1>1, <1>3 DEF Elems
<1>5. writing \subseteq Int BY <1>1 DEF TypeOK
<1>6. UnderWay \subseteq Int BY <1>4, <1>5 DEF UnderWay
<1>7. last \in Int /\ revision \in Int BY DEF TypeOK
<1> QED BY <1>1, <1>2, <1>4, <1>5, <1>6, <1>7

\* A push keeps the queue sorted when the frame comes after what is in it.
LEMMA PushSorted ==
  ASSUME TypeOK, Sorted(queue), NEW f \in {0} \cup Line, Before(Elems(queue), {f})
  PROVE  Sorted(Pushed(f)) /\ Elems(Pushed(f)) \subseteq Elems(queue) \cup {f}
<1> DEFINE q == Pushed(f)
<1>1. PICK d \in {0, 1} : /\ Len(queue) >= d /\ Len(q) = Len(queue) - d + 1
                          /\ \A i \in 1..(Len(queue) - d) : q[i] = queue[i + d]
                          /\ q[Len(queue) - d + 1] = f
  BY PushedFacts
<1>2. q \in Seq({0} \cup Line) /\ queue \in Seq({0} \cup Line)
  BY PushedFacts DEF TypeOK
<1> HIDE DEF q
<1>3. /\ DOMAIN q = 1..(Len(queue) - d + 1) /\ DOMAIN queue = 1..Len(queue)
      /\ Len(queue) \in Nat /\ d \in Nat
  BY <1>1, <1>2
<1>4. \A i \in 1..(Len(queue) - d) : i + d \in DOMAIN queue BY <1>3
<1>5. ASSUME NEW i \in DOMAIN q, NEW j \in DOMAIN q, i < j, q[i] # 0, q[j] # 0
      PROVE  Apart(q[i], q[j])
  <2>1. i \in 1..(Len(queue) - d) BY <1>3, <1>5
  <2>2. q[i] = queue[i + d] /\ i + d \in DOMAIN queue BY <1>1, <1>4, <2>1
  <2>3. CASE j = Len(queue) - d + 1
    <3>1. q[j] = f BY <1>1, <2>3
    <3>2. q[i] \in Elems(queue) BY <2>2 DEF Elems
    <3> QED BY <1>5, <3>1, <3>2 DEF Before
  <2>4. CASE j # Len(queue) - d + 1
    <3>1. j \in 1..(Len(queue) - d) BY <1>3, <2>4
    <3>2. q[j] = queue[j + d] /\ j + d \in DOMAIN queue BY <1>1, <1>4, <3>1
    <3>3. i \in Int /\ j \in Int /\ d \in Int BY <1>3
    <3>4. i + d < j + d BY <1>5, <3>3
    <3> QED BY <1>5, <2>2, <3>2, <3>4 DEF Sorted
  <2> QED BY <2>3, <2>4
<1>6. Elems(q) \subseteq Elems(queue) \cup {f}
  <2> SUFFICES ASSUME NEW i \in DOMAIN q PROVE q[i] \in Elems(queue) \cup {f}
    BY DEF Elems
  <2>1. CASE i = Len(queue) - d + 1 BY <1>1, <2>1
  <2>2. CASE i # Len(queue) - d + 1
    <3>1. i \in 1..(Len(queue) - d) BY <1>3, <2>2
    <3> QED BY <1>1, <1>4, <3>1 DEF Elems
  <2> QED BY <2>1, <2>2
<1> QED BY <1>5, <1>6 DEF Sorted, q

\* The batch that goes to the socket follows what is on it.
LEMMA BatchSorted ==
  ASSUME TypeOK, Sorted(wire), Sorted(queue), Before(Elems(wire), Elems(queue))
  PROVE  Sorted(wire \o queue) /\ Elems(wire \o queue) = Elems(wire) \cup Elems(queue)
<1> DEFINE b == wire \o queue
           m == Len(wire)
<1>1. /\ wire \in Seq({0} \cup Line) /\ queue \in Seq({0} \cup Line) /\ b \in Seq({0} \cup Line)
      /\ m \in Nat /\ Len(queue) \in Nat /\ Len(b) = m + Len(queue)
      /\ DOMAIN wire = 1..m /\ DOMAIN queue = 1..Len(queue) /\ DOMAIN b = 1..(m + Len(queue))
  BY DEF TypeOK
<1>2. \A i \in 1..m : b[i] = wire[i] /\ b[i] \in Elems(wire) BY <1>1 DEF Elems
<1>3. \A i \in DOMAIN b : i > m => /\ i - m \in DOMAIN queue /\ b[i] = queue[i - m]
                                   /\ b[i] \in Elems(queue)
  BY <1>1 DEF Elems
<1> HIDE DEF b
<1>4. ASSUME NEW i \in DOMAIN b, NEW j \in DOMAIN b, i < j, b[i] # 0, b[j] # 0
      PROVE  Apart(b[i], b[j])
  <2>1. CASE j <= m
    <3>1. i \in DOMAIN wire /\ j \in DOMAIN wire BY <1>1, <1>4, <2>1
    <3> QED BY <1>1, <1>2, <1>4, <3>1 DEF Sorted
  <2>2. CASE i <= m /\ j > m
    <3>1. i \in 1..m BY <1>1, <2>2
    <3> QED BY <1>2, <1>3, <1>4, <2>2, <3>1 DEF Before
  <2>3. CASE i > m /\ j > m
    <3>1. i - m < j - m BY <1>1, <1>4
    <3> QED BY <1>3, <1>4, <2>3, <3>1 DEF Sorted
  <2> QED BY <1>1, <1>4, <2>1, <2>2, <2>3
<1>5. Elems(b) \subseteq Elems(wire) \cup Elems(queue)
  <2> SUFFICES ASSUME NEW i \in DOMAIN b PROVE b[i] \in Elems(wire) \cup Elems(queue)
    BY DEF Elems
  <2>1. i \in 1..m \/ i > m BY <1>1
  <2> QED BY <1>2, <1>3, <2>1
<1>6. Elems(wire) \subseteq Elems(b)
  <2>1. \A i \in 1..m : i \in DOMAIN b BY <1>1
  <2> QED BY <1>1, <1>2, <2>1 DEF Elems
<1>7. Elems(queue) \subseteq Elems(b)
  <2> SUFFICES ASSUME NEW i \in DOMAIN queue PROVE queue[i] \in Elems(b)
    BY DEF Elems
  <2>1. i + m \in DOMAIN b /\ i + m > m /\ (i + m) - m = i BY <1>1
  <2>2. b[i + m] = queue[i] BY <1>3, <2>1
  <2> QED BY <2>1, <2>2 DEF Elems
<1> QED BY <1>4, <1>5, <1>6, <1>7 DEF Sorted, b

\* The first frame precedes the others on the wire.
LEMMA TailSorted ==
  ASSUME TypeOK, Sorted(wire), wire # <<>>
  PROVE  /\ Sorted(Tail(wire)) /\ Elems(Tail(wire)) \subseteq Elems(wire)
         /\ Head(wire) \in Elems(wire) /\ Before({Head(wire)}, Elems(Tail(wire)))
<1> DEFINE t == Tail(wire)
<1>1. /\ wire \in Seq({0} \cup Line) /\ Len(wire) \in Nat /\ Len(wire) >= 1
      /\ DOMAIN wire = 1..Len(wire) /\ DOMAIN t = 1..(Len(wire) - 1)
      /\ Head(wire) = wire[1]
      /\ \A i \in DOMAIN t : t[i] = wire[i + 1]
  BY DEF TypeOK
<1> HIDE DEF t
<1>2. \A i \in DOMAIN t : i + 1 \in DOMAIN wire /\ i + 1 > 1 BY <1>1
<1>3. 1 \in DOMAIN wire BY <1>1
<1>4. Sorted(t)
  <2> SUFFICES ASSUME NEW i \in DOMAIN t, NEW j \in DOMAIN t, i < j, t[i] # 0, t[j] # 0
               PROVE  Apart(t[i], t[j])
    BY DEF Sorted
  <2>1. i + 1 < j + 1 BY <1>1
  <2> QED BY <1>1, <1>2, <2>1 DEF Sorted
<1>5. Elems(t) \subseteq Elems(wire) BY <1>1, <1>2 DEF Elems
<1>6. Before({Head(wire)}, Elems(t))
  <2> SUFFICES ASSUME NEW i \in DOMAIN t, wire[1] # 0, t[i] # 0 PROVE Apart(wire[1], t[i])
    BY <1>1 DEF Before, Elems
  <2> QED BY <1>1, <1>2, <1>3 DEF Sorted
<1> QED BY <1>1, <1>3, <1>4, <1>5, <1>6 DEF t, Elems

\* Every step keeps the frames in the order they were published.
LEMMA FramesStep == TypeOK /\ NothingAhead /\ FramesInOrder /\ [Next]_vars => FramesInOrder'
<1> SUFFICES ASSUME TypeOK, NothingAhead, FramesInOrder, [Next]_vars PROVE FramesInOrder'
  OBVIOUS
<1>i. TypeOK' BY StreamTypeStep
<1>1. CASE WriteLine
  <2>1. /\ last' = last + 1 /\ writing' = writing \cup {last + 1} /\ wire' = wire /\ queue' = queue
        /\ Cardinality(writing) < Writers
    BY <1>1 DEF WriteLine, streamVars
  <2>2. /\ \A a \in Elems(wire) : a \in Int /\ a <= last
        /\ \A a \in Elems(queue) : a \in Int /\ a <= last
    BY Numbers DEF NothingAhead, Elems
  <2>3. \A a \in Int : a <= last => Apart(a, last + 1)
    <3>1. \A a \in Int : a <= last => a < last + 1 /\ last + 1 \in Int BY Numbers
    <3> QED BY <3>1, ApartFacts
  <2>4. Before(Elems(wire), writing') /\ Before(Elems(queue), writing')
    BY <2>1, <2>2, <2>3 DEF FramesInOrder, Before
  <2>5. Writers = 1 => \A m, n \in writing' : m = n
    <3>1. ASSUME Writers = 1 PROVE writing = {}
      <4>1. IsFiniteSet(Line) BY StreamAssumption, FS_Interval DEF Line
      <4>2. IsFiniteSet(writing) BY <4>1, FS_Subset DEF TypeOK
      <4>3. Cardinality(writing) \in Nat BY <4>2, FS_CardinalityType
      <4>4. Cardinality(writing) = 0 BY <2>1, <3>1, <4>3
      <4> QED BY <4>2, <4>4, FS_EmptySet
    <3> QED BY <2>1, <3>1
  <2> QED BY <2>1, <2>4, <2>5 DEF FramesInOrder
<1>2. ASSUME NEW n \in 1..MaxLines, PublishLine(n) PROVE FramesInOrder'
  <2>1. /\ n \in writing /\ writing' = writing \ {n} /\ Publish(n) /\ wire' = wire
    BY <1>2 DEF PublishLine
  <2>2. CASE queue' = queue BY <2>1, <2>2 DEF FramesInOrder, Before
  <2>3. CASE queue' = Pushed(n)
    <3>1. Before(Elems(queue), {n}) /\ Before(Elems(wire), {n})
      BY <2>1 DEF FramesInOrder, Before
    <3>2. Sorted(queue') /\ Elems(queue') \subseteq Elems(queue) \cup {n}
      BY <2>3, <3>1, PushSorted DEF FramesInOrder, Line
    <3>3. Before({n}, writing')
      <4>1. \A m \in writing' : m # n /\ m \in writing BY <2>1
      <4> QED BY <2>1, <4>1 DEF Before, FramesInOrder, Apart
    <3>4. Before(Elems(wire), Elems(queue')) BY <3>1, <3>2 DEF FramesInOrder, Before
    <3>5. Before(Elems(queue'), writing') BY <2>1, <3>2, <3>3 DEF FramesInOrder, Before
    <3>6. Before(Elems(wire), writing') BY <2>1 DEF FramesInOrder, Before
    <3> QED BY <2>1, <3>2, <3>4, <3>5, <3>6 DEF FramesInOrder
  <2> QED BY <2>1, <2>2, <2>3 DEF Publish
<1>3. CASE PublishClear
  <2>1. writing' = writing /\ Publish(0) /\ wire' = wire BY <1>3 DEF PublishClear
  <2>2. CASE queue' = queue BY <2>1, <2>2 DEF FramesInOrder
  <2>3. CASE queue' = Pushed(0)
    <3>1. Sorted(queue') /\ Elems(queue') \subseteq Elems(queue) \cup {0}
      BY <2>3, PushSorted DEF FramesInOrder, Before
    <3> QED BY <2>1, <3>1 DEF FramesInOrder, Before
  <2> QED BY <2>1, <2>2, <2>3 DEF Publish
<1>4. CASE Subscribe \/ Break \/ Restart
  <2>1. queue' = <<>> /\ wire' = <<>> /\ writing' \subseteq writing
    BY <1>4 DEF Subscribe, Break, Restart, engineVars
  <2>2. Elems(queue') = {} /\ Elems(wire') = {} BY <2>1 DEF Elems
  <2> QED BY <2>1, <2>2 DEF FramesInOrder, Sorted, Before
<1>5. CASE WriteBatch
  <2>1. wire' = wire \o queue /\ queue' = <<>> /\ writing' = writing
    BY <1>5 DEF WriteBatch, engineVars
  <2>2. Sorted(wire') /\ Elems(wire') = Elems(wire) \cup Elems(queue)
    BY <2>1, BatchSorted DEF FramesInOrder
  <2>3. Elems(queue') = {} /\ Sorted(queue') BY <2>1 DEF Elems, Sorted
  <2> QED BY <2>1, <2>2, <2>3 DEF FramesInOrder, Before
<1>6. CASE OnFrame
  <2>1. wire # <<>> /\ wire' = Tail(wire) /\ queue' = queue /\ writing' = writing
    BY <1>6 DEF OnFrame, engineVars
  <2>2. Sorted(wire') /\ Elems(wire') \subseteq Elems(wire)
    BY <2>1, TailSorted DEF FramesInOrder
  <2> QED BY <2>1, <2>2 DEF FramesInOrder, Before
<1>7. CASE \/ ClearRing \/ ClearReply \/ ReadRevision \/ OnHello \/ UNCHANGED vars
           \/ \E c \in Calls : ReplayLines(c) \/ ReplayRevision(c) \/ ReplayApply(c) \/ ReplayFail(c)
  <2>1. wire' = wire /\ queue' = queue /\ writing' = writing
    BY <1>7 DEF ClearRing, ClearReply, ReadRevision, OnHello, ReplayLines, ReplayRevision,
                ReplayApply, ReplayFail, vars, engineVars, streamVars
  <2> QED BY <2>1 DEF FramesInOrder
<1> QED BY <1>1, <1>2, <1>3, <1>4, <1>5, <1>6, <1>7 DEF Next

\* A step that leaves the pane alone and brings no old line under way leaves the
\* lines past.
LEMMA PassedFrame ==
  ASSUME TypeOK, TypeOK', LinesHavePassed, lines' = lines, revision' = revision, last' >= last,
         Awaiting' => Awaiting, \A n \in UnderWay' : n \in UnderWay \/ n = 0 \/ n > last
  PROVE  LinesHavePassed'
<1>1. Elems(lines') = Elems(lines) /\ Elems(lines) \subseteq Int BY Numbers DEF Elems
<1>2. last \in Int /\ last' \in Int BY DEF TypeOK
<1>3. ASSUME NEW x \in Elems(lines), Before({x}, UnderWay) PROVE Before({x}, UnderWay')
  <2> SUFFICES ASSUME NEW b \in UnderWay', b # 0, x # 0 PROVE Apart(x, b)
    BY DEF Before
  <2>1. CASE b \in UnderWay BY <1>3, <2>1 DEF Before
  <2>2. CASE b > last
    <3>1. x <= last /\ x \in Int BY <1>1 DEF LinesHavePassed
    <3>2. b \in Int
      <4>1. writing' \subseteq Line /\ queue' \in Seq({0} \cup Line) /\ wire' \in Seq({0} \cup Line)
        BY DEF TypeOK
      <4>2. \A i \in DOMAIN queue' : queue'[i] \in {0} \cup Line BY <4>1
      <4>3. \A i \in DOMAIN wire' : wire'[i] \in {0} \cup Line BY <4>1
      <4>4. {0} \cup Line \subseteq Int BY DEF Line
      <4> QED BY <4>1, <4>2, <4>3, <4>4 DEF UnderWay, Elems
    <3>3. x < b BY <1>2, <2>2, <3>1, <3>2
    <3> QED BY <3>1, <3>2, <3>3, ApartFacts
  <2> QED BY <2>1, <2>2
<1>4. ASSUME NEW x \in Elems(lines) PROVE x <= last'
  <2>1. x <= last /\ x \in Int BY <1>1 DEF LinesHavePassed
  <2> QED BY <1>2, <2>1
<1> QED BY <1>1, <1>3, <1>4 DEF LinesHavePassed

\* An empty pane has nothing to repeat.
LEMMA PassedEmpty == ASSUME lines' = <<>> PROVE LinesHavePassed'
<1>1. Elems(lines') = {} /\ DOMAIN lines' = {} BY DEF Elems
<1> QED BY <1>1 DEF LinesHavePassed, Increasing

\* A suffix of an ordered sequence is ordered.
LEMMA NewestOrdered ==
  ASSUME NEW s \in Seq(Line), NEW n \in Nat \ {0}
  PROVE  /\ Elems(Newest(s, n)) \subseteq Elems(s)
         /\ Increasing(s) => Increasing(Newest(s, n))
         /\ (\A i, j \in DOMAIN s : i < j => Apart(s[i], s[j]))
              => \A i, j \in DOMAIN Newest(s, n) : i < j => Apart(Newest(s, n)[i], Newest(s, n)[j])
<1> DEFINE t == Newest(s, n)
<1>1. t \in Seq(Line) BY NewestFacts
<1>2. PICK d \in Nat : \A i \in DOMAIN t : i + d \in DOMAIN s /\ t[i] = s[i + d]
  BY NewestFacts
<1> HIDE DEF t
<1>3. \A i, j \in DOMAIN t : i < j => i + d < j + d
  <2>1. DOMAIN t \subseteq Int BY <1>1
  <2> QED BY <2>1
<1>4. Elems(t) \subseteq Elems(s) BY <1>2 DEF Elems
<1>5. Increasing(s) => Increasing(t) BY <1>2, <1>3 DEF Increasing
<1>6. (\A i, j \in DOMAIN s : i < j => Apart(s[i], s[j]))
        => \A i, j \in DOMAIN t : i < j => Apart(t[i], t[j])
  BY <1>2, <1>3
<1> QED BY <1>4, <1>5, <1>6 DEF t

\* A frame that reaches the pane keeps its lines past: a line that is shown comes
\* after those already there, and before what is still under way.
LEMMA FramePasses ==
  ASSUME StreamInv, FramesInOrder, LinesHavePassed, OnFrame, TypeOK'
  PROVE  LinesHavePassed'
<1> DEFINE n == Head(wire)
<1>t. TypeOK BY DEF StreamInv
<1>1. /\ wire # <<>> /\ wire' = Tail(wire) /\ queue' = queue /\ writing' = writing /\ call' = call
      /\ last' = last
      /\ IF n = 0 THEN OnCleared ELSE OnOutput(n)
  BY DEF OnFrame, engineVars
<1>2. /\ Elems(wire') \subseteq Elems(wire) /\ n \in Elems(wire)
      /\ Before({n}, Elems(wire'))
  BY <1>1, <1>t, TailSorted DEF FramesInOrder
<1> HIDE DEF n
<1>3. UnderWay' \subseteq UnderWay /\ n \in UnderWay BY <1>1, <1>2 DEF UnderWay
<1>4. Before({n}, UnderWay')
  BY <1>1, <1>2 DEF UnderWay, FramesInOrder, Before
<1>5. Awaiting' <=> Awaiting BY <1>1 DEF Awaiting
<1>6. CASE n = 0
  <2>1. lines' = <<>> BY <1>1, <1>6 DEF OnCleared
  <2> QED BY <2>1, PassedEmpty
<1>7. CASE n # 0 /\ n <= revision
  <2>1. lines' = lines /\ revision' = revision BY <1>1, <1>7 DEF OnOutput, paneVars
  <2>2. last' >= last BY <1>1, <1>t, Numbers
  <2> QED BY <1>3, <1>5, <1>t, <2>1, <2>2, PassedFrame
<1>8. CASE n # 0 /\ ~(n <= revision)
  <2> DEFINE s == Append(lines, n)
             k == Len(lines)
  <2>1. lines' = Newest(s, PaneCap) /\ revision' = n BY <1>1, <1>8 DEF OnOutput
  <2>2. n \in Int /\ revision \in Int /\ revision < n /\ n <= last /\ last \in Int
    <3>1. n \in Int /\ revision \in Int /\ last \in Int BY <1>2, <1>t, Numbers
    <3>2. n <= last BY <1>2 DEF StreamInv, NothingAhead, Elems
    <3> QED BY <1>8, <3>1, <3>2
  <2>3. n \in Line
    <3>1. wire \in Seq({0} \cup Line) BY <1>t, Numbers
    <3>2. \A i \in DOMAIN wire : wire[i] \in {0} \cup Line BY <3>1
    <3> QED BY <1>2, <1>8, <3>2 DEF Elems
  <2>4. /\ s \in Seq(Line) /\ k \in Nat /\ DOMAIN s = 1..(k + 1) /\ DOMAIN lines = 1..k
        /\ s[k + 1] = n /\ \A i \in 1..k : s[i] = lines[i] /\ lines[i] \in Line
    <3>1. lines \in Seq(Line) BY <1>t, Numbers
    <3> QED BY <2>3, <3>1
  <2> HIDE DEF s, k
  <2>5. \A i \in DOMAIN s : i = k + 1 \/ i \in 1..k BY <2>4
  <2>6. \A i \in 1..k : lines[i] \in Elems(lines) /\ lines[i] \in Int
    BY <1>t, <2>4, Numbers DEF Elems
  <2>7. ASSUME NEW i \in 1..k PROVE Apart(lines[i], n)
    <3>1. CASE lines[i] <= revision
      <4>1. lines[i] < n BY <2>2, <2>6, <3>1
      <4> QED BY <2>2, <2>6, <4>1, ApartFacts
    <3>2. CASE Before({lines[i]}, UnderWay)
      <4>1. lines[i] # 0 BY <2>4 DEF Line
      <4> QED BY <1>3, <1>8, <3>2, <4>1 DEF Before
    <3> QED BY <2>6, <3>1, <3>2 DEF LinesHavePassed
  <2>8. \A i, j \in DOMAIN s : i < j => i \in 1..k /\ (j = k + 1 \/ j \in 1..k)
    BY <2>4
  <2>9. \A i, j \in DOMAIN s : i < j => Apart(s[i], s[j])
    BY <2>4, <2>7, <2>8 DEF LinesHavePassed
  <2>10. ASSUME Awaiting PROVE Increasing(s)
    <3>1. \A i \in 1..k : lines[i] <= revision BY <2>6, <2>10 DEF LinesHavePassed
    <3>2. \A i \in 1..k : lines[i] < n BY <2>2, <2>6, <3>1
    <3>3. \A i, j \in 1..k : i < j => lines[i] < lines[j]
      BY <2>4, <2>10 DEF LinesHavePassed, Increasing
    <3> QED BY <2>4, <2>8, <3>2, <3>3 DEF Increasing
  <2>11. Elems(s) \subseteq Elems(lines) \cup {n} BY <2>4, <2>5, <2>6 DEF Elems
  <2>12. PaneCap \in Nat \ {0} BY StreamAssumption
  <2>13. /\ Elems(lines') \subseteq Elems(lines) \cup {n}
         /\ Awaiting => Increasing(lines')
         /\ \A i, j \in DOMAIN lines' : i < j => Apart(lines'[i], lines'[j])
    BY <2>1, <2>4, <2>9, <2>10, <2>11, <2>12, NewestOrdered
  <2>14. ASSUME NEW x \in Elems(lines')
         PROVE  /\ x <= last' /\ (x <= revision' \/ Before({x}, UnderWay'))
                /\ Awaiting => x <= revision' /\ Before({x}, UnderWay')
    <3>1. CASE x = n BY <1>1, <1>4, <2>1, <2>2, <3>1
    <3>2. CASE x \in Elems(lines)
      <4>1. x <= last' BY <1>1, <3>2 DEF LinesHavePassed
      <4>2. Before({x}, UnderWay) => Before({x}, UnderWay') BY <1>3 DEF Before
      <4>3. x <= revision => x <= n
        <5>1. x \in Int BY <1>t, <3>2, Numbers
        <5> QED BY <2>2, <5>1
      <4> QED BY <2>1, <3>2, <4>1, <4>2, <4>3 DEF LinesHavePassed
    <3> QED BY <2>13, <3>1, <3>2
  <2> QED BY <1>5, <2>13, <2>14 DEF LinesHavePassed
<1> QED BY <1>6, <1>7, <1>8

\* So does the replay answer: what it adds is newer than every line on the pane.
LEMMA AnswerPasses ==
  ASSUME StreamInv, LinesHavePassed, streams <= 1, NEW c \in Calls, ReplayApply(c), TypeOK'
  PROVE  LinesHavePassed' /\ ~Awaiting'
<1> DEFINE a == call[c].lines
           m == Newer(a, revision)
           s == lines \o m
           k == Len(lines)
<1>t. TypeOK /\ call \in [Calls -> CallRecord] BY DEF StreamInv, TypeOK, CallRecord
<1>1. /\ call[c].at = "answered" /\ call' = [call EXCEPT ![c] = NoCall]
      /\ wire' = wire /\ queue' = queue /\ writing' = writing /\ last' = last
      /\ IF a = <<>> THEN UNCHANGED paneVars
         ELSE lines' = Newest(s, PaneCap) /\ revision' = call[c].revision
  BY DEF ReplayApply, engineVars, streamVars, Merge
<1>2. UnderWay' = UnderWay BY <1>1 DEF UnderWay
<1>3. Awaiting BY <1>1 DEF Awaiting
<1>4. ~Awaiting'
  <2>1. \A b \in Calls : call[b].at # "none" => b <= 1
    <3>1. streams \in Int BY <1>t DEF TypeOK
    <3>2. \A b \in Calls : b \in Int BY DEF Calls
    <3> QED BY <3>1, <3>2 DEF StreamInv, AnswersInOrder
  <2>2. \A b \in Calls : b <= 1 => b = 1 BY DEF Calls
  <2>3. c = 1 BY <1>1, <2>1, <2>2
  <2>4. \A b \in Calls : call'[b] = IF b = c THEN NoCall ELSE call[b] BY <1>1, <1>t
  <2> QED BY <2>1, <2>2, <2>3, <2>4 DEF Awaiting, NoCall
<1>5. CASE a = <<>>
  <2>1. lines' = lines /\ revision' = revision BY <1>1, <1>5 DEF paneVars
  <2>2. last' >= last BY <1>1, <1>t, Numbers
  <2> QED BY <1>2, <1>4, <1>t, <2>1, <2>2, PassedFrame
<1>6. CASE a # <<>>
  <2>1. lines' = Newest(s, PaneCap) /\ revision' = call[c].revision BY <1>1, <1>6
  <2>2. /\ a \in Seq(Line) /\ Line \in SUBSET Int /\ revision \in Int /\ last \in Int
        /\ call[c].revision \in Int /\ call[c].revision <= last
    <3>1. a \in Seq(Line) /\ call[c].revision \in Int BY <1>t DEF CallRecord
    <3> QED BY <1>t, <3>1, Numbers DEF StreamInv, NothingAhead
  <2>3. /\ m \in Seq(Line) /\ Increasing(m)
        /\ \A i \in DOMAIN m : m[i] > revision /\ m[i] \in Elems(a)
    BY <2>2, NewerFacts DEF StreamInv, AnswersInOrder
  <2> HIDE DEF a, m
  <2>4. \A i \in DOMAIN m : m[i] \in Int /\ revision < m[i] /\ m[i] <= call[c].revision
    <3>1. \A x \in Elems(a) : x <= call[c].revision
      BY <1>1 DEF Elems, StreamInv, AnswersInOrder, a
    <3>2. \A i \in DOMAIN m : m[i] \in Int BY <2>2, <2>3
    <3> QED BY <2>2, <2>3, <3>1, <3>2
  <2>l. lines \in Seq(Line) BY <1>t, Numbers
  <2>5. /\ s \in Seq(Line) /\ k \in Nat /\ DOMAIN s = 1..(k + Len(m)) /\ DOMAIN lines = 1..k
        /\ DOMAIN m = 1..Len(m) /\ Len(m) \in Nat
        /\ \A i \in 1..k : s[i] = lines[i] /\ lines[i] \in Line
    BY <2>3, <2>l
  <2>6. \A i \in DOMAIN s : i > k => i - k \in DOMAIN m /\ s[i] = m[i - k]
    BY <2>3, <2>5, <2>l
  <2> HIDE DEF s, k
  <2>7. \A i \in 1..k : lines[i] \in Int /\ lines[i] <= revision /\ lines[i] \in Elems(lines)
    BY <1>3, <1>t, <2>5, Numbers DEF LinesHavePassed, Elems
  <2>8. ASSUME NEW i \in DOMAIN s, NEW j \in DOMAIN s, i < j PROVE s[i] < s[j]
    <3>1. i \in Int /\ j \in Int BY <2>5
    <3>2. CASE j <= k
      <4>1. i \in 1..k /\ j \in 1..k BY <2>5, <2>8, <3>2
      <4> QED BY <1>3, <2>5, <2>8, <4>1 DEF LinesHavePassed, Increasing
    <3>3. CASE i <= k /\ j > k
      <4>1. i \in 1..k BY <2>5, <3>3
      <4>2. s[i] \in Int /\ s[i] <= revision BY <2>5, <2>7, <4>1
      <4>3. s[j] \in Int /\ revision < s[j] BY <2>4, <2>6, <3>3
      <4> QED BY <2>2, <4>2, <4>3
    <3>4. CASE i > k /\ j > k
      <4>1. i - k < j - k BY <2>5, <2>8, <3>1
      <4> QED BY <2>3, <2>6, <3>4, <4>1 DEF Increasing
    <3> QED BY <2>5, <2>8, <3>1, <3>2, <3>3, <3>4
  <2>9. \A i \in DOMAIN s : s[i] \in Int
    <3>1. s \in Seq(Line) BY <2>5
    <3>2. \A i \in DOMAIN s : s[i] \in Line BY <3>1
    <3> QED BY <2>2, <3>2
  <2>10. \A i, j \in DOMAIN s : i < j => Apart(s[i], s[j]) BY <2>8, <2>9, ApartFacts
  <2>11. ASSUME NEW x \in Elems(s)
         PROVE  x <= last /\ (x <= call[c].revision \/ Before({x}, UnderWay))
    <3>1. PICK i \in DOMAIN s : x = s[i] BY DEF Elems
    <3>2. CASE i \in 1..k
      BY <1>3, <2>5, <2>7, <3>1, <3>2 DEF LinesHavePassed
    <3>3. CASE i > k
      <4>1. x \in Int /\ x <= call[c].revision BY <2>4, <2>6, <3>1, <3>3
      <4> QED BY <2>2, <4>1
    <3>4. i \in 1..k \/ i > k BY <2>5
    <3> QED BY <3>2, <3>3, <3>4
  <2>12. PaneCap \in Nat \ {0} BY StreamAssumption
  <2>13. /\ Elems(lines') \subseteq Elems(s)
         /\ \A i, j \in DOMAIN lines' : i < j => Apart(lines'[i], lines'[j])
    BY <2>1, <2>5, <2>10, <2>12, NewestOrdered
  <2> QED BY <1>1, <1>2, <1>4, <2>1, <2>11, <2>13 DEF LinesHavePassed
<1> QED BY <1>4, <1>5, <1>6

\* Every step keeps what is known of the first connection.
LEMMA FirstStep ==
  StreamInv /\ FramesInOrder /\ FirstConnection /\ [Next]_vars => FirstConnection'
<1> SUFFICES ASSUME StreamInv, FramesInOrder, FirstConnection, [Next]_vars,
                    streams' <= 1, restarts' = 0
             PROVE  /\ streams' = 0 => conn' = "down"
                    /\ streams' = 0 \/ conn' \in {"subscribed", "greeting"}
                         => lines' = <<>> /\ revision' = 0 /\ ~Awaiting'
                    /\ LinesHavePassed'
  BY DEF FirstConnection
<1>t. /\ TypeOK /\ TypeOK' /\ last \in Int /\ last' \in Int
      /\ streams \in Nat /\ restarts \in Nat /\ Calls \subseteq Nat
  <2>1. TypeOK /\ TypeOK' BY StreamTypeStep DEF StreamInv
  <2>2. last \in Int /\ streams \in Nat /\ restarts \in Nat BY <2>1 DEF TypeOK
  <2>3. last' \in Int BY <2>1 DEF TypeOK
  <2>4. Calls \subseteq Nat BY DEF Calls
  <2> QED BY <2>1, <2>2, <2>3, <2>4
\* What the invariant says before the step, when it has not left the connection.
<1>f. ASSUME streams' = streams, restarts' = restarts
      PROVE  /\ streams = 0 => conn = "down"
             /\ streams = 0 \/ conn \in {"subscribed", "greeting"}
                  => lines = <<>> /\ revision = 0 /\ ~Awaiting
             /\ LinesHavePassed
  BY <1>f DEF FirstConnection
\* A step that leaves connection and pane alone.
<1>g. ASSUME streams' = streams, restarts' = restarts,
             conn' = conn \/ (conn' = "down" /\ streams # 0) \/ (conn' = "greeting" /\ conn = "subscribed"),
             lines' = lines, revision' = revision, Awaiting' => Awaiting, last' >= last,
             \A n \in UnderWay' : n \in UnderWay \/ n = 0 \/ n > last
      PROVE  /\ streams' = 0 => conn' = "down"
             /\ streams' = 0 \/ conn' \in {"subscribed", "greeting"}
                  => lines' = <<>> /\ revision' = 0 /\ ~Awaiting'
             /\ LinesHavePassed'
  <2>1. LinesHavePassed' BY <1>f, <1>g, <1>t, PassedFrame
  <2> QED BY <1>f, <1>g, <2>1
<1>h. call' = call => (Awaiting' <=> Awaiting) BY DEF Awaiting
<1>1. CASE WriteLine
  <2>1. /\ last' = last + 1 /\ writing' = writing \cup {last + 1} /\ wire' = wire /\ queue' = queue
        /\ call' = call /\ UNCHANGED <<streams, restarts, conn, lines, revision>>
    BY <1>1 DEF WriteLine, streamVars, paneVars
  <2>2. \A n \in UnderWay' : n \in UnderWay \/ n = last + 1 BY <2>1 DEF UnderWay
  <2>3. last + 1 > last /\ last + 1 >= last BY <1>t
  <2> QED BY <1>g, <1>h, <2>1, <2>2, <2>3
<1>2. ASSUME NEW f, (f \in 1..MaxLines /\ PublishLine(f)) \/ (f = 0 /\ PublishClear)
      PROVE  /\ streams' = 0 => conn' = "down"
             /\ streams' = 0 \/ conn' \in {"subscribed", "greeting"}
                  => lines' = <<>> /\ revision' = 0 /\ ~Awaiting'
             /\ LinesHavePassed'
  <2>1. /\ last' = last /\ writing' \subseteq writing /\ wire' = wire /\ Publish(f)
        /\ call' = call /\ UNCHANGED <<streams, restarts, conn, lines, revision>>
        /\ f \in writing \/ f = 0
    BY <1>2 DEF PublishLine, PublishClear, paneVars
  <2>2. f \in {0} \cup Line BY <1>2 DEF Line
  <2>3. Before(Elems(queue), {f}) BY <2>1 DEF FramesInOrder, Before
  <2>4. Elems(queue') \subseteq Elems(queue) \cup {f}
    BY <1>t, <2>1, <2>2, <2>3, PushSorted DEF FramesInOrder, Publish
  <2>5. \A n \in UnderWay' : n \in UnderWay \/ n = 0 BY <2>1, <2>4 DEF UnderWay
  <2>6. last' >= last BY <1>t, <2>1
  <2> QED BY <1>g, <1>h, <2>1, <2>5, <2>6
<1>3. CASE ClearRing \/ ReadRevision \/ WriteBatch \/ Break \/ UNCHANGED vars
  <2>1. /\ last' = last /\ writing' = writing
        /\ call' = call /\ UNCHANGED <<streams, restarts, lines, revision>>
    BY <1>3 DEF ClearRing, ReadRevision, WriteBatch, Break, vars, engineVars, streamVars, paneVars
  <2>2. Elems(wire') \cup Elems(queue') \subseteq Elems(wire) \cup Elems(queue)
    <3>1. CASE WriteBatch
      <4>1. wire' = wire \o queue /\ queue' = <<>> BY <3>1 DEF WriteBatch
      <4>2. Elems(wire') = Elems(wire) \cup Elems(queue)
        BY <1>t, <4>1, BatchSorted DEF FramesInOrder
      <4>3. Elems(queue') = {} BY <4>1 DEF Elems
      <4> QED BY <4>2, <4>3
    <3>2. CASE Break
      <4>1. wire' = <<>> /\ queue' = <<>> BY <3>2 DEF Break
      <4> QED BY <4>1 DEF Elems
    <3>3. CASE ClearRing \/ ReadRevision \/ UNCHANGED vars
      <4>1. wire' = wire /\ queue' = queue
        BY <3>3 DEF ClearRing, ReadRevision, vars, streamVars
      <4> QED BY <4>1
    <3> QED BY <1>3, <3>1, <3>2, <3>3
  <2>3. \A n \in UnderWay' : n \in UnderWay BY <2>1, <2>2 DEF UnderWay
  <2>4. \/ conn' = conn \/ (conn' = "down" /\ streams # 0)
        \/ (conn' = "greeting" /\ conn = "subscribed")
    <3>1. CASE Break
      <4>1. conn # "down" /\ conn' = "down" BY <3>1 DEF Break
      <4> QED BY <1>f, <2>1, <4>1
    <3>2. CASE ClearRing \/ ReadRevision \/ WriteBatch \/ UNCHANGED vars
      BY <3>2 DEF ClearRing, ReadRevision, WriteBatch, vars, streamVars
    <3> QED BY <1>3, <3>1, <3>2
  <2>5. last' >= last BY <1>t, <2>1
  <2> QED BY <1>g, <1>h, <2>1, <2>3, <2>4, <2>5
<1>4. CASE ClearReply
  <2>1. /\ lines' = <<>> /\ revision' = 0 /\ call' = call
        /\ UNCHANGED <<streams, restarts, conn>>
    BY <1>4 DEF ClearReply, OnCleared, streamVars
  <2> QED BY <1>f, <1>h, <2>1, PassedEmpty
<1>5. CASE Subscribe
  <2>1. /\ streams' = streams + 1 /\ conn' = "subscribed"
        /\ UNCHANGED <<restarts, call, lines, revision>>
    BY <1>5 DEF Subscribe, engineVars, paneVars
  <2>2. streams = 0 /\ streams' # 0 BY <1>t, <2>1
  <2>3. lines = <<>> /\ revision = 0 /\ ~Awaiting BY <2>1, <2>2 DEF FirstConnection
  <2> QED BY <1>h, <2>1, <2>2, <2>3, PassedEmpty
<1>6. CASE Restart
  <2>1. restarts' = restarts + 1 BY <1>6 DEF Restart
  <2> QED BY <1>t, <2>1
<1>7. CASE OnHello
  <2>1. /\ conn = "greeting" /\ conn' = "up" /\ lines' = (IF Restarted THEN <<>> ELSE lines)
        /\ UNCHANGED <<streams, restarts>>
    BY <1>7 DEF OnHello, engineVars
  <2>2. lines = <<>> /\ streams # 0 BY <1>f, <2>1
  <2>3. lines' = <<>> BY <2>1, <2>2
  <2> QED BY <2>1, <2>2, <2>3, PassedEmpty
<1>8. CASE OnFrame
  <2>1. conn = "up" /\ UNCHANGED <<streams, restarts, conn>> BY <1>8 DEF OnFrame, engineVars
  <2>2. LinesHavePassed' BY <1>8, <1>f, <1>t, <2>1, FramePasses
  <2> QED BY <1>f, <2>1, <2>2
<1>9. ASSUME NEW c \in Calls, ReplayLines(c) \/ ReplayRevision(c) \/ ReplayFail(c)
      PROVE  /\ streams' = 0 => conn' = "down"
             /\ streams' = 0 \/ conn' \in {"subscribed", "greeting"}
                  => lines' = <<>> /\ revision' = 0 /\ ~Awaiting'
             /\ LinesHavePassed'
  <2>1. /\ call[c].at # "none"
        /\ UNCHANGED <<last, writing, wire, queue, streams, restarts, conn, lines, revision>>
    BY <1>9 DEF ReplayLines, ReplayRevision, ReplayFail, engineVars, streamVars, paneVars
  <2>2. Awaiting BY <2>1 DEF Awaiting
  <2>3. \A n \in UnderWay' : n \in UnderWay BY <2>1 DEF UnderWay
  <2>4. last' >= last BY <1>t, <2>1
  <2> QED BY <1>g, <2>1, <2>2, <2>3, <2>4
<1>10. ASSUME NEW c \in Calls, ReplayApply(c)
       PROVE  /\ streams' = 0 => conn' = "down"
              /\ streams' = 0 \/ conn' \in {"subscribed", "greeting"}
                   => lines' = <<>> /\ revision' = 0 /\ ~Awaiting'
              /\ LinesHavePassed'
  <2>1. call[c].at # "none" /\ UNCHANGED <<streams, restarts, conn>>
    BY <1>10 DEF ReplayApply, engineVars, streamVars
  <2>2. Awaiting BY <2>1 DEF Awaiting
  <2>3. LinesHavePassed' BY <1>10, <1>f, <1>t, <2>1, AnswerPasses
  <2> QED BY <1>f, <2>1, <2>2, <2>3
<1> QED BY <1>1, <1>2, <1>3, <1>4, <1>5, <1>6, <1>7, <1>8, <1>9, <1>10 DEF Next

\* On its first connection the pane shows no line twice, and shows lines in the
\* order they were written if they are written one at a time or the replay is still
\* awaited: for any number of writers and lines, and for queues and panes that
\* overflow.  (output.ts:28-35, 58-62)
THEOREM PaneOrdered == Spec => []PaneInOrder
<1> DEFINE Inv == StreamInv /\ FramesInOrder /\ FirstConnection
<1>1. Init => Inv BY StreamInitInv
<1>2. Inv /\ [Next]_vars => Inv'
  BY StreamStep, FramesStep, FirstStep DEF StreamInv
<1>3. Inv => PaneInOrder
  <2> SUFFICES ASSUME Inv, streams <= 1, restarts = 0
               PROVE  /\ Distinct(lines)
                      /\ Writers = 1 \/ Awaiting => Increasing(lines)
    BY DEF PaneInOrder, Awaiting
  <2>1. LinesHavePassed BY DEF FirstConnection
  <2>2. /\ DOMAIN lines \subseteq Int /\ \A i \in DOMAIN lines : lines[i] \in Int
    <3>1. lines \in Seq(Line) /\ Elems(lines) \subseteq Int BY Numbers DEF StreamInv
    <3> QED BY <3>1 DEF Elems
  <2>3. \A i, j \in DOMAIN lines : i < j =>
          lines[i] # lines[j] /\ (Writers = 1 => lines[i] < lines[j])
    BY <2>1, <2>2, ApartFacts DEF LinesHavePassed
  <2>4. Distinct(lines)
    <3>1. \A i, j \in DOMAIN lines : i < j \/ j < i \/ i = j BY <2>2
    <3> QED BY <2>3, <3>1 DEF Distinct
  <2>5. Writers = 1 \/ Awaiting => Increasing(lines)
    BY <2>1, <2>3 DEF Increasing, LinesHavePassed
  <2> QED BY <2>4, <2>5
<1> QED BY <1>1, <1>2, <1>3, PTL DEF Spec
=============================================================================
