--------------------------- MODULE DiffJobsProofs ---------------------------
(***************************************************************************)
(* Proofs about the asynchronous diff, for every set of jobs and every     *)
(* bound on its records, and what it inherits from the coordinator.        *)
(***************************************************************************)
EXTENDS DiffJobs, JobsProofs, InductionLemmas

DiffType ==
  /\ started \in [Job -> {"no", "id", "replied"}]
  /\ body \in [Job -> {"wait", "noid", "diff", "over"}]
  /\ rec \in [Job -> {"none", "queued", "done", "error"}]

\* Every step of the composition is a step of the coordinator or leaves it alone.
LEMMA CoordinatorSimulation == [DiffNext]_allVars => [Next]_vars
<1> SUFFICES ASSUME [DiffNext]_allVars PROVE [Next]_vars
  OBVIOUS
<1>1. CASE JobsOnly
  BY <1>1 DEF JobsOnly, Next, ThreadStep, SubmitStep
<1>2. ASSUME NEW j \in Job,
             StoreId(j) \/ InsertRecord(j) \/ GotId(j) \/ GiveUp(j) \/ NoId(j)
             \/ DiffDone(j) \/ DiffError(j) \/ DiffCancel(j)
      PROVE  [Next]_vars
  <2>1. CASE StoreId(j) \/ InsertRecord(j) \/ GotId(j) \/ GiveUp(j) \/ DiffDone(j)
    BY <2>1 DEF StoreId, InsertRecord, GotId, GiveUp, DiffDone
  <2>2. CASE NoId(j) \/ DiffError(j) \/ DiffCancel(j)
    BY <2>2 DEF NoId, DiffError, DiffCancel, Next, ThreadStep
  <2> QED BY <1>2, <2>1, <2>2
<1>3. CASE UNCHANGED allVars BY <1>3 DEF allVars
<1> QED BY <1>1, <1>2, <1>3 DEF DiffNext

\* The diff tool drives the coordinator only through its operations: what is proved
\* of the coordinator holds under any mix of diffs.
THEOREM DiffUsesCoordinator == DiffSpec => Spec
<1>1. DiffInit => Init BY DEF DiffInit
<1> QED BY <1>1, CoordinatorSimulation, PTL DEF DiffSpec, Spec

\* A diff job keeps the promises of the board.  (mcp_tools.cpp:4655-4760)
THEOREM DiffImplementsBoard == DiffSpec => ImplementsBoard
BY DiffUsesCoordinator, JobsImplementBoard, PTL

-----------------------------------------------------------------------------
\* Of a set of natural numbers that is over the bound by at most one, eviction
\* leaves no more than the bound: its least element goes.
LEMMA EvictionSuffices ==
  ASSUME NEW S, S \subseteq Nat, IsFiniteSet(S), Cardinality(S) <= MaxRecords + 1
  PROVE  IsFiniteSet(S \ Evicted(S)) /\ Cardinality(S \ Evicted(S)) <= MaxRecords
<1> DEFINE E == Evicted(S)
<1>0. Cardinality(S) \in Nat /\ MaxRecords \in Nat /\ MaxRecords # 0
  BY FS_CardinalityType, DiffAssumption
<1>1. E \subseteq S
  BY DEF Evicted, Smallest
<1>2. IsFiniteSet(S \ E) /\ Cardinality(S \ E) <= Cardinality(S) /\ Cardinality(S \ E) \in Nat
  <2> HIDE DEF E
  <2>1. S \ E \in SUBSET S OBVIOUS
  <2> QED BY <2>1, FS_Subset, FS_CardinalityType
<1>3. CASE Cardinality(S) <= MaxRecords
  BY <1>0, <1>2, <1>3
<1>4. CASE Cardinality(S) = MaxRecords + 1
  <2>1. S # {} BY <1>0, <1>4, FS_EmptySet
  <2>2. PICK m \in S : \A k \in S : m <= k BY <2>1, LeastNatural
  <2>3. {h \in S : h <= m} = {m}
    <3>1. ASSUME NEW h \in S, h <= m PROVE h = m BY <2>2, <3>1
    <3>2. m <= m OBVIOUS
    <3> QED BY <3>1, <3>2
  <2>4. Cardinality({h \in S : h <= m}) = 1 BY <2>3, FS_Singleton
  <2>5. m \in E BY <1>0, <1>4, <2>4 DEF Evicted, Smallest
  <2>6. Cardinality(S \ {m}) = MaxRecords /\ IsFiniteSet(S \ {m})
    BY <1>0, <1>4, FS_RemoveElement
  <2> HIDE DEF E
  <2>7. S \ E \in SUBSET (S \ {m}) BY <2>5
  <2>8. Cardinality(S \ E) <= Cardinality(S \ {m}) BY <2>6, <2>7, FS_Subset
  <2> QED BY <1>2, <2>6, <2>8 DEF E
<1> QED BY <1>0, <1>3, <1>4

DiffInv == DiffType /\ RecordsWithinBound

\* The empty table is within the bound.
LEMMA DiffInitInv == DiffInit => DiffInv
<1> SUFFICES ASSUME DiffInit PROVE DiffInv
  OBVIOUS
<1>1. Records = {} BY DEF DiffInit, Records
<1> QED BY <1>1, FS_EmptySet, DiffAssumption DEF DiffInit, DiffInv, DiffType, RecordsWithinBound

\* The bound survives a step that adds no record, or one that makes room.
LEMMA RecordCount ==
  ASSUME DiffInv
  PROVE  /\ IsFiniteSet(Records) /\ Cardinality(Records) \in Nat
         /\ Records' \subseteq Records => Cardinality(Records') <= MaxRecords
<1>1. Records \in SUBSET Job BY DEF Records
<1>2. IsFiniteSet(Records) BY <1>1, JobsAssumption, FS_Subset
<1>3. ASSUME Records' \subseteq Records PROVE Cardinality(Records') <= MaxRecords
  <2>1. Cardinality(Records') <= Cardinality(Records) /\ IsFiniteSet(Records')
    BY <1>2, <1>3, FS_Subset
  <2>2. Cardinality(Records') \in Nat /\ Cardinality(Records) \in Nat
    BY <1>2, <2>1, FS_CardinalityType
  <2> QED BY <2>1, <2>2, DiffAssumption DEF DiffInv, RecordsWithinBound
<1> QED BY <1>2, <1>3, FS_CardinalityType

\* Every step keeps the records within their bound, and an answer in a record
\* belongs to a body that is over.
LEMMA DiffStep == DiffInv /\ [DiffNext]_allVars => DiffInv'
<1> SUFFICES ASSUME DiffInv, [DiffNext]_allVars PROVE DiffInv'
  OBVIOUS
<1>1. CASE UNCHANGED diffVars
  BY <1>1 DEF diffVars, DiffInv, DiffType, RecordsWithinBound, Records
\* A step that changes at most a body and the answer in its record.
<1>2. ASSUME NEW j \in Job, NEW what \in {"done", "error"},
             Store(j, what) \/ rec' = rec,
             body' = [body EXCEPT ![j] = "over"], started' = started
      PROVE  DiffInv'
  <2>1. DiffType' BY <1>2 DEF DiffInv, DiffType, Store
  <2>2. Records' = Records BY <1>2 DEF Records, Store, DiffInv, DiffType
  <2>3. Cardinality(Records') <= MaxRecords BY <2>2, RecordCount
  <2>4. \A k \in Records' : rec'[k] # "queued" => body'[k] = "over"
    BY <1>2, <2>2 DEF DiffInv, DiffType, RecordsWithinBound, Store, Records
  <2> QED BY <2>1, <2>3, <2>4 DEF DiffInv, RecordsWithinBound
<1>3. ASSUME NEW j \in Job, StoreId(j) \/ GotId(j) \/ GiveUp(j) PROVE DiffInv'
  <2>1. /\ rec' = rec /\ DiffType'
        /\ \A k \in Job : body[k] = "over" => body'[k] = "over"
    BY <1>3 DEF StoreId, GotId, GiveUp, DiffInv, DiffType
  <2>2. Records' = Records /\ Records \subseteq Job BY <2>1 DEF Records
  <2>3. Cardinality(Records') <= MaxRecords BY <2>2, RecordCount
  <2> QED BY <2>1, <2>2, <2>3 DEF DiffInv, RecordsWithinBound
<1>4. ASSUME NEW j \in Job, InsertRecord(j) PROVE DiffInv'
  <2> DEFINE S == Records \cup {j}
  <2>1. /\ started' = [started EXCEPT ![j] = "replied"] /\ body' = body
        /\ rec' = [k \in Job |-> IF k \in Evicted(S) THEN "none"
                                 ELSE IF k = j THEN "queued" ELSE rec[k]]
    BY <1>4 DEF InsertRecord
  <2>2. Records' = S \ Evicted(S)
    BY <2>1 DEF Records
  <2>3. S \subseteq Nat /\ IsFiniteSet(S) /\ Cardinality(S) <= MaxRecords + 1
    <3>1. S \subseteq Nat BY DiffAssumption DEF Records
    <3>2. IsFiniteSet(S) /\ Cardinality(S) \in {Cardinality(Records), Cardinality(Records) + 1}
      BY RecordCount, FS_AddElement
    <3> QED BY <3>1, <3>2, RecordCount, DiffAssumption DEF DiffInv, RecordsWithinBound
  <2> HIDE DEF S
  <2>4. Cardinality(Records') <= MaxRecords BY <2>2, <2>3, EvictionSuffices
  <2>5. DiffType' BY <2>1 DEF DiffInv, DiffType
  <2>6. \A k \in Records' : rec'[k] # "queued" => body'[k] = "over"
    BY <2>1 DEF Records, DiffInv, RecordsWithinBound
  <2> QED BY <2>4, <2>5, <2>6 DEF DiffInv, RecordsWithinBound
<1>5. ASSUME NEW j \in Job, NoId(j) PROVE DiffInv'
  BY <1>2, <1>5 DEF NoId
<1>6. ASSUME NEW j \in Job, DiffDone(j) \/ DiffError(j) PROVE DiffInv'
  BY <1>2, <1>6 DEF DiffDone, DiffError
<1>7. ASSUME NEW j \in Job, DiffCancel(j) PROVE DiffInv'
  BY <1>1, <1>7 DEF DiffCancel
<1> QED BY <1>1, <1>3, <1>4, <1>5, <1>6, <1>7 DEF DiffNext, allVars

\* The table of diff records never holds more than kMaxDiffJobs of them, however
\* many diffs are started, and a record with a result or an error belongs to a body
\* that is through with its diff.  (mcp_tools.cpp:4671-4688, 4699)
THEOREM DiffRecordsBounded == DiffSpec => []RecordsWithinBound
<1>1. DiffInv => RecordsWithinBound BY DEF DiffInv
<1> QED BY <1>1, DiffInitInv, DiffStep, PTL DEF DiffSpec
=============================================================================
