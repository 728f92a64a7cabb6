------------------------------ MODULE Scanner ------------------------------
(***************************************************************************)
(* The memory scan engine (memory/memscan.cpp, memory/read_util.cpp) and   *)
(* the scan, rescan and scan_reset actions of the memory tool.  Workers    *)
(* walk a list of areas, the regions of a first scan or the runs an        *)
(* unknown scan stashed, chunk by chunk; what cannot be read whole is      *)
(* split down to a leaf.  A rescan of an address list shares the rows out  *)
(* by an atomic counter.  The target runs meanwhile.                       *)
(***************************************************************************)
EXTENDS Integers, Sequences, FiniteSets, SequencesExt

CONSTANTS Regions,       \* the target's regions in order: [base, size]
          Images,        \* memory contents to start from
          Begins,        \* lower ends of the range a client may ask for
          Page,          \* bytes of a page, and the leaf of a split read
          Slot,          \* bytes of a value
          Chunk,         \* limits::scan_chunk_bytes
          Workers,       \* 1 .. the number of scan threads
          MaxResults,    \* limits::max_scan_hits
          MaxStash,      \* limits::max_stash_bytes
          Batch,         \* rows a worker takes at a time
          MaxScans,      \* bound on the client
          MaxMishaps     \* bound on writes and frees of the target, and cancellations

Ends == {Regions[k].base + Regions[k].size : k \in DOMAIN Regions}
Space == 0 .. (CHOOSE e \in Ends : \A f \in Ends : f <= e) - 1

ASSUME ScannerConstants ==
    /\ {Page, Slot, Chunk, MaxResults, Batch} \subseteq Nat \ {0} /\ MaxStash \in Nat
    /\ IsFiniteSet(Workers) /\ Workers # {} /\ Workers = 1 .. Cardinality(Workers)
    /\ Chunk % Page = 0
    /\ Regions \in Seq([base : Nat, size : Nat \ {0}]) /\ Begins \subseteq Nat
    /\ \A k \in DOMAIN Regions : Regions[k].base % Page = 0
    /\ Images \subseteq [Space -> {0, 1}]

VARIABLES
    bytes, readable,     \* the target: bytes, and the pages that can be read
    scan,                \* "no", or the walk in progress: "values", "stash", "compare", "rows"
    areas, rows,         \* what the workers share out
    check,               \* scan_type_t: "exact" or "changed"
    job,                 \* per worker: area, cursor, segments to read, findings
    next_row, aborted, stash_used,
    tok,                 \* the caller's cancel token
    results, stash, truncated, cut_short, scan_used,
    touched,             \* history: bytes the target changed since the scan began
    scans, mishaps

scanVars == <<bytes, readable, scan, areas, rows, check, job, next_row, aborted, stash_used,
              tok, results, stash, truncated, cut_short, scan_used, touched, scans, mishaps>>

PageOf(b) == b \div Page
Bytes(base, len) == base .. base + len - 1
ReadOK(base, len) == \A b \in Bytes(base, len) : b \in Space /\ PageOf(b) \in readable
Load(mem, a) == [i \in 1 .. Slot |-> mem[a + i - 1]]

\* check_value, for the two comparisons that tell a first scan from a later one.
Wanted == [i \in 1 .. Slot |-> 1]
check_value(curr, prev) == IF check = "exact" THEN curr = Wanted ELSE curr # prev

\* filter_regions: clip to the caller's range, drop what is left empty.
filter_regions(begin) ==
    LET end(r) == r.base + r.size
        from(r) == IF r.base < begin THEN begin ELSE r.base
        clip(r) == [base |-> from(r), size |-> end(r) - from(r), chunk |-> Chunk, old |-> <<>>]
        out[k \in 0 .. Len(Regions)] ==
            IF k = 0 THEN <<>>
            ELSE IF end(Regions[k]) > begin THEN Append(out[k - 1], clip(Regions[k]))
            ELSE out[k - 1]
    IN out[Len(Regions)]

\* std::sort by address, of rows and of stashed runs.
InOrder(S) ==
    CHOOSE q \in [1 .. Cardinality(S) -> S] :
        /\ \A x \in S : \E k \in DOMAIN q : q[k] = x
        /\ \A k, m \in DOMAIN q : k < m => q[k].addr <= q[m].addr

Fresh(i) == [area |-> i, off |-> 0, segs |-> <<>>, rows |-> <<>>, copies |-> {}, truncated |-> FALSE,
             todo |-> {}, done |-> FALSE]

ScanInit ==
    /\ bytes \in Images /\ readable \in SUBSET {PageOf(b) : b \in Space}
    /\ scan = "no" /\ areas = <<>> /\ rows = <<>> /\ check = "exact"
    /\ job = [w \in Workers |-> Fresh(w)] /\ next_row = 1 /\ aborted = FALSE /\ stash_used = 0
    /\ tok = FALSE /\ results = {} /\ stash = {} /\ truncated = FALSE /\ cut_short = FALSE
    /\ scan_used = FALSE /\ touched = {} /\ scans = 0 /\ mishaps = 0

-----------------------------------------------------------------------------
(* The target (external).                                                  *)

TargetWrites(b) ==
    /\ mishaps < MaxMishaps /\ mishaps' = mishaps + 1
    /\ bytes' = [bytes EXCEPT ![b] = 1 - @] /\ touched' = touched \cup {b}
    /\ UNCHANGED <<readable, scan, areas, rows, check, job, next_row, aborted, stash_used, tok,
                   results, stash, truncated, cut_short, scan_used, scans>>
TargetFrees(g) ==
    /\ mishaps < MaxMishaps /\ mishaps' = mishaps + 1 /\ g \in readable
    /\ readable' = readable \ {g} /\ touched' = touched \cup {b \in Space : PageOf(b) = g}
    /\ UNCHANGED <<bytes, scan, areas, rows, check, job, next_row, aborted, stash_used, tok,
                   results, stash, truncated, cut_short, scan_used, scans>>

-----------------------------------------------------------------------------
(* Starting a scan.                                                        *)

Start(kind, list, old, type) ==
    /\ scan = "no" /\ scans < MaxScans /\ scans' = scans + 1
    /\ scan' = kind /\ areas' = list /\ rows' = old /\ check' = type
    /\ job' = [w \in Workers |-> Fresh(w)] /\ next_row' = 1 /\ aborted' = FALSE /\ stash_used' = 0
    /\ tok' = FALSE /\ touched' = {}
    /\ UNCHANGED <<bytes, readable, mishaps>>

\* first_scan resets the engine; a relational type becomes an unknown scan,
\* which keeps the bytes and no rows.  With no region left it returns at once.
first_scan(begin, type) ==
    /\ filter_regions(begin) # <<>>
    /\ Start(IF type = "exact" THEN "values" ELSE "stash", filter_regions(begin), <<>>, type)
    /\ results' = {} /\ stash' = {} /\ truncated' = FALSE /\ cut_short' = FALSE
    /\ scan_used' = TRUE

\* A stashed run, read again whole.
OldArea(run) == [base |-> run.addr, size |-> Len(run.old), chunk |-> Len(run.old), old |-> run.old]

\* next_scan re-reads the stash while there is one, and then the rows.
next_scan(type) ==
    /\ scan_used /\ (stash # {} \/ results # {})
    /\ IF stash # {}
       THEN Start("compare", [k \in 1 .. Cardinality(stash) |-> OldArea(InOrder(stash)[k])],
                  <<>>, type)
       ELSE Start("rows", <<>>, InOrder(results), type)
    /\ UNCHANGED <<results, stash, truncated, cut_short, scan_used>>

\* scan_reset, and every attach and detach of the target.
scan_reset ==
    /\ scan = "no" /\ scan_used
    /\ results' = {} /\ stash' = {} /\ truncated' = FALSE /\ cut_short' = FALSE /\ scan_used' = FALSE
    /\ UNCHANGED <<bytes, readable, scan, areas, rows, check, job, next_row, aborted, stash_used,
                   tok, touched, scans, mishaps>>

\* The client gives the request up; everybody looks at the token now and then.
cancel ==
    /\ scan # "no" /\ ~tok /\ tok' = TRUE
    /\ mishaps < MaxMishaps /\ mishaps' = mishaps + 1
    /\ UNCHANGED <<bytes, readable, scan, areas, rows, check, job, next_row, aborted, stash_used,
                   results, stash, truncated, cut_short, scan_used, touched, scans>>

-----------------------------------------------------------------------------
(* The workers.                                                            *)

Walking(w) == scan \in {"values", "stash", "compare"} /\ ~job[w].done
Area(w) == areas[job[w].area]
SetJob(w, j) == job' = [job EXCEPT ![w] = j]
Shared == <<bytes, readable, scan, areas, rows, check, tok, results, stash, truncated, cut_short,
            scan_used, touched, scans, mishaps>>

\* Between two areas: the next one is a stride away, unless somebody aborted.
TakeArea(w) ==
    /\ Walking(w) /\ job[w].segs = <<>> /\ job[w].off = 0
    /\ SetJob(w, IF aborted \/ tok \/ job[w].area > Len(areas)
                 THEN [job[w] EXCEPT !.done = TRUE]
                 ELSE [job[w] EXCEPT !.off = 1])
    /\ UNCHANGED <<Shared, next_row, aborted, stash_used>>

\* The chunk at the cursor becomes the first segment.  off counts from 1.
TakeChunk(w) ==
    /\ Walking(w) /\ job[w].segs = <<>> /\ job[w].off > 0
    /\ IF job[w].off > Area(w).size \/ job[w].truncated \/ tok
       THEN /\ aborted' = (aborted \/ job[w].truncated)
            /\ SetJob(w, [job[w] EXCEPT !.area = @ + Cardinality(Workers), !.off = 0,
                                        !.done = job[w].truncated])
       ELSE LET want == IF Area(w).chunk < Area(w).size - job[w].off + 1
                        THEN Area(w).chunk ELSE Area(w).size - job[w].off + 1
            IN /\ SetJob(w, [job[w] EXCEPT !.off = @ + want,
                     !.segs = << [addr |-> Area(w).base + job[w].off - 1, len |-> want] >>])
               /\ UNCHANGED aborted
    /\ UNCHANGED <<Shared, next_row, stash_used>>

\* scan_run: every slot of the run in order, until the worker's cap is reached.
Hits(w, base, len) ==
    {a \in base .. base + len - Slot :
        check_value(Load(bytes, a), IF scan # "compare" THEN <<>>
                                    ELSE [i \in 1 .. Slot |-> Area(w).old[a - Area(w).base + i]])}
StaleRow(row) == row
FreshRow(row) == [addr |-> row.addr, bits |-> Load(bytes, row.addr)]
scan_run(w, base, len) ==
    LET room == MaxResults - Len(job[w].rows)
        found == InOrder({[addr |-> a, bits |-> Load(bytes, a)] : a \in Hits(w, base, len)})
        full == Len(found) >= room
    IN [job[w] EXCEPT !.rows = @ \o SubSeq(found, 1, IF full THEN room ELSE Len(found)),
                      !.truncated = @ \/ full]

\* resilient_read: one segment off the stack, read whole or halved at a
\* multiple of the leaf, the upper half on top.
Cut(s) == LET cut == ((s.len \div 2) \div Page) * Page IN IF cut > Page THEN cut ELSE Page
LowerHalf(s) == << [addr |-> s.addr, len |-> Cut(s)] >>
Halves(s) == << [addr |-> s.addr, len |-> Cut(s)],
                [addr |-> s.addr + Cut(s), len |-> s.len - Cut(s)] >>
ReadSegment(w) ==
    /\ Walking(w) /\ job[w].segs # <<>>
    /\ LET s == Last(job[w].segs)
           rest == Front(job[w].segs)
       IN IF tok THEN SetJob(w, [job[w] EXCEPT !.segs = <<>>]) /\ UNCHANGED stash_used
          ELSE IF ReadOK(s.addr, s.len)
          THEN IF scan = "stash"
               THEN /\ stash_used' = stash_used + s.len
                    /\ SetJob(w, [job[w] EXCEPT !.segs = rest,
                         !.truncated = @ \/ stash_used + s.len > MaxStash,
                         !.copies = IF stash_used + s.len > MaxStash THEN @
                                    ELSE @ \cup {[addr |-> s.addr,
                                           old |-> [i \in 1 .. s.len |-> bytes[s.addr + i - 1]]]}])
               ELSE /\ SetJob(w, [scan_run(w, s.addr, s.len) EXCEPT !.segs = rest])
                    /\ UNCHANGED stash_used
          ELSE /\ SetJob(w, [job[w] EXCEPT !.segs =
                     IF s.len <= Page THEN rest
                     ELSE rest \o Halves(s)])
               /\ UNCHANGED stash_used
    /\ UNCHANGED <<Shared, next_row, aborted>>

\* A batch of rows, taken by fetch_add, then row by row.
TakeRows(w) ==
    /\ scan = "rows" /\ ~job[w].done /\ job[w].todo = {}
    /\ next_row' = IF tok THEN next_row ELSE next_row + Batch
    /\ SetJob(w, IF tok \/ next_row > Len(rows) THEN [job[w] EXCEPT !.done = TRUE]
                 ELSE [job[w] EXCEPT !.todo = {k \in DOMAIN rows : k \in next_row .. next_row + Batch - 1}])
    /\ UNCHANGED <<Shared, aborted, stash_used>>
CheckRow(w) ==
    /\ scan = "rows" /\ ~job[w].done /\ job[w].todo # {}
    /\ LET k == CHOOSE k \in job[w].todo : \A m \in job[w].todo : k <= m
           a == rows[k].addr
           hit == ReadOK(a, Slot) /\ check_value(Load(bytes, a), rows[k].bits)
           full == hit /\ Len(job[w].rows) + 1 >= MaxResults
       IN SetJob(w, [job[w] EXCEPT !.todo = @ \ {k},
             !.rows = IF hit THEN Append(@, FreshRow(rows[k])) ELSE @,
             !.truncated = @ \/ full, !.done = full])
    /\ UNCHANGED <<Shared, next_row, aborted, stash_used>>

\* join, then merge_workers: worker by worker up to the cap, in address order.
Flat == LET out[w \in 0 .. Cardinality(Workers)] ==
                IF w = 0 THEN <<>> ELSE out[w - 1] \o job[w].rows
        IN out[Cardinality(Workers)]
merge_workers ==
    /\ scan # "no" /\ \A w \in Workers : job[w].done
    /\ IF scan = "stash"
       THEN stash' = UNION {job[w].copies : w \in Workers} /\ results' = {}
            /\ truncated' = \E w \in Workers : job[w].truncated
       ELSE /\ stash' = {}
            /\ results' = {Flat[k] : k \in {k \in DOMAIN Flat : k <= MaxResults}}
            /\ truncated' = (Len(Flat) > MaxResults \/ \E w \in Workers : job[w].truncated)
    /\ scan' = "no" /\ cut_short' = tok
    /\ UNCHANGED <<bytes, readable, areas, rows, check, job, next_row, aborted, stash_used, tok,
                   scan_used, touched, scans, mishaps>>

ScanNext ==
    \/ \E b \in Space : TargetWrites(b)
    \/ \E g \in readable : TargetFrees(g)
    \/ \E begin \in Begins : \E type \in {"exact", "changed"} : first_scan(begin, type)
    \/ \E type \in {"exact", "changed"} : next_scan(type)
    \/ \E w \in Workers : \/ TakeArea(w) \/ TakeChunk(w) \/ ReadSegment(w)
                          \/ TakeRows(w) \/ CheckRow(w)
    \/ merge_workers \/ scan_reset \/ cancel

ScanSpec == ScanInit /\ [][ScanNext]_scanVars

-----------------------------------------------------------------------------
(* What is checked.                                                        *)

ScanTypeOK ==
    /\ bytes \in [Space -> {0, 1}] /\ scan \in {"no", "values", "stash", "compare", "rows"}
    /\ results \subseteq [addr : Space, bits : [1 .. Slot -> {0, 1}]]
    /\ Cardinality(results) <= MaxResults /\ truncated \in BOOLEAN

Found == {r.addr : r \in results}
Still(S) == S \cap touched = {}

\* The blocks a split read ends in: leaves counted from the start of a chunk.
BlockOf(r, a) ==
    LET o == a - r.base
        from == r.base + (o \div r.chunk) * r.chunk + ((o % r.chunk) \div Page) * Page
        stop == r.base + (IF r.size < (o \div r.chunk + 1) * r.chunk THEN r.size
                          ELSE (o \div r.chunk + 1) * r.chunk)
    IN {b \in Space : from <= b /\ b < from + Page /\ b < stop}

\* Nothing is lost in the fan-out: a scan that does not report itself
\* truncated or cancelled has a row for every matching value the target left alone, as
\* long as the value does not cross a block of the split and its block can be
\* read; a rescan keeps every such row of the scan before it.
ScanIsComplete ==
    scan = "no" /\ scan_used /\ stash = {} /\ ~truncated /\ ~cut_short =>
        /\ \A k \in DOMAIN areas : \A a \in Bytes(areas[k].base, areas[k].size) :
             LET block == BlockOf(areas[k], a) IN
             ( /\ Bytes(a, Slot) \subseteq block /\ Still(block)
               /\ \A b \in block : PageOf(b) \in readable
               /\ check_value(Load(bytes, a), IF areas[k].old = <<>> THEN <<>>
                      ELSE [i \in 1 .. Slot |-> areas[k].old[a - areas[k].base + i]]) )
             => a \in Found
        /\ \A k \in DOMAIN rows :
             ( /\ Still(Bytes(rows[k].addr, Slot)) /\ ReadOK(rows[k].addr, Slot)
               /\ check_value(Load(bytes, rows[k].addr), rows[k].bits) )
             => rows[k].addr \in Found

\* A row is true: its bits are the bytes of the target, and they pass the
\* comparison, unless the target changed them after they were read.
RowsAreTrue ==
    scan = "no" => \A r \in results :
        Still(Bytes(r.addr, Slot)) => r.bits = Load(bytes, r.addr) /\ (check = "exact" => r.bits = Wanted)
=============================================================================
