----------------------------- MODULE OpenImage -----------------------------
(***************************************************************************)
(* The open binary (disasm/binary_state.cpp), its background analysis      *)
(* (disasm/hyperion_session.cpp), the patch tool (analysis/imgpatch.cpp)   *)
(* and the store that keeps annotations on disk.  One tool call runs at a  *)
(* time, under g_mu; it meets the analysis thread, which it may have to    *)
(* cancel and join, and the end of the process, after which the store is   *)
(* all that is left.  Annotations are places: what is written there, and   *)
(* the mirror of renames in the analyzer's database, are left out.         *)
(***************************************************************************)
EXTENDS Integers, Sequences

CONSTANTS ImageFiles, NoImage,   \* images on disk, told apart by their hash; none
          LoadBases,             \* where an image is loaded
          Rvas,                  \* places the client annotates
          NBytes,                \* bytes of an image that are patched
          MaxPatches, MaxLoads, MaxAnnotations   \* bounds

ASSUME OpenImageConstants ==
    /\ NoImage \notin ImageFiles /\ LoadBases \subseteq Nat /\ Rvas \subseteq Nat
    /\ {NBytes, MaxPatches, MaxLoads, MaxAnnotations} \subseteq Nat

Offsets == 1 .. NBytes
Original == [o \in Offsets |-> 0]
AnnotationKinds == {"text", "bookmark"}   \* names and comments, and bookmarks
Notes == AnnotationKinds \X Int           \* at a virtual address

\* Annotations as offsets into an image that is loaded at b.
PlacesIn(ns, b) == {<<n[1], n[2] - b>> : n \in ns}

VARIABLES
    store,                   \* per image, the file under symbols\: [base, notes, torn]
    image, base, file,       \* g_bin: what is open, where, and its bytes
    patches, dirty, indexed, \* the journal, indexes_dirty, the bytes the indexes show
    notes,                   \* symbols, comments, bookmarks
    hype,                    \* whether a hyperion session exists
    worker, cancelled,       \* its thread, and the analyzer's cancel flag
    hype_ready, hype_error,
    call,                    \* the tool call under way
    promised,                \* history: per image what the client left open (as offsets)
    unsaved,                 \* the images whose last save did not reach the store
    misread,                 \* the open image was loaded past what its store holds
    loads, marks

imageVars == <<store, image, base, file, patches, dirty, indexed, notes, hype, worker, cancelled,
               hype_ready, hype_error, call, promised, unsaved, misread, loads, marks>>

NoCall == [op |-> "none"]
EmptyStore == [base |-> 0, notes |-> {}, torn |-> FALSE]

Unloaded ==
    /\ image' = NoImage /\ base' = 0 /\ file' = Original /\ patches' = <<>> /\ dirty' = FALSE
    /\ indexed' = Original /\ notes' = {} /\ misread' = FALSE /\ hype' = FALSE /\ worker' = "none"
    /\ cancelled' = FALSE /\ hype_ready' = FALSE /\ hype_error' = FALSE

ImageInit ==
    /\ store = [i \in ImageFiles |-> EmptyStore]
    /\ image = NoImage /\ base = 0 /\ file = Original /\ patches = <<>> /\ dirty = FALSE
    /\ indexed = Original /\ notes = {} /\ hype = FALSE /\ worker = "none"
    /\ cancelled = FALSE /\ hype_ready = FALSE /\ hype_error = FALSE
    /\ call = NoCall
    /\ promised = [i \in ImageFiles |-> {}] /\ unsaved = {} /\ misread = FALSE
    /\ loads = 0 /\ marks = 0

ImageHistory == <<promised, unsaved, loads, marks>>
Binary == <<image, base, file, patches, dirty, indexed, notes, misread>>
Analysis == <<hype, worker, cancelled, hype_ready, hype_error>>

-----------------------------------------------------------------------------
(* The analysis thread: run_pipeline().                                    *)

\* The analyzer has looked at the flag for the last time, or it stops at a
\* look, or it throws.
AnalysisEnds ==
    /\ worker = "analyzing"
    /\ \/ ~cancelled /\ worker' = "landed" /\ UNCHANGED hype_error
       \/ worker' = "over" /\ hype_error' = TRUE
    /\ UNCHANGED <<store, Binary, hype, cancelled, hype_ready, call, ImageHistory>>

\* The queued renames go in, and ready is set without another look at it.
ReportReady ==
    /\ worker = "landed"
    /\ hype_ready' = TRUE /\ worker' = "over"
    /\ UNCHANGED <<store, Binary, hype, cancelled, hype_error, call, ImageHistory>>

RequestCancel == cancelled' = (cancelled \/ (hype /\ ~hype_ready))
Joined == worker \in {"none", "over"}

\* begin() over the bytes of the image and the spawn of the thread; bytes that
\* cannot be parsed leave an error and no thread.
BeginAnalysisUnreported ==
    /\ hype_ready' = FALSE /\ hype_error' = FALSE
    /\ \/ worker' = "analyzing" /\ cancelled' = FALSE
       \/ worker' = "none" /\ UNCHANGED cancelled
BeginAnalysis ==
    /\ hype_ready' = FALSE
    /\ \/ worker' = "analyzing" /\ cancelled' = FALSE /\ hype_error' = FALSE
       \/ worker' = "none" /\ hype_error' = TRUE /\ UNCHANGED cancelled

-----------------------------------------------------------------------------
(* The tool calls.  One that has to wait for the thread leaves its rest in *)
(* call.                                                                   *)

Rest == call = NoCall
Ready == image # NoImage
Waiting(op) == call.op = op /\ Joined

\* unload_locked, first half: the session's destructor cancels and joins.
load_file(i, b) ==
    /\ Rest /\ loads < MaxLoads /\ loads' = loads + 1
    /\ call' = [op |-> "load", image |-> i, base |-> b] /\ RequestCancel
    /\ UNCHANGED <<store, Binary, hype, worker, hype_ready, hype_error,
                   promised, unsaved, marks>>
unload ==
    /\ Rest /\ Ready
    /\ call' = [op |-> "unload"] /\ RequestCancel
    /\ UNCHANGED <<store, Binary, hype, worker, hype_ready, hype_error, ImageHistory>>
unload_locked ==
    /\ Waiting("unload") /\ Unloaded /\ call' = NoCall
    /\ UNCHANGED <<store, ImageHistory>>

\* The old session is gone; the new one's thread starts before the indexes are
\* built.  An image hyperion cannot parse is opened without a session; one
\* that cannot be opened leaves nothing.
LoadStart ==
    /\ Waiting("load")
    /\ \/ Unloaded /\ call' = NoCall
       \/ /\ image' = NoImage /\ base' = call.base /\ file' = Original /\ patches' = <<>>
          /\ dirty' = FALSE /\ indexed' = Original /\ notes' = {} /\ misread' = FALSE
          /\ cancelled' = FALSE /\ hype_ready' = FALSE /\ hype_error' = FALSE
          /\ call' = [call EXCEPT !.op = "index"]
          /\ \E parsed \in BOOLEAN : hype' = parsed /\ worker' = IF parsed THEN "analyzing" ELSE "none"
    /\ UNCHANGED <<store, ImageHistory>>

LoadIndexFails ==
    /\ call.op = "index" /\ RequestCancel
    /\ call' = [op |-> "unload"]
    /\ UNCHANGED <<store, Binary, hype, worker, hype_ready, hype_error, ImageHistory>>

\* load_meta: a store that was saved under another base is moved, unless that
\* base was 0; names and comments at address 0 are skipped; a store that cannot
\* be parsed counts as empty.
load_meta_unmoved(i, b) == IF store[i].torn THEN {} ELSE store[i].notes \ {<<"text", 0>>}
load_meta(i, b) ==
    LET delta == IF store[i].base = 0 THEN 0 ELSE b - store[i].base
    IN IF store[i].torn THEN {}
       ELSE {<<n[1], n[2] + delta>> : n \in store[i].notes \ {<<"text", 0>>}}

\* What the open image then shows is not what its store holds: the file could
\* not be opened, was saved under base 0 for another, or has text at address 0.
PastStore(i, b, opened) ==
    \/ ~opened
    \/ store[i].base = 0 /\ b # 0
    \/ <<"text", 0>> \in store[i].notes

LoadEnd ==
    /\ call.op = "index"
    /\ \E opened \in BOOLEAN :
         /\ notes' = IF opened THEN load_meta(call.image, call.base) ELSE {}
         /\ misread' = (store[call.image].notes # {} /\ PastStore(call.image, call.base, opened))
    /\ image' = call.image /\ call' = NoCall
    /\ UNCHANGED <<store, base, file, patches, dirty, indexed, hype, worker, cancelled, hype_ready,
                   hype_error, promised, unsaved, loads, marks>>

\* set_symbol, set_comment, toggle_bookmark: the map, then save_meta, which
\* empties the file first, or silently does nothing when it cannot open it.
Toggled(n) == IF n \in notes THEN notes \ {n} ELSE notes \cup {n}
annotate(kind, r) ==
    /\ Rest /\ Ready /\ marks < MaxAnnotations /\ marks' = marks + 1
    /\ notes' = Toggled(<<kind, base + r>>) /\ misread' = FALSE
    /\ promised' = [promised EXCEPT ![image] = PlacesIn(notes', base)]
    /\ \/ /\ store' = [store EXCEPT ![image].torn = TRUE]
          /\ call' = [op |-> "save"] /\ UNCHANGED unsaved
       \/ unsaved' = unsaved \cup {image} /\ UNCHANGED <<store, call>>
    /\ UNCHANGED <<image, base, file, patches, dirty, indexed, Analysis, loads>>

\* The write ends, or fails unnoticed and leaves the file cut short.
Saved == [base |-> base, notes |-> notes, torn |-> FALSE]
save_meta ==
    /\ call.op = "save" /\ call' = NoCall
    /\ \/ store' = [store EXCEPT ![image] = Saved] /\ unsaved' = unsaved \ {image}
       \/ unsaved' = unsaved \cup {image} /\ UNCHANGED store
    /\ UNCHANGED <<Binary, Analysis, promised, loads, marks>>

-----------------------------------------------------------------------------
(* The patch tool.                                                         *)

Record(o) == [off |-> o, before |-> file[o]]

\* write_bytes and every poke: quiesce() first.
patch(o, v) ==
    /\ Rest /\ Ready /\ Len(patches) < MaxPatches
    /\ call' = [op |-> "poke", off |-> o, byte |-> v] /\ RequestCancel
    /\ UNCHANGED <<store, Binary, hype, worker, hype_ready, hype_error, ImageHistory>>
patch_write ==
    /\ Waiting("poke") /\ call' = NoCall
    /\ patches' = Append(patches, Record(call.off)) /\ file' = [file EXCEPT ![call.off] = call.byte]
    /\ dirty' = TRUE
    /\ UNCHANGED <<store, image, base, indexed, notes, misread, Analysis, ImageHistory>>

\* unpack_xor writes without it.
unpack_xor ==
    /\ Rest /\ Ready /\ Len(patches) + NBytes <= MaxPatches
    /\ patches' = patches \o [o \in Offsets |-> Record(o)]
    /\ file' = [o \in Offsets |-> 1 - file[o]] /\ dirty' = TRUE
    /\ UNCHANGED <<store, image, base, indexed, notes, misread, Analysis, call, ImageHistory>>

\* The journal undone from its end.
UndoneForward(now, journal) ==
    LET undo[k \in 0 .. Len(journal)] ==
            IF k = 0 THEN now ELSE [undo[k - 1] EXCEPT ![journal[k].off] = journal[k].before]
    IN undo[Len(journal)]
Undone(now, journal) ==
    LET nth(k) == journal[Len(journal) + 1 - k]
        undo[k \in 0 .. Len(journal)] ==
            IF k = 0 THEN now ELSE [undo[k - 1] EXCEPT ![nth(k).off] = nth(k).before]
    IN undo[Len(journal)]
revert_all ==
    /\ Rest /\ Ready
    /\ call' = [op |-> "revert"]
    /\ IF patches = <<>> THEN UNCHANGED cancelled ELSE RequestCancel
    /\ UNCHANGED <<store, Binary, hype, worker, hype_ready, hype_error, ImageHistory>>
revert_write ==
    /\ call.op = "revert" /\ (patches = <<>> \/ Joined) /\ call' = NoCall
    /\ file' = Undone(file, patches) /\ dirty' = (patches # <<>>) /\ patches' = <<>>
    /\ UNCHANGED <<store, image, base, indexed, notes, misread, Analysis, ImageHistory>>

\* The rebuild action only marks the indexes.
rebuild ==
    /\ Rest /\ Ready /\ ~dirty
    /\ dirty' = TRUE
    /\ UNCHANGED <<store, image, base, file, patches, indexed, notes, misread, Analysis, call, ImageHistory>>

\* A static action over stale indexes: rebuild_indexes_locked, then reanalyze.
rebuild_indexes_locked ==
    /\ Rest /\ Ready /\ dirty
    /\ indexed' = file /\ dirty' = FALSE
    /\ call' = IF hype THEN [op |-> "reanalyze"] ELSE NoCall
    /\ RequestCancel
    /\ UNCHANGED <<store, image, base, file, patches, notes, misread, hype, worker, hype_ready,
                   hype_error, ImageHistory>>
reanalyze ==
    /\ Waiting("reanalyze") /\ BeginAnalysis /\ call' = NoCall
    /\ UNCHANGED <<store, Binary, hype, ImageHistory>>

\* analyze_stop, unless the analysis is through or has failed.
analyze_stop ==
    /\ Rest /\ Ready /\ hype /\ ~hype_ready /\ ~hype_error
    /\ call' = [op |-> "stop"] /\ RequestCancel
    /\ UNCHANGED <<store, Binary, hype, worker, hype_ready, hype_error, ImageHistory>>
stop_joined ==
    /\ Waiting("stop") /\ call' = NoCall
    /\ UNCHANGED <<store, Binary, Analysis, ImageHistory>>

\* The process ends (external).  A store that was being written is cut short.
EngineDies ==
    /\ Unloaded /\ call' = NoCall
    /\ unsaved' = IF call.op = "save" THEN unsaved \cup {image} ELSE unsaved
    /\ UNCHANGED <<store, promised, loads, marks>>

AnalysisThread == AnalysisEnds \/ ReportReady
CallEnds == \/ unload_locked \/ LoadStart \/ LoadIndexFails \/ LoadEnd \/ save_meta \/ patch_write
            \/ revert_write \/ reanalyze \/ stop_joined
ImageNext ==
    \/ AnalysisThread \/ CallEnds \/ EngineDies
    \/ \E i \in ImageFiles, b \in LoadBases : load_file(i, b)
    \/ \E kind \in AnnotationKinds, r \in Rvas : annotate(kind, r)
    \/ \E o \in Offsets : patch(o, 1)
    \/ unload \/ unpack_xor \/ revert_all \/ rebuild \/ rebuild_indexes_locked \/ analyze_stop

\* The analysis of a finite image ends, and a call that has begun goes on.
ImageFairness == WF_imageVars(AnalysisThread) /\ WF_imageVars(CallEnds)
ImageSpec == ImageInit /\ [][ImageNext]_imageVars /\ ImageFairness

-----------------------------------------------------------------------------
(* What is checked.                                                        *)

ImageTypeOK ==
    /\ image \in ImageFiles \cup {NoImage} /\ base \in LoadBases \cup {0}
    /\ file \in [Offsets -> {0, 1}] /\ indexed \in [Offsets -> {0, 1}]
    /\ notes \subseteq Notes
    /\ worker \in {"none", "analyzing", "landed", "over"}
    /\ {dirty, hype, cancelled, hype_ready, hype_error} \subseteq BOOLEAN
    /\ worker # "none" => hype

\* revert_all can be relied on: whatever mixture of patches, unpacking and
\* rebuilds came before, the journal leads back to the bytes that were loaded.
JournalRestores == image # NoImage => Undone(file, patches) = Original

\* Annotations are kept, at the place in the image they were made for: across
\* unloading and loads at other bases, what is on disk is what the
\* client last left, unless its last save was refused, failed or cut short by a
\* crash; and what is open is, unless the load went past the store.
AnnotationsSurvive ==
    \A i \in ImageFiles \ unsaved :
        /\ ~store[i].torn => promised[i] = PlacesIn(store[i].notes, store[i].base)
        /\ image = i /\ ~misread => promised[i] = PlacesIn(notes, base)

\* The analysis of an image that stays open comes to an end that is reported, as
\* a database that is ready or as an error, also when calls cancel and restart it.
AnalysisLands == []<>(image # NoImage /\ hype => hype_ready \/ hype_error)
=============================================================================
