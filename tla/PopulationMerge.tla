---------------------------- MODULE PopulationMerge ----------------------------
(***************************************************************************)
(* The heart of the cache writer: one shared cache table kept current by   *)
(* the CDC stream while population workers copy query results out of the   *)
(* origin and the writer merges those copies into the same table.          *)
(*                                                                         *)
(* The origin's write-ahead log is a sequence of row operations; an LSN is *)
(* a position in it and image[n + 1] is the relation after n operations.   *)
(* The writer is single threaded: `task` is what its event loop is in the  *)
(* middle of, and a handler ends in the merge drain every loop iteration   *)
(* ends in.  Origin commits and population workers run in between.         *)
(*                                                                         *)
(* One relation, queries that read only it, no LIMIT.  The relation stays  *)
(* cached throughout; dropping its table is the subject of                 *)
(* CdcPipeline.                                                            *)
(***************************************************************************)
EXTENDS Integers, Sequences, FiniteSets

CONSTANTS
    Keys,               \* primary keys of the relation
    Vals,               \* row images
    Absent,             \* no row under this key
    Queries,            \* fingerprints
    Match,              \* Match[q]: the row images in the result of q
    Sensitive,          \* queries whose predicate reads the toastable column
    Subsumers,          \* Subsumers[q]: queries whose constraints q implies
    Pinned,             \* pinned queries
    Fifo,               \* CachePolicy::Fifo (else CLOCK)
    Kinds,              \* bound: the operations the origin performs
    DeletedKeyCap,      \* POPULATION_DELETED_KEY_CAP
    FrameRowsCapacity,  \* FRAME_ROWS_CAPACITY
    BatchFramesMax,     \* BATCH_FRAMES_MAX
    MaxOps,             \* bound: operations the origin performs
    MaxGen              \* bound: generations allocated

ASSUME DomainAssumption ==
    /\ Absent \notin Vals /\ Queries # {}
    /\ Match \in [Queries -> SUBSET Vals]
    /\ Sensitive \subseteq Queries
    /\ Pinned \subseteq Queries
    /\ Fifo \in BOOLEAN
    /\ Kinds \subseteq {"Insert", "Update", "Move", "Toast", "Delete", "Truncate",
                        "Other"}

\* Subsumption is sound: a subsumer's result contains the subsumed one.
ASSUME SubsumersAssumption ==
    /\ Subsumers \in [Queries -> SUBSET Queries]
    /\ \A q \in Queries : \A p \in Subsumers[q] : Match[q] \subseteq Match[p]

ASSUME BoundAssumption ==
    /\ DeletedKeyCap \in Nat /\ FrameRowsCapacity \in Nat \ {0}
    /\ BatchFramesMax \in Nat \ {0}
    /\ MaxOps \in Nat /\ MaxGen \in Nat

Row == Vals \cup {Absent}
Image == [Keys -> Row]
Gens == 1..MaxGen
NoRows == [k \in Keys |-> Absent]

\* `last` closes the transaction; `toast`: the new image lacks a toast column;
\* "Other": a transaction that touches no published relation.
Op == [op : {"Insert"}, key : Keys, val : Vals, last : BOOLEAN]
      \cup [op : {"Update"}, old : Keys, key : Keys, val : Vals,
            toast : BOOLEAN, last : BOOLEAN]
      \cup [op : {"Delete"}, key : Keys, last : BOOLEAN]
      \cup [op : {"Truncate"}, last : BOOLEAN]
      \cup [op : {"Other"}, last : {TRUE}]

VARIABLES
    wal, image,                     \* origin
    delivered,                      \* last row operation handed to the writer
    replayed,                       \* last row operation run against `img`
    marked,                         \* last commit boundary handed over
    stamped,                        \* last commit boundary replayed
    received,                       \* last_received_lsn
    keepalive,                      \* keepalive LSN behind a forced flush, or 0
    frame_open, frame_state, task,
    cache,                          \* the table as committed
    img,                            \* the table as the frame's txn sees it
    frame_deleted_keys, frame_toast_stale_keys, frame_truncated,
    frame_invalidations,
    recording, floor,               \* DeletedKeyEntry.floors
    keys, stale_keys,               \* key -> LSN, 0 when not in the set
    overflowed, aborted_below,
    generation_counter,
    qgen,                           \* cached_queries[q].generation, 0: no entry
    invalidated, started,           \* ... .invalidated, .registration_started_at
    view,                           \* state_view.cached_queries[q].state
    readmits,                       \* queued QueryCommand::Readmit
    popq, phase, read_at, snapshot, staged  \* populations, by generation

origin == <<wal, image>>
intake == <<delivered, marked, keepalive, frame_open>>
replay == <<replayed, stamped, frame_state, img, frame_deleted_keys,
            frame_toast_stale_keys, frame_truncated, frame_invalidations>>
table == <<cache, received>>
entry == <<recording, floor, keys, stale_keys, overflowed, aborted_below>>
queries == <<generation_counter, qgen, invalidated, started, view, readmits>>
pops == <<popq, phase, read_at, snapshot, staged>>
vars == <<origin, intake, replay, table, entry, queries, pops, task>>

Init ==
    /\ wal = <<>> /\ image \in {<<im>> : im \in Image}
    /\ delivered = 0 /\ replayed = 0 /\ marked = 0 /\ stamped = 0
    /\ received = 0 /\ keepalive = 0
    /\ frame_open = FALSE /\ frame_state = "Idle" /\ task = "idle"
    /\ cache = NoRows /\ img = NoRows
    /\ frame_deleted_keys = {} /\ frame_toast_stale_keys = {}
    /\ frame_truncated = FALSE /\ frame_invalidations = {}
    /\ recording = {} /\ floor = [g \in Gens |-> 0]
    /\ keys = [k \in Keys |-> 0] /\ stale_keys = [k \in Keys |-> 0]
    /\ overflowed = FALSE /\ aborted_below = 0
    /\ generation_counter = 0
    /\ qgen = [q \in Queries |-> 0]
    /\ invalidated = [q \in Queries |-> FALSE]
    /\ started = [q \in Queries |-> FALSE]
    /\ view = [q \in Queries |-> "None"] /\ readmits = {}
    /\ popq = [g \in Gens |-> CHOOSE q \in Queries : TRUE]
    /\ phase = [g \in Gens |-> "none"]
    /\ read_at = [g \in Gens |-> 0] /\ snapshot = [g \in Gens |-> 0]
    /\ staged = [g \in Gens |-> NoRows]

\* Every handler ends the loop iteration: the merge drain runs when it is wanted
\* (merges_drain_wanted: no frame open, merges pending).
LoopEnd ==
    task' = IF frame_state' = "Idle" /\ \E g \in Gens : phase'[g] = "pending"
            THEN "drain" ELSE "idle"

-----------------------------------------------------------------------------
(* The origin.  A transaction's operations reach the log back to back, so   *)
(* every other process runs between transactions (Committed, in Next).      *)

Committed == wal # <<>> => wal[Len(wal)].last
OriginAt(n) == image[n + 1]
Current == OriginAt(Len(wal))

Effect(im, o) ==
    CASE o.op = "Insert" -> [im EXCEPT ![o.key] = o.val]
      [] o.op = "Update" -> [[im EXCEPT ![o.old] = Absent] EXCEPT ![o.key] = o.val]
      [] o.op = "Delete" -> [im EXCEPT ![o.key] = Absent]
      [] o.op = "Truncate" -> NoRows
      [] OTHER -> im

\* What the origin can do to image im: "Move" is an update of the primary key,
\* "Toast" one that elides an unchanged toast column.
Possible(im, o) ==
    /\ o.op \in Kinds
    /\ o.op = "Insert" => im[o.key] = Absent
    /\ o.op = "Update" =>
          /\ im[o.old] # Absent
          /\ o.key = o.old \/ ("Move" \in Kinds /\ im[o.key] = Absent)
          /\ o.toast => "Toast" \in Kinds
    /\ o.op = "Delete" => im[o.key] # Absent
    /\ o.op = "Other" => Committed

OriginOp(o) ==
    /\ Len(wal) < MaxOps
    /\ Possible(Current, o)
    /\ wal' = Append(wal, o)
    /\ image' = Append(image, Effect(Current, o))
    /\ UNCHANGED <<intake, replay, table, entry, queries, pops, task>>

-----------------------------------------------------------------------------
(* PopulationDeletedKeys: the keys CDC removed while a population that may   *)
(* hold an older copy of them is in flight.                                  *)

is_recording == recording # {}

\* Keys some population still recording may hold an older copy of.
Pruned(f, rec) ==
    [k \in Keys |-> IF \E g \in rec : f[k] > floor[g] THEN f[k] ELSE 0]

activate(g) ==
    /\ recording' = recording \cup {g}
    /\ floor' = [floor EXCEPT ![g] = received]
    /\ UNCHANGED <<keys, stale_keys, overflowed, aborted_below>>

\* The entry goes with its last floor.
deactivate(g) ==
    LET rec == recording \ {g} IN
    /\ recording' = rec
    /\ keys' = Pruned(keys, rec)
    /\ stale_keys' = Pruned(stale_keys, rec)
    /\ overflowed' = (overflowed /\ rec # {})
    /\ aborted_below' = IF rec = {} THEN 0 ELSE aborted_below
    /\ floor' = [floor EXCEPT ![g] = 0]

\* population_deleted_key_cancel: the row under k is alive at the origin.
key_cancel(k) ==
    /\ frame_deleted_keys' = frame_deleted_keys \ {k}
    /\ keys' = [keys EXCEPT ![k] = 0]
    /\ stale_keys' = [stale_keys EXCEPT ![k] = 0]
    /\ UNCHANGED <<recording, floor, overflowed, aborted_below>>

InSet(f) == {k \in Keys : f[k] # 0}
Tracked(k) == k \in frame_deleted_keys \cup InSet(keys) \cup InSet(stale_keys)

\* record over the frame's deleted keys, then record_toast_stale over its
\* stale ones, then abort_below when `bulk`: the frame truncated the table.
\* Either set past the cap disables the entry.
keys_stamp(dead, live, bulk, lsn) ==
    LET tracking == is_recording /\ ~overflowed
        dead_keys == [k \in Keys |-> IF k \in dead THEN lsn ELSE keys[k]]
        dead_stale == [k \in Keys |-> IF k \in dead THEN 0 ELSE stale_keys[k]]
        new_keys == [k \in Keys |-> IF k \in live THEN 0 ELSE dead_keys[k]]
        new_stale == [k \in Keys |->
                  IF k \in live /\ dead_stale[k] < lsn THEN lsn ELSE dead_stale[k]]
        lost == \/ Cardinality(InSet(dead_keys)) > DeletedKeyCap
                \/ Cardinality(InSet(new_stale)) > DeletedKeyCap
        below == IF bulk /\ aborted_below < lsn THEN lsn ELSE aborted_below
        Kept(f) == [k \in Keys |->
                       IF lost \/ (bulk /\ f[k] <= lsn) THEN 0 ELSE f[k]]
    IN  /\ overflowed' = (overflowed \/ (tracking /\ lost))
        /\ keys' = IF tracking THEN Kept(new_keys) ELSE keys
        /\ stale_keys' = IF tracking THEN Kept(new_stale) ELSE stale_keys
        /\ aborted_below' = IF is_recording THEN below ELSE aborted_below
        /\ UNCHANGED <<recording, floor>>

should_abort(g) == overflowed \/ snapshot[g] < aborted_below

-----------------------------------------------------------------------------
(* CDC intake: CdcCommand handlers.  Commands arrive in log order, whole     *)
(* transactions at a time.                                                   *)

Commits(lo, hi) == {i \in (lo + 1)..hi : wal[i].last}
FrameRowsLen == (delivered - replayed) + Cardinality(Commits(stamped, marked))
BatchFrames == Cardinality(Commits(received, marked))
BatchEvents == delivered - received

frame_begin_handle ==
    /\ task = "idle" /\ ~frame_open
    /\ delivered < Len(wal) /\ wal[delivered + 1].op # "Other"
    /\ frame_open' = TRUE
    /\ frame_state' = IF frame_state = "Idle" THEN "Active" ELSE frame_state
    /\ task' = "idle"
    /\ UNCHANGED <<origin, delivered, marked, keepalive, replayed, stamped, img,
                   frame_deleted_keys, frame_toast_stale_keys, frame_truncated,
                   frame_invalidations, table, entry, queries, pops>>

\* A row command is logged, and dropped while the frame is Recovering; a full
\* log is replayed mid-frame.
RowCommand ==
    /\ task = "idle" /\ frame_open /\ delivered < Len(wal)
    /\ delivered # marked => ~wal[delivered].last
    /\ delivered' = delivered + 1
    /\ replayed' = IF frame_state = "Recovering" THEN delivered + 1 ELSE replayed
    /\ task' = IF frame_state # "Recovering" /\ FrameRowsLen + 1 >= FrameRowsCapacity
               THEN "replay" ELSE "idle"
    /\ UNCHANGED <<origin, marked, keepalive, frame_open, stamped, frame_state, img,
                   frame_deleted_keys, frame_toast_stale_keys, frame_truncated,
                   frame_invalidations, table, entry, queries, pops>>

\* The batch accumulates frames while the command queue holds more.
commit_mark_handle ==
    /\ task = "idle" /\ frame_open
    /\ delivered > marked /\ wal[delivered].last
    /\ marked' = delivered
    /\ frame_open' = FALSE
    /\ task' \in IF \/ frame_state = "Recovering"
                    \/ BatchEvents >= FrameRowsCapacity
                    \/ BatchFrames + 1 >= BatchFramesMax
                 THEN {"flush"} ELSE {"flush", "idle"}
    /\ UNCHANGED <<origin, delivered, keepalive, replay, table, entry, queries, pops>>

\* A keepalive first flushes the accumulated frames; LSNs it passes hold no
\* published change.
keepalive_mark_handle(lsn) ==
    /\ task = "idle" /\ ~frame_open
    /\ \A i \in (marked + 1)..lsn : wal[i].op = "Other"
    /\ IF BatchFrames > 0
       THEN /\ keepalive' = lsn /\ task' = "flush"
            /\ UNCHANGED <<delivered, marked, replayed, stamped, received>>
            /\ UNCHANGED <<frame_state, phase>>
       ELSE /\ delivered' = lsn /\ marked' = lsn /\ replayed' = lsn
            /\ stamped' = lsn /\ received' = lsn
            /\ UNCHANGED <<keepalive, frame_state, phase>> /\ LoopEnd
    /\ UNCHANGED <<origin, frame_open, img, frame_deleted_keys,
                   frame_toast_stale_keys, frame_truncated, frame_invalidations,
                   cache, entry, queries, popq, read_at, snapshot, staged>>

-----------------------------------------------------------------------------
(* frame_rows_replay: the logged events, in order, against the frame's txn.  *)

Registered == {q \in Queries : qgen[q] # 0}
\* row_membership_evaluate: queries flagged this batch no longer count.
Matched(v) == \E q \in Registered \ frame_invalidations : v \in Match[q]

BoundaryDue == stamped < replayed /\ replayed <= marked /\ wal[replayed].last
ReplayDue == BoundaryDue \/ replayed < delivered
Replaying == task \in {"replay", "flush"} /\ frame_state \in {"Active", "TxnOpen"}
RowDue(op) ==
    /\ Replaying /\ ~BoundaryDue /\ replayed < delivered
    /\ wal[replayed + 1].op = op
    /\ replayed' = replayed + 1
NextOp == wal[replayed + 1]

replay_frame == <<origin, intake, table, pops, task, stamped>>

ReplayBoundary ==
    /\ Replaying /\ BoundaryDue
    /\ stamped' = replayed
    /\ keys_stamp(frame_deleted_keys, frame_toast_stale_keys, frame_truncated, replayed)
    /\ frame_deleted_keys' = {} /\ frame_toast_stale_keys' = {}
    /\ frame_truncated' = FALSE
    /\ UNCHANGED <<origin, intake, table, pops, task, queries, replayed,
                   frame_state, img, frame_invalidations>>

handle_insert ==
    LET o == NextOp
        write == Matched(o.val) \/ Tracked(o.key)
    IN  /\ RowDue("Insert")
        /\ img' = IF write THEN [img EXCEPT ![o.key] = o.val] ELSE img
        /\ frame_state' = IF write THEN "TxnOpen" ELSE frame_state
        /\ key_cancel(o.key)
        /\ UNCHANGED <<replay_frame, queries, frame_toast_stale_keys,
                       frame_truncated, frame_invalidations>>

\* A complete image: sent whole, or repaired from the row the cache holds.
\* An update that leaves every predicate keeps its row while a population is
\* recording, and deletes it otherwise.
handle_update ==
    LET o == NextOp
        write == Matched(o.val) \/ is_recording
        moved == [img EXCEPT ![o.key] = IF write THEN o.val ELSE Absent]
    IN  /\ RowDue("Update")
        /\ o.toast => img[o.old] # Absent
        /\ frame_state' = "TxnOpen"
        /\ img' = IF o.old = o.key THEN moved ELSE [moved EXCEPT ![o.old] = Absent]
        /\ frame_deleted_keys' =
              (IF write THEN frame_deleted_keys \ {o.key} ELSE frame_deleted_keys)
              \cup (IF is_recording /\ o.old # o.key THEN {o.old} ELSE {})
        /\ keys' = IF write THEN [keys EXCEPT ![o.key] = 0] ELSE keys
        /\ stale_keys' = IF write THEN [stale_keys EXCEPT ![o.key] = 0] ELSE stale_keys
        /\ UNCHANGED <<replay_frame, queries, recording, floor, overflowed, aborted_below,
                       frame_toast_stale_keys, frame_truncated, frame_invalidations>>

\* Mutant: queries that match the image are not flagged.
toast_fallback_unflagged ==
    LET o == NextOp IN
    /\ RowDue("Update") /\ o.toast
    /\ frame_state' = "TxnOpen"
    /\ frame_invalidations' = frame_invalidations \cup (Registered \cap Sensitive)
    /\ img' = [[img EXCEPT ![o.key] = Absent] EXCEPT ![o.old] = Absent]
    /\ frame_toast_stale_keys' = frame_toast_stale_keys \cup
          (IF is_recording THEN {o.key} ELSE {})
    /\ frame_deleted_keys' = frame_deleted_keys \cup
          (IF is_recording /\ o.old # o.key THEN {o.old} ELSE {})
    /\ UNCHANGED <<replay_frame, queries, entry, frame_truncated>>

\* The image cannot be completed: evict the row, flag every query that may see
\* it, and mark the key stale for populations that may hold an older copy.
handle_update_toast_fallback ==
    LET o == NextOp IN
    /\ RowDue("Update") /\ o.toast
    /\ frame_state' = "TxnOpen"
    /\ frame_invalidations' = frame_invalidations \cup
          {q \in Registered : q \in Sensitive \/ o.val \in Match[q]}
    /\ img' = [[img EXCEPT ![o.key] = Absent] EXCEPT ![o.old] = Absent]
    /\ frame_toast_stale_keys' = frame_toast_stale_keys \cup
          (IF is_recording THEN {o.key} ELSE {})
    /\ frame_deleted_keys' = frame_deleted_keys \cup
          (IF is_recording /\ o.old # o.key THEN {o.old} ELSE {})
    /\ UNCHANGED <<replay_frame, queries, entry, frame_truncated>>

handle_delete ==
    LET o == NextOp IN
    /\ RowDue("Delete")
    /\ frame_state' = "TxnOpen"
    /\ img' = [img EXCEPT ![o.key] = Absent]
    /\ frame_deleted_keys' = frame_deleted_keys \cup
          (IF is_recording THEN {o.key} ELSE {})
    /\ UNCHANGED <<replay_frame, queries, entry, frame_toast_stale_keys,
                   frame_truncated, frame_invalidations>>

\* cache_table_invalidate: cache_query_evict of every query over the relation.
cache_table_invalidate ==
    /\ qgen' = [q \in Queries |-> 0]
    /\ invalidated' = [q \in Queries |-> FALSE]
    /\ started' = [q \in Queries |-> FALSE]
    /\ view' = [q \in Queries |-> "None"]
    /\ UNCHANGED <<generation_counter, readmits>>

handle_truncate ==
    /\ RowDue("Truncate")
    /\ frame_state' = "TxnOpen"
    /\ img' = NoRows
    /\ cache_table_invalidate
    /\ frame_truncated' = TRUE
    /\ UNCHANGED <<replay_frame, entry, frame_deleted_keys, frame_toast_stale_keys,
                   frame_invalidations>>

-----------------------------------------------------------------------------
(* Closing a batch: batch_flush after the replay.                            *)

ReplayDone ==
    /\ task = "replay" /\ (~ReplayDue \/ frame_state = "Recovering")
    /\ task' = "idle"
    /\ UNCHANGED <<origin, intake, replay, table, entry, queries, pops>>

\* cache_query_cdc_invalidate of every flagged query: a pinned one keeps its
\* entry and queues its own readmission; FIFO evicts; CLOCK marks the entry.
frame_invalidations_flush ==
    LET hit == frame_invalidations \cap Registered
        gone == IF Fifo THEN hit \ Pinned ELSE {}
        marks == hit \ (Pinned \cup gone)
        Set(f, qs, x) == [q \in Queries |-> IF q \in qs THEN x ELSE f[q]]
    IN  /\ task = "flush" /\ ~ReplayDue /\ frame_state \in {"Active", "TxnOpen"}
        /\ readmits' = readmits \cup (hit \cap Pinned)
        /\ qgen' = Set(qgen, gone, 0)
        /\ started' = Set(started, gone, FALSE)
        /\ invalidated' = Set(Set(invalidated, gone, FALSE), marks, TRUE)
        /\ view' = Set(Set(view, gone, "None"), marks, "Invalidated")
        /\ task' = "commit"
        /\ UNCHANGED <<origin, intake, replay, table, entry, generation_counter, pops>>

\* Where the stream stands once the batch (and the keepalive that forced its
\* flush) is done with.
FlushedTo == IF keepalive # 0 THEN keepalive ELSE marked
Caught == delivered' = FlushedTo /\ marked' = FlushedTo /\ replayed' = FlushedTo
          /\ stamped' = FlushedTo /\ received' = FlushedTo
          /\ keepalive' = 0 /\ frame_state' = "Idle" /\ frame_invalidations' = {}
          /\ frame_deleted_keys' = {} /\ frame_toast_stale_keys' = {}
          /\ frame_truncated' = FALSE

\* frame_commit, batch_state_reset, applied_lsn_advance, frame_keys_stamp.
frame_commit ==
    /\ task = "commit" /\ frame_state \in {"Active", "TxnOpen"}
    /\ cache' = img
    /\ Caught
    /\ keys_stamp(frame_deleted_keys, frame_toast_stale_keys, frame_truncated, marked)
    /\ UNCHANGED <<origin, frame_open, img, queries, pops>>
    /\ LoopEnd

\* 40P01 in a replayed statement or in the buffered COMMIT batch: the frame's
\* writes roll back and what it logged is dropped.
frame_recover_enter ==
    /\ task \in {"replay", "flush", "commit"} /\ frame_state = "TxnOpen"
    /\ frame_state' = "Recovering"
    /\ replayed' = delivered /\ stamped' = marked
    /\ img' = cache
    /\ frame_deleted_keys' = {} /\ frame_toast_stale_keys' = {}
    /\ frame_truncated' = FALSE
    /\ UNCHANGED <<origin, intake, frame_invalidations, table, entry, queries, pops, task>>

\* Evict every query over the relation, then truncate its cache table and raise
\* the abort watermark.
frame_recover ==
    /\ task \in {"flush", "commit"} /\ frame_state = "Recovering"
    /\ cache_table_invalidate
    /\ cache' = NoRows /\ img' = NoRows
    /\ Caught
    /\ keys_stamp({}, {}, TRUE, marked)
    /\ UNCHANGED <<origin, frame_open, pops>>
    /\ LoopEnd

-----------------------------------------------------------------------------
(* Registration and eviction: QueryCommand handlers.                         *)

population_is_current(g) == qgen[popq[g]] = g /\ ~invalidated[popq[g]]

\* generation_allocate and the entry cached_query_insert or query_readmit writes.
EntryWrite(q, loading) ==
    /\ generation_counter < MaxGen
    /\ generation_counter' = generation_counter + 1
    /\ qgen' = [qgen EXCEPT ![q] = generation_counter + 1]
    /\ invalidated' = [invalidated EXCEPT ![q] = FALSE]
    /\ started' = [started EXCEPT ![q] = loading]
    /\ view' = [view EXCEPT ![q] = IF loading THEN "Loading" ELSE "Ready"]

\* populate_work_dispatch: recording starts before the worker can read.
population_start(q, g) ==
    /\ activate(g)
    /\ popq' = [popq EXCEPT ![g] = q]
    /\ phase' = [phase EXCEPT ![g] = "dispatched"]
    /\ UNCHANGED <<read_at, snapshot, staged>>

\* Mutant: a parent whose population is still in flight counts.
subsumption_covered_loading(q) ==
    \E p \in Subsumers[q] : qgen[p] # 0 /\ ~invalidated[p]

\* A ready subsumer holds every row of q.
subsumption_covered(q) ==
    \E p \in Subsumers[q] : qgen[p] # 0 /\ ~invalidated[p] /\ ~started[p]

\* query_register of a query with no entry: stamped Ready when subsumed, else
\* (or when stamping fails) populated.
query_register(q) ==
    /\ task = "idle" /\ qgen[q] = 0 /\ view[q] = "None"
    /\ \/ /\ subsumption_covered(q)
          /\ EntryWrite(q, FALSE)
          /\ UNCHANGED <<entry, pops>>
       \/ /\ EntryWrite(q, TRUE)
          /\ population_start(q, generation_counter + 1)
    /\ UNCHANGED <<origin, intake, replay, table, readmits>>
    /\ LoopEnd

\* The fast path for an invalidated query (Register), or a pinned query's
\* queued Readmit; the latter finds no entry if the query was evicted since.
query_readmit(q) ==
    /\ task = "idle"
    /\ invalidated[q] \/ q \in readmits
    /\ readmits' = IF invalidated[q] THEN readmits ELSE readmits \ {q}
    /\ \/ /\ qgen[q] # 0
          /\ EntryWrite(q, TRUE)
          /\ population_start(q, generation_counter + 1)
       \/ /\ qgen[q] = 0
          /\ UNCHANGED <<generation_counter, qgen, invalidated, started, view,
                         entry, pops>>
    /\ UNCHANGED <<origin, intake, replay, table>>
    /\ LoopEnd

EntryRemove(q) ==
    /\ qgen' = [qgen EXCEPT ![q] = 0]
    /\ invalidated' = [invalidated EXCEPT ![q] = FALSE]
    /\ started' = [started EXCEPT ![q] = FALSE]
    /\ view' = [view EXCEPT ![q] = "None"]
    /\ UNCHANGED <<generation_counter, readmits>>

\* eviction_run, or stale_entries_cleanup of an invalidated entry: on the tick,
\* never while the frame holds locks.
cache_query_evict(q) ==
    /\ task = "idle" /\ frame_state # "TxnOpen"
    /\ qgen[q] # 0 /\ q \notin Pinned
    /\ EntryRemove(q)
    /\ UNCHANGED <<origin, intake, replay, table, entry, pops>>
    /\ LoopEnd

-----------------------------------------------------------------------------
(* Population: the worker's task, and the commands it sends back.            *)

\* population_stream: the result rows as of one origin snapshot.
population_stream(g) ==
    /\ phase[g] = "dispatched"
    /\ phase' = [phase EXCEPT ![g] = "read"]
    /\ read_at' = [read_at EXCEPT ![g] = Len(wal)]
    /\ staged' = [staged EXCEPT ![g] =
          [k \in Keys |-> IF Current[k] \in Match[popq[g]] THEN Current[k] ELSE Absent]]
    /\ UNCHANGED <<origin, intake, replay, table, entry, queries, popq, snapshot, task>>

\* origin_snapshot_lsn: the WAL position asked for after the rows were read.
origin_snapshot_lsn(g) ==
    /\ phase[g] = "read"
    /\ phase' = [phase EXCEPT ![g] = "staged"]
    /\ snapshot' = [snapshot EXCEPT ![g] = Len(wal)]
    /\ UNCHANGED <<origin, intake, replay, table, entry, queries, popq, read_at,
                   staged, task>>

MergeCommand(g) ==
    /\ task = "idle" /\ phase[g] = "staged"
    /\ phase' = [phase EXCEPT ![g] = "pending"]
    /\ UNCHANGED <<origin, intake, replay, table, entry, queries, popq, read_at,
                   snapshot, staged>>
    /\ LoopEnd

PopDone(g) ==
    /\ phase' = [phase EXCEPT ![g] = "done"]
    /\ staged' = [staged EXCEPT ![g] = NoRows]
    /\ read_at' = [read_at EXCEPT ![g] = 0]
    /\ snapshot' = [snapshot EXCEPT ![g] = 0]
    /\ UNCHANGED popq

\* Mutant: the failed population's floor is left behind.
population_failed_recording(g) ==
    /\ task = "idle" /\ phase[g] \in {"dispatched", "read"}
    /\ PopDone(g)
    /\ EntryRemove(popq[g])
    /\ UNCHANGED <<origin, intake, replay, table, entry>>
    /\ LoopEnd

\* The worker failed; query_failed_cleanup removes the query's entry whatever
\* generation it is at.
population_failed(g) ==
    /\ task = "idle" /\ phase[g] \in {"dispatched", "read"}
    /\ deactivate(g)
    /\ PopDone(g)
    /\ EntryRemove(popq[g])
    /\ UNCHANGED <<origin, intake, replay, table>>
    /\ LoopEnd

-----------------------------------------------------------------------------
(* Merging: one population at a time, chunk by chunk, between CDC batches.   *)

\* PendingMerge order: snapshot LSN, then generation.
HeapTop(g) ==
    /\ phase[g] = "pending"
    /\ \A h \in Gens : phase[h] = "pending" =>
          snapshot[g] < snapshot[h] \/ (snapshot[g] = snapshot[h] /\ g <= h)
SlotFree == \A g \in Gens : phase[g] # "merging"
Draining == task = "drain"

\* merge_heap_advance, one heap entry per step: reap a superseded head ...
DrainReap(g) ==
    /\ Draining /\ HeapTop(g) /\ ~population_is_current(g)
    /\ deactivate(g)
    /\ PopDone(g)
    /\ UNCHANGED <<origin, intake, replay, table, queries, task>>

\* ... start a head the watermark has released ...
DrainStart(g) ==
    /\ Draining /\ HeapTop(g) /\ population_is_current(g)
    /\ snapshot[g] <= received /\ SlotFree
    /\ phase' = [phase EXCEPT ![g] = "merging"]
    /\ UNCHANGED <<origin, intake, replay, table, entry, queries, popq, read_at,
                   snapshot, staged, task>>

\* ... or stop: nothing pending, the head is gated, or the slot is busy.
DrainStop ==
    /\ Draining
    /\ \A g \in Gens : HeapTop(g) =>
          population_is_current(g) /\ (snapshot[g] > received \/ ~SlotFree)
    /\ task' = "idle"
    /\ UNCHANGED <<origin, intake, replay, table, entry, queries, pops>>

Remaining(g) == {k \in Keys : staged[g][k] # Absent}

merge_toast_stale_hit(g) == \E k \in Remaining(g) : stale_keys[k] > floor[g]

\* Mutant: the merge does not filter removed keys.
merge_chunk_unfiltered(g, chunk) ==
    LET merged == [k \in Keys |->
            IF k \in chunk /\ cache[k] = Absent THEN staged[g][k] ELSE cache[k]]
    IN  /\ cache' = merged /\ img' = merged
        /\ staged' = [staged EXCEPT ![g] =
              [k \in Keys |-> IF k \in chunk THEN Absent ELSE @[k]]]

\* A chunk drains staged rows; a row enters the table unless its key is there
\* already or was removed by CDC.
merge_chunk_run(g, chunk) ==
    LET merged == [k \in Keys |->
            IF k \in chunk /\ cache[k] = Absent /\ keys[k] = 0
            THEN staged[g][k] ELSE cache[k]]
    IN  /\ cache' = merged /\ img' = merged
        /\ staged' = [staged EXCEPT ![g] =
              [k \in Keys |-> IF k \in chunk THEN Absent ELSE @[k]]]

ChunkDue(g) == task = "idle" /\ frame_state = "Idle" /\ phase[g] = "merging"

MergeSuperseded(g) ==
    /\ ChunkDue(g) /\ ~population_is_current(g)
    /\ deactivate(g)
    /\ PopDone(g)
    /\ UNCHANGED <<origin, intake, replay, table, queries>>
    /\ LoopEnd

\* merge_in_progress_step, MergeStep::Continue.
MergeContinue(g) ==
    /\ ChunkDue(g) /\ population_is_current(g)
    /\ ~should_abort(g) /\ ~merge_toast_stale_hit(g)
    /\ \E chunk \in SUBSET Remaining(g) : chunk # {} /\ merge_chunk_run(g, chunk)
    /\ UNCHANGED <<origin, intake, replayed, stamped, frame_state, frame_deleted_keys,
                   frame_toast_stale_keys, frame_truncated, frame_invalidations,
                   received, entry, queries, popq, phase, read_at, snapshot>>
    /\ LoopEnd

\* merge_apply_abandon: keys were lost, a staged row is stale, or a statement
\* failed in the cache database.
merge_apply_abandon(g) ==
    /\ ChunkDue(g) /\ population_is_current(g)
    /\ deactivate(g)
    /\ PopDone(g)
    /\ EntryRemove(popq[g])
    /\ UNCHANGED <<origin, intake, replay, table>>
    /\ LoopEnd

\* merge_done and query_ready_mark.
merge_done(g) ==
    /\ ChunkDue(g) /\ population_is_current(g) /\ Remaining(g) = {}
    /\ deactivate(g)
    /\ PopDone(g)
    /\ started' = [started EXCEPT ![popq[g]] = FALSE]
    /\ view' = [view EXCEPT ![popq[g]] = "Ready"]
    /\ UNCHANGED <<origin, intake, replay, table, generation_counter, qgen,
                   invalidated, readmits>>
    /\ LoopEnd

-----------------------------------------------------------------------------
Replay ==
    \/ ReplayBoundary \/ handle_insert \/ handle_update
    \/ handle_update_toast_fallback \/ handle_delete \/ handle_truncate
    \/ ReplayDone

Flush == frame_invalidations_flush \/ frame_commit \/ frame_recover

Cdc ==
    \/ frame_begin_handle \/ RowCommand \/ commit_mark_handle
    \/ \E lsn \in (marked + 1)..Len(wal) : keepalive_mark_handle(lsn)

Drain == DrainStop \/ \E g \in Gens : DrainReap(g) \/ DrainStart(g)

MergeStep(g) ==
    MergeSuperseded(g) \/ MergeContinue(g) \/ merge_apply_abandon(g) \/ merge_done(g)

Worker(g) == population_stream(g) \/ origin_snapshot_lsn(g)

Register(q) == query_register(q) \/ query_readmit(q)

Next ==
    \/ \E o \in Op : OriginOp(o)
    \/ /\ Committed
       /\ \/ Cdc \/ Replay \/ Flush \/ frame_recover_enter \/ Drain
          \/ \E q \in Queries : Register(q) \/ cache_query_evict(q)
          \/ \E g \in Gens : Worker(g) \/ MergeCommand(g) \/ population_failed(g)
                             \/ MergeStep(g)

Spec == Init /\ [][Next]_vars

-----------------------------------------------------------------------------
(* Properties.                                                               *)

TypeOK ==
    /\ wal \in Seq(Op) /\ image \in Seq(Image)
    /\ delivered \in Nat /\ replayed \in Nat /\ marked \in Nat /\ stamped \in Nat
    /\ received \in Nat /\ keepalive \in Nat
    /\ frame_open \in BOOLEAN
    /\ frame_state \in {"Idle", "Active", "TxnOpen", "Recovering"}
    /\ task \in {"idle", "replay", "flush", "commit", "drain"}
    /\ cache \in Image /\ img \in Image
    /\ frame_deleted_keys \subseteq Keys /\ frame_toast_stale_keys \subseteq Keys
    /\ frame_truncated \in BOOLEAN /\ frame_invalidations \subseteq Queries
    /\ recording \subseteq Gens /\ floor \in [Gens -> Nat]
    /\ keys \in [Keys -> Nat] /\ stale_keys \in [Keys -> Nat]
    /\ overflowed \in BOOLEAN /\ aborted_below \in Nat
    /\ generation_counter \in 0..MaxGen
    /\ qgen \in [Queries -> 0..MaxGen]
    /\ invalidated \in [Queries -> BOOLEAN] /\ started \in [Queries -> BOOLEAN]
    /\ view \in [Queries -> {"None", "Loading", "Ready", "Invalidated"}]
    /\ readmits \subseteq Queries
    /\ popq \in [Gens -> Queries]
    /\ phase \in [Gens -> {"none", "dispatched", "read", "staged", "pending",
                           "merging", "done"}]
    /\ read_at \in [Gens -> Nat] /\ snapshot \in [Gens -> Nat]
    /\ staged \in [Gens -> Image]

\* Every row of the shared table is the origin's row at the position the table
\* has been brought to: a merge never resurrects a deleted row or an older
\* version of one, and never runs ahead of the stream.
CachedRowsCurrent ==
    \A k \in Keys : cache[k] # Absent => cache[k] = OriginAt(received)[k]

\* A query marked Ready is served its exact result as of that position.
ReadyResultExact ==
    \A q \in Queries : view[q] = "Ready" =>
        \A k \in Keys : OriginAt(received)[k] \in Match[q] => cache[k] # Absent

\* A key in the removed set is dead at the origin at the replay position, so the
\* merge filter omits only rows that no longer exist.  (A Recovering frame has
\* lost its place; it ends in the eviction of every population's query.)
RemovedKeysDead ==
    frame_state # "Recovering" =>
        \A k \in (frame_deleted_keys \cup InSet(keys)) \ frame_toast_stale_keys :
            OriginAt(replayed)[k] = Absent

\* Keys are recorded exactly as long as a population is in flight.
RecordingExact ==
    recording = {g \in Gens : phase[g] \notin {"none", "done"}}
=============================================================================
