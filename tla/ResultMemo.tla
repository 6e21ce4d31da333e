------------------------------ MODULE ResultMemo ------------------------------
(***************************************************************************)
(* The in-process result memo (cache/memo.rs) between three parties: serve *)
(* workers that capture a result and store it, connections that look one   *)
(* up and drop it when stale, and the writer, which brackets a frame's     *)
(* COMMIT with slot versions, evicts queries and sweeps stale entries.     *)
(*                                                                         *)
(* A result is the number of the database state it was read from: answer[q]*)
(* counts the commits that changed q's result.                             *)
(***************************************************************************)
EXTENDS Integers, FiniteSets, FiniteSetsExt

CONSTANTS
    Keys,       \* memo keys: a fingerprint with a result format and shape
    Queries,    \* fingerprints
    Relations,
    FpOf,       \* the fingerprint of a key
    Reads,      \* the relations a query reads
    SizeOf,     \* bytes of a key's result
    Workers,    \* serve workers
    Readers,    \* connections looking a memo up
    Word,       \* total_bytes is a usize: it counts modulo Word
    Budget,     \* memo_cache_size
    Configs     \* the settings and workloads a behaviour may run under

Gc == "gc"
Removers == Readers \cup {Gc}

\* keys   the results asked for           busy    serve workers capturing at once
\* rels   the relations that change
\* faults "toast": unrepaired updates, "cleanup": failed populations
\* fifo   cache_policy: an invalidated query is evicted
\* commits, evicts   bounds on frames and on evictions
ASSUME ConfigAssumption ==
    /\ IsFiniteSet(Keys) /\ IsFiniteSet(Workers) /\ IsFiniteSet(Readers)
    /\ FpOf \in [Keys -> Queries] /\ Reads \in [Queries -> SUBSET Relations]
    /\ SizeOf \in [Keys -> Nat] /\ Word \in Nat \ {0} /\ Budget \in Nat \ {0}
    /\ Gc \notin Readers
    /\ \A x \in Configs :
        /\ x.keys \subseteq Keys /\ x.rels \subseteq Relations /\ x.busy \in Nat /\ x.faults \subseteq {"toast", "cleanup"}
        /\ x.fifo \in BOOLEAN /\ x.commits \in Nat /\ x.evicts \in Nat

VARIABLES
    config,     \* the configuration of the behaviour, chosen at its start
    view,       \* state_view: "None", "Loading", "Ready", "Invalidated"
    whole,      \* all of q's rows are in the cache tables
    answer,     \* the database state q's rows are in
    stored,     \* keys with a MemoEntry
    stamp,      \* its Memo slot version
    core,       \* its bytes
    calm,       \* captured from a Ready query with no writer step in between
    relation_slot, memo_slot,   \* slot_epochs
    relation_fingerprints,      \* entries counted per relation and fingerprint
    total_bytes, gc_pending,
    phase,      \* of the frame: "none", "open", "begun", "flushed", "visible"
    frame_relation_oids, frame_memo_evictions, frame_invalidations,
    memo_active,
    dirty,      \* queries whose result the frame's COMMIT changes
    commits, evicts,
    pc, key, mstamp, rstamp, bytes, window, replaced,  \* MemoCapture
                \* window: what the writer did meanwhile
    rpc, rkey,  \* removals under way
    gc_list

state == <<view, whole>>
store == <<stored, stamp, core, calm>>
slots == <<relation_slot, memo_slot, gc_pending>>
accounts == <<relation_fingerprints, total_bytes>>
frame == <<phase, frame_relation_oids, frame_memo_evictions, frame_invalidations,
           memo_active, dirty, commits>>
capture == <<pc, key, mstamp, rstamp, bytes, replaced>>
removal == <<rpc, rkey, gc_list>>
vars == <<config, state, answer, store, slots, accounts, frame, evicts, capture, window,
          removal>>

Faults == config.faults
Fifo == config.fifo
MaxCommits == config.commits
MaxEvicts == config.evicts

Partial == 0    \* read from a query whose rows are not all there

Init ==
    /\ config \in Configs
    /\ view = [q \in Queries |-> "None"] /\ whole = [q \in Queries |-> FALSE]
    /\ answer = [q \in Queries |-> 1]
    /\ stored = {} /\ stamp = [k \in Keys |-> 0] /\ core = [k \in Keys |-> 0]
    /\ calm = [k \in Keys |-> FALSE]
    /\ relation_slot = [r \in Relations |-> 0] /\ memo_slot = [q \in Queries |-> 0]
    /\ relation_fingerprints = [r \in Relations |-> [q \in Queries |-> 0]]
    /\ total_bytes = 0 /\ gc_pending = FALSE
    /\ phase = "none" /\ frame_relation_oids = {} /\ frame_memo_evictions = {}
    /\ frame_invalidations = {} /\ memo_active = FALSE /\ dirty = {}
    /\ commits = 0 /\ evicts = 0
    /\ pc = [w \in Workers |-> "idle"] 
    /\ key = [w \in Workers |-> CHOOSE k \in Keys : TRUE]
    /\ mstamp = [w \in Workers |-> 0]
    /\ rstamp = [w \in Workers |-> [r \in Relations |-> 0]]
    /\ bytes = [w \in Workers |-> 0] /\ window = [w \in Workers |-> "disturbed"]
    /\ replaced = [w \in Workers |-> FALSE]
    /\ rpc = [x \in Removers |-> "idle"]
    /\ rkey = [x \in Removers |-> CHOOSE k \in Keys : TRUE]
    /\ gc_list = {}

-----------------------------------------------------------------------------
(* The store.                                                                *)

slots_valid(k) == stamp[k] = memo_slot[FpOf[k]]

\* rel_incr, rel_decr: one entry more or less under every relation of q.
rel_incr(q) ==
    relation_fingerprints' = [r \in Relations |-> [relation_fingerprints[r] EXCEPT
        ![q] = IF r \in Reads[q] THEN @ + 1 ELSE @]]

rel_decr(q) ==
    relation_fingerprints' = [r \in Relations |-> [relation_fingerprints[r] EXCEPT
        ![q] = IF r \in Reads[q] /\ @ > 0 THEN @ - 1 ELSE @]]

fetch_add(n) == total_bytes' = (total_bytes + n) % Word
fetch_sub(n) == total_bytes' = (total_bytes - n) % Word

\* slot_dirty_begin then slot_dirty_end on one fingerprint.
memo_bump(Q) ==
    /\ memo_slot' = [q \in Queries |-> memo_slot[q] + (IF q \in Q THEN 2 ELSE 0)]
    /\ gc_pending' = (gc_pending \/ Q # {})

\* get misses on a stale entry: remove_if it is still stale, then give its bytes
\* and its count back.
get(x, k) ==
    /\ rpc[x] = "idle" /\ k \in stored /\ ~slots_valid(k)
    /\ rpc' = [rpc EXCEPT ![x] = "stale"] /\ rkey' = [rkey EXCEPT ![x] = k]
    /\ UNCHANGED <<state, answer, store, slots, accounts, frame, evicts, capture,
                   window, gc_list>>

remove_if(x) ==
    LET k == rkey[x]
        drop == k \in stored /\ ~slots_valid(k)
    IN  /\ rpc[x] = "stale"
        /\ stored' = IF drop THEN stored \ {k} ELSE stored
        /\ rpc' = [rpc EXCEPT ![x] = IF drop THEN "removed" ELSE "idle"]
        /\ UNCHANGED <<state, answer, stamp, core, calm, slots, accounts, frame, evicts,
                       capture, window, rkey, gc_list>>

\* Mutant: the removed entry's count is kept.
bytes_reclaim_only(x) ==
    /\ rpc[x] = "removed"
    /\ fetch_sub(SizeOf[rkey[x]])
    /\ rpc' = [rpc EXCEPT ![x] = "idle"]
    /\ UNCHANGED <<state, answer, store, slots, relation_fingerprints, frame, evicts,
                   capture, window, rkey, gc_list>>

bytes_reclaim(x) ==
    /\ rpc[x] = "removed"
    /\ fetch_sub(SizeOf[rkey[x]]) /\ rel_decr(FpOf[rkey[x]])
    /\ rpc' = [rpc EXCEPT ![x] = "idle"]
    /\ UNCHANGED <<state, answer, store, slots, frame, evicts, capture, window, rkey,
                   gc_list>>

\* The writer is between two commands.
WriterFree == gc_list = {} /\ rpc[Gc] = "idle" /\ phase \in {"none", "open"}

\* gc: list the stale entries, then remove each, stale or not by then.
gc ==
    /\ gc_pending /\ WriterFree
    /\ gc_pending' = FALSE
    /\ gc_list' = {k \in stored : ~slots_valid(k)}
    /\ UNCHANGED <<state, answer, store, relation_slot, memo_slot, accounts, frame, evicts,
                   capture, window, rpc, rkey>>

remove(k) ==
    /\ rpc[Gc] = "idle" /\ k \in gc_list
    /\ gc_list' = gc_list \ {k}
    /\ stored' = stored \ {k}
    /\ rpc' = [rpc EXCEPT ![Gc] = IF k \in stored THEN "removed" ELSE "idle"]
    /\ rkey' = [rkey EXCEPT ![Gc] = k]
    /\ UNCHANGED <<state, answer, stamp, core, calm, slots, accounts, frame, evicts,
                   capture, window>>

-----------------------------------------------------------------------------
(* Capture, on a serve worker.                                               *)

\* A hit on a Ready query that no memo answers is queued for the pool.
pool_serve(w, k) ==
    /\ k \in config.keys /\ Cardinality({v \in Workers : pc[v] # "idle"}) < config.busy
    /\ pc[w] = "idle" /\ view[FpOf[k]] = "Ready" /\ ~(k \in stored /\ slots_valid(k))
    /\ pc' = [pc EXCEPT ![w] = "queued"] /\ key' = [key EXCEPT ![w] = k]
    /\ UNCHANGED <<state, answer, store, slots, accounts, frame, evicts, mstamp, rstamp,
                   bytes, window, replaced, removal>>

\* Only a query the view still knows is captured.
memo_capture_begin(w) ==
    LET q == FpOf[key[w]] IN
    /\ pc[w] = "queued"
    /\ pc' = [pc EXCEPT ![w] = IF view[q] = "None" THEN "idle" ELSE "eligible"]
    /\ window' = [window EXCEPT ![w] = IF view[q] = "Ready" /\ phase = "none"
                                       THEN "calm" ELSE "disturbed"]
    /\ UNCHANGED <<state, answer, store, slots, accounts, frame, evicts, key, mstamp,
                   rstamp, bytes, replaced, removal>>

\* MemoCapture::begin: no capture while a slot is odd.
slots_stamp(w) ==
    LET q == FpOf[key[w]]
        even == memo_slot[q] % 2 = 0 /\ \A r \in Reads[q] : relation_slot[r] % 2 = 0
    IN  /\ pc[w] = "eligible"
        /\ pc' = [pc EXCEPT ![w] = IF even THEN "begun" ELSE "idle"]
        /\ mstamp' = [mstamp EXCEPT ![w] = IF even THEN memo_slot[q] ELSE @]
        /\ rstamp' = [rstamp EXCEPT ![w] = IF even THEN relation_slot ELSE @]
        /\ UNCHANGED <<state, answer, store, slots, accounts, frame, evicts, key, bytes,
                       window, replaced, removal>>

\* The serve query runs on the cache database.
serve_query(w) ==
    LET q == FpOf[key[w]] IN
    /\ pc[w] = "begun"
    /\ \E b \in IF whole[q] THEN {answer[q]} ELSE {answer[q], Partial} :
          bytes' = [bytes EXCEPT ![w] = b]
    /\ pc' = [pc EXCEPT ![w] = "read"]
    /\ UNCHANGED <<state, answer, store, slots, accounts, frame, evicts, key, mstamp,
                   rstamp, window, replaced, removal>>

Saturating(n) == IF n < 0 THEN 0 ELSE n
Projected(k) == Saturating(total_bytes - (IF k \in stored THEN SizeOf[k] ELSE 0)) + SizeOf[k]

\* finish: the slots are as they were stamped and the budget allows the entry.
finish(w) ==
    LET k == key[w]
        q == FpOf[k]
        valid == memo_slot[q] = mstamp[w]
                 /\ \A r \in Reads[q] : relation_slot[r] = rstamp[w][r]
    IN  /\ pc[w] = "read"
        /\ pc' = [pc EXCEPT ![w] = IF valid /\ Projected(k) % Word <= Budget
                                   THEN "checked" ELSE "idle"]
        /\ UNCHANGED <<state, answer, store, slots, accounts, frame, evicts, key, mstamp,
                       rstamp, bytes, window, replaced, removal>>

\* insert: count the entry, put it in the map, settle a replaced one, add its bytes.
insert_count(w) ==
    /\ pc[w] = "checked"
    /\ rel_incr(FpOf[key[w]])
    /\ pc' = [pc EXCEPT ![w] = "counted"]
    /\ UNCHANGED <<state, answer, store, slots, total_bytes, frame, evicts, key, mstamp,
                   rstamp, bytes, window, replaced, removal>>

insert_entry(w) ==
    LET k == key[w] IN
    /\ pc[w] = "counted"
    /\ stored' = stored \cup {k}
    /\ stamp' = [stamp EXCEPT ![k] = mstamp[w]]
    /\ core' = [core EXCEPT ![k] = bytes[w]]
    /\ calm' = [calm EXCEPT ![k] = window[w] = "calm"]
    /\ replaced' = [replaced EXCEPT ![w] = k \in stored]
    /\ pc' = [pc EXCEPT ![w] = "stored"]
    /\ UNCHANGED <<state, answer, slots, accounts, frame, evicts, key, mstamp, rstamp,
                   bytes, window, removal>>

insert_settle(w) ==
    /\ pc[w] = "stored" /\ replaced[w]
    /\ fetch_sub(SizeOf[key[w]]) /\ rel_decr(FpOf[key[w]])
    /\ replaced' = [replaced EXCEPT ![w] = FALSE]
    /\ UNCHANGED <<state, answer, store, slots, frame, evicts, pc, key, mstamp, rstamp,
                   bytes, window, removal>>

insert_add(w) ==
    /\ pc[w] = "stored" /\ ~replaced[w]
    /\ fetch_add(SizeOf[key[w]])
    /\ pc' = [pc EXCEPT ![w] = "idle"]
    /\ UNCHANGED <<state, answer, store, slots, relation_fingerprints, frame, evicts, key,
                   mstamp, rstamp, bytes, window, replaced, removal>>

\* The serve fails or its result is too large: the capture is dropped.
capture_drop(w) ==
    /\ pc[w] \in {"begun", "read"}
    /\ pc' = [pc EXCEPT ![w] = "idle"]
    /\ UNCHANGED <<state, answer, store, slots, accounts, frame, evicts, key, mstamp,
                   rstamp, bytes, window, replaced, removal>>

-----------------------------------------------------------------------------
(* The writer's commands.                                                    *)

Disturb == window' = [w \in Workers |-> IF window[w] = "crossed" THEN "crossed" ELSE "disturbed"]
\* A COMMIT that changes the results of Q.
Cross(Q) == window' = [w \in Workers |->
    IF FpOf[key[w]] \in Q /\ pc[w] \in {"begun", "read"} THEN "crossed"
    ELSE IF window[w] = "crossed" THEN "crossed" ELSE "disturbed"]

\* A registration, a readmission or a limit bump starts a population ...
state_loading_transition(q) ==
    /\ WriterFree /\ view[q] # "Loading"
    /\ view' = [view EXCEPT ![q] = "Loading"]
    /\ Disturb
    /\ UNCHANGED <<whole, answer, store, slots, accounts, frame, evicts, capture, removal>>

\* ... that ends in Ready ...
state_ready_transition(q) ==
    /\ WriterFree /\ view[q] = "Loading"
    /\ view' = [view EXCEPT ![q] = "Ready"] /\ whole' = [whole EXCEPT ![q] = TRUE]
    /\ Disturb
    /\ UNCHANGED <<answer, store, slots, accounts, frame, evicts, capture, removal>>

\* ... or fails.
query_failed_cleanup(q) ==
    /\ WriterFree /\ "cleanup" \in Faults /\ view[q] = "Loading"
    /\ view' = [view EXCEPT ![q] = "None"] /\ whole' = [whole EXCEPT ![q] = FALSE]
    /\ Disturb
    /\ UNCHANGED <<answer, store, slots, accounts, frame, evicts, capture, removal>>

Known(Q) == {q \in Q : view[q] # "None"}

\* cache_query_evict of every query of Q: the view forgets it, its memo is stale.
cache_query_evict(Q) ==
    /\ view' = [q \in Queries |-> IF q \in Q THEN "None" ELSE view[q]]
    /\ whole' = [q \in Queries |-> whole[q] /\ q \notin Q]
    /\ memo_bump(Q)

eviction_run(q) ==
    /\ WriterFree /\ view[q] # "None" /\ evicts < MaxEvicts
    /\ cache_query_evict({q})
    /\ evicts' = evicts + 1
    /\ Disturb
    /\ UNCHANGED <<answer, store, relation_slot, accounts, frame, capture, removal>>

-----------------------------------------------------------------------------
(* A CDC frame.                                                              *)

Over(R) == {q \in Queries : Reads[q] \cap R # {}}

RowDue == WriterFree /\ commits < MaxCommits

\* Mutant: only flagged queries lose their memo.
memo_frame_accumulate_flagged(r, A, F) ==
    frame_memo_evictions' = frame_memo_evictions \cup
        {q \in F : relation_fingerprints[r][q] > 0}

\* The memoized candidates of a row of r, known to the probe.
memo_frame_accumulate(r, A, F) ==
    frame_memo_evictions' = frame_memo_evictions \cup
        (IF stored = {} THEN {} ELSE {q \in Known(A) : relation_fingerprints[r][q] > 0})

\* handle_insert, handle_update, handle_delete: a row of r that changes the results
\* of A and makes the writer flag F.
handle_row(r, A, F) ==
    /\ RowDue
    /\ phase' = "open"
    /\ frame_relation_oids' = frame_relation_oids \cup {r}
    /\ dirty' = dirty \cup A
    /\ frame_invalidations' = frame_invalidations \cup F
    /\ memo_frame_accumulate(r, A, F)
    /\ Disturb
    /\ UNCHANGED <<state, answer, store, slots, accounts, memo_active, commits, evicts,
                   capture, removal>>

\* An update that could not be completed: every query that may see the row is
\* flagged; no memo is accumulated.
handle_update_toast_fallback(r, A) ==
    /\ RowDue /\ "toast" \in Faults
    /\ phase' = "open"
    /\ frame_relation_oids' = frame_relation_oids \cup {r}
    /\ dirty' = dirty \cup A
    /\ frame_invalidations' = frame_invalidations \cup Known(A)
    /\ Disturb
    /\ UNCHANGED <<state, answer, store, slots, accounts, frame_memo_evictions,
                   memo_active, commits, evicts, capture, removal>>

handle_truncate(r) ==
    /\ RowDue
    /\ phase' = "open"
    /\ frame_relation_oids' = frame_relation_oids \cup {r}
    /\ dirty' = dirty \cup Over({r})
    /\ cache_query_evict(Known(Over({r})))
    /\ Disturb
    /\ UNCHANGED <<answer, store, relation_slot, accounts, frame_memo_evictions,
                   frame_invalidations, memo_active, commits, evicts, capture, removal>>

Bump(on) ==
    /\ relation_slot' = [r \in Relations |->
          relation_slot[r] + (IF on /\ r \in frame_relation_oids THEN 1 ELSE 0)]
    /\ memo_slot' = [q \in Queries |->
          memo_slot[q] + (IF q \in frame_memo_evictions THEN 1 ELSE 0)]

\* Existing memos miss from here on.  Relations are bracketed when the store holds
\* anything.
memo_bracket_begin ==
    /\ WriterFree /\ phase = "open"
    /\ phase' = "begun"
    /\ memo_active' = (stored # {})
    /\ Bump(stored # {})
    /\ gc_pending' = (gc_pending \/ stored # {} \/ frame_memo_evictions # {})
    /\ Disturb
    /\ UNCHANGED <<state, answer, store, accounts, frame_relation_oids,
                   frame_memo_evictions, frame_invalidations, dirty, commits, evicts,
                   capture, removal>>

\* cache_query_cdc_invalidate of the flagged queries.
frame_invalidations_flush ==
    /\ phase = "begun"
    /\ phase' = "flushed"
    /\ IF Fifo
       THEN cache_query_evict(Known(frame_invalidations))
       ELSE /\ view' = [q \in Queries |-> IF q \in Known(frame_invalidations)
                                          THEN "Invalidated" ELSE view[q]]
            /\ whole' = [q \in Queries |-> whole[q] /\ q \notin frame_invalidations]
            /\ memo_bump({})
    /\ Disturb
    /\ UNCHANGED <<answer, store, relation_slot, accounts, frame_relation_oids,
                   frame_memo_evictions, frame_invalidations, memo_active, dirty, commits,
                   evicts, capture, removal>>

frame_commit ==
    /\ phase = "flushed"
    /\ phase' = "visible"
    /\ answer' = [q \in Queries |-> answer[q] + (IF q \in dirty THEN 1 ELSE 0)]
    /\ Cross(dirty)
    /\ UNCHANGED <<state, store, slots, accounts, frame_relation_oids, frame_memo_evictions,
                   frame_invalidations, memo_active, dirty, commits, evicts, capture,
                   removal>>

\* A deadlock: evict every query over the frame's relations, empty their tables.
frame_recover ==
    LET Q == Over(frame_relation_oids) IN
    /\ phase \in {"begun", "flushed"}
    /\ phase' = "visible"
    /\ cache_query_evict(Known(Q))
    /\ answer' = [q \in Queries |-> answer[q] + (IF q \in Q THEN 1 ELSE 0)]
    /\ Cross(Q)
    /\ UNCHANGED <<store, relation_slot, accounts, frame_relation_oids,
                   frame_memo_evictions, frame_invalidations, memo_active, dirty, commits,
                   evicts, capture, removal>>

\* Mutant: the store is looked at again.
memo_bracket_end_reread ==
    /\ phase = "visible"
    /\ Bump(stored # {})
    /\ phase' = "none" /\ frame_relation_oids' = {} /\ frame_memo_evictions' = {}
    /\ frame_invalidations' = {} /\ dirty' = {} /\ commits' = commits + 1
    /\ Disturb
    /\ UNCHANGED <<state, answer, store, gc_pending, accounts, memo_active, evicts,
                   capture, removal>>

\* memo_bracket_end and batch_state_reset.
memo_bracket_end ==
    /\ phase = "visible"
    /\ Bump(memo_active)
    /\ phase' = "none" /\ frame_relation_oids' = {} /\ frame_memo_evictions' = {}
    /\ frame_invalidations' = {} /\ dirty' = {} /\ commits' = commits + 1
    /\ Disturb
    /\ UNCHANGED <<state, answer, store, gc_pending, accounts, memo_active, evicts,
                   capture, removal>>

-----------------------------------------------------------------------------
WorkerStep(w) ==
    \/ \E k \in Keys : pool_serve(w, k)
    \/ memo_capture_begin(w) \/ slots_stamp(w) \/ serve_query(w) \/ finish(w) \/ insert_count(w)
    \/ insert_entry(w) \/ insert_settle(w) \/ insert_add(w) \/ capture_drop(w)

ReaderStep(x) == (\E k \in Keys : get(x, k)) \/ remove_if(x)

GcStep == gc \/ (\E k \in Keys : remove(k)) \/ bytes_reclaim(Gc)

QueryStep(q) ==
    \/ state_loading_transition(q) \/ state_ready_transition(q)
    \/ query_failed_cleanup(q) \/ eviction_run(q)

RowStep(r) ==
    \/ \E A, F \in SUBSET Over({r}) : A # {} /\ F \subseteq Known(A) /\ handle_row(r, A, F)
    \/ \E A \in SUBSET Over({r}) : A # {} /\ handle_update_toast_fallback(r, A)
    \/ handle_truncate(r)

FlushStep ==
    \/ memo_bracket_begin \/ frame_invalidations_flush \/ frame_commit \/ frame_recover
    \/ memo_bracket_end

Next ==
    \/ \E w \in Workers : WorkerStep(w)
    \/ \E x \in Readers : ReaderStep(x) \/ bytes_reclaim(x)
    \/ GcStep
    \/ \E q \in Queries : QueryStep(q)
    \/ \E r \in config.rels : RowStep(r)
    \/ FlushStep

Spec == Init /\ [][Next /\ UNCHANGED config]_vars

-----------------------------------------------------------------------------
(* Properties.                                                               *)

\* Every variable has its type.
TypeOK ==
    /\ view \in [Queries -> {"None", "Loading", "Ready", "Invalidated"}]
    /\ whole \in [Queries -> BOOLEAN] /\ answer \in [Queries -> Nat]
    /\ stored \subseteq Keys /\ stamp \in [Keys -> Nat] /\ core \in [Keys -> Nat]
    /\ calm \in [Keys -> BOOLEAN]
    /\ relation_slot \in [Relations -> Nat] /\ memo_slot \in [Queries -> Nat]
    /\ relation_fingerprints \in [Relations -> [Queries -> Nat]]
    /\ total_bytes \in 0..(Word - 1) /\ gc_pending \in BOOLEAN
    /\ phase \in {"none", "open", "begun", "flushed", "visible"}
    /\ frame_relation_oids \subseteq Relations /\ frame_memo_evictions \subseteq Queries
    /\ frame_invalidations \subseteq Queries /\ dirty \subseteq Queries
    /\ memo_active \in BOOLEAN /\ commits \in 0..MaxCommits /\ evicts \in 0..MaxEvicts
    /\ pc \in [Workers -> {"idle", "queued", "eligible", "begun", "read", "checked", "counted", "stored"}]
    /\ key \in [Workers -> Keys] /\ mstamp \in [Workers -> Nat]
    /\ rstamp \in [Workers -> [Relations -> Nat]] /\ bytes \in [Workers -> Nat]
    /\ window \in [Workers -> {"calm", "disturbed", "crossed"}] /\ replaced \in [Workers -> BOOLEAN]
    /\ rpc \in [Removers -> {"idle", "stale", "removed"}] /\ rkey \in [Removers -> Keys]
    /\ gc_list \subseteq Keys

\* No slot is left odd: outside a flush every slot version is even, so memos of no
\* relation are disabled for good (memo_bracket_begin, memo_bracket_end, eviction).
SlotsEvenAtRest ==
    phase \in {"none", "open"} =>
        /\ \A r \in Relations : relation_slot[r] % 2 = 0
        /\ \A q \in Queries : memo_slot[q] % 2 = 0

\* The count under (r, q) is exactly the entries in the map, the one an insert has
\* counted and not stored yet, and those removed or replaced and not counted off
\* yet: the CDC probe never misses an entry that is in the map.
MembershipExact ==
    \A q \in Queries : \A r \in Reads[q] :
        relation_fingerprints[r][q] =
            Cardinality({k \in stored : FpOf[k] = q})
            + Cardinality({w \in Workers : FpOf[key[w]] = q /\
                               (pc[w] = "counted" \/ (pc[w] = "stored" /\ replaced[w]))})
            + Cardinality({x \in Removers : FpOf[rkey[x]] = q /\ rpc[x] = "removed"})

\* total_bytes is the bytes in the map but for the additions and subtractions under
\* way: concurrent inserts, lazy evictions and sweeps leak nothing.
BytesExact ==
    total_bytes =
        (MapThenSumSet(LAMBDA k : SizeOf[k], stored)
         - MapThenSumSet(LAMBDA w : SizeOf[key[w]], {w \in Workers : pc[w] = "stored"})
         + MapThenSumSet(LAMBDA w : SizeOf[key[w]], {w \in Workers : pc[w] = "stored" /\ replaced[w]})
         + MapThenSumSet(LAMBDA x : SizeOf[rkey[x]], {x \in Removers : rpc[x] = "removed"}))
        % Word

\* The store's books are exact under any overlap of inserts, lazy removals and
\* the writer's sweep.
RegistryExact == TypeOK /\ MembershipExact /\ BytesExact

\* A result captured from a Ready query with no writer step during the capture is
\* served only while the database still gives it, through commits, deadlock
\* recoveries, invalidations, evictions and later registrations.  Stated without
\* failed populations, and with unrepaired updates only under Fifo: elsewhere
\* both leave the memo's version alone.
UndisturbedCurrent ==
    "cleanup" \notin Faults /\ (Fifo \/ "toast" \notin Faults) => \A k \in stored : view[FpOf[k]] = "Ready" /\ slots_valid(k) /\ calm[k] =>
        core[k] = answer[FpOf[k]]

=============================================================================
