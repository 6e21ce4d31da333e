---------------------------- MODULE MvLifecycle ----------------------------
(***************************************************************************)
(* Materialised results (cache/mv.rs, writer/mv.rs, writer/mv_build.rs,    *)
(* fast_path.rs): the MV state of each cached query, the writer's build    *)
(* dispatch and completion, the build tasks on their own connections, CDC  *)
(* dirty-marking through the frame, and the hits that read the MV table    *)
(* some time after they were decided.                                      *)
(*                                                                         *)
(* A result is a version number: what the query computes over the          *)
(* committed cache tables.  Time is relative: the age of a Fresh MV, up to *)
(* the payoff window, and what is left of a cooldown.                      *)
(***************************************************************************)
EXTENDS Integers, Sequences, FiniteSets

CONSTANTS Queries,
          Scenarios,              \* [queries, churn, faults, pressure]: the queries registered, whether they
                                  \*  come and go, whether builds fail, whether the disk is full
          Pinned,                 \* queries kept warm by the writer
          Invalidating,           \* queries a change may invalidate; the others are maintained in place
          Sizes,                  \* [source, result] row counts the gate may find
          MV_BUILD_CONNECTIONS, FRAME_ROWS_CAPACITY,
          MV_PAYOFF_WINDOW, MV_BACKOFF_BASE, MV_BACKOFF_CAP,
          MaxWasted,              \* where the u32 counter of wasted builds saturates
          mv_compute_min_rows, mv_size_ratio,
          Unplannable,            \* queries whose ORDER BY the MV cannot express
          MaxVersion,             \* bound: results a query goes through
          MaxFrameRows,           \* bound: row events of a frame
          MaxCommands             \* bound: commands waiting in a channel
ASSUME MvAssumption ==
    /\ IsFiniteSet(Queries) /\ Pinned \subseteq Queries /\ Invalidating \subseteq Queries
    /\ MV_BUILD_CONNECTIONS \in Nat \ {0} /\ FRAME_ROWS_CAPACITY \in Nat \ {0}
    /\ MV_PAYOFF_WINDOW \in Nat /\ MaxVersion \in Nat \ {0} /\ MaxFrameRows \in Nat

VARIABLES
    scenario,
    view,        \* query -> [state, mv]: the state_view entry; state "absent" when there is none
    version,     \* query -> its result over the committed cache tables
    frame,       \* the events buffered since the last replay: [q, invalidates]
    replayed,    \* queries changed by the replayed part of the open frame
    flagged,     \* queries the open frame is to invalidate
    table,       \* query -> the MV table: 0 for none, -1 when truncated, else the result it holds
    tasks,       \* build tasks
    idle,        \* the pool's slots: "none" or "open" connection -> how many
    inflight,    \* mv_builds_inflight
    dispatched, internal,    \* the two command channels of the writer
    reads,       \* hits decided on the MV and not yet run: [q, since]
    lost         \* queries whose MV table the code has lost track of
vars == <<scenario, view, version, frame, replayed, flagged, table, tasks, idle, inflight, dispatched, internal, reads, lost>>
writerVars == <<scenario, frame, replayed, flagged, inflight>>

NoTable == 0
Truncated == -1
Never == -1

Least(S) == CHOOSE n \in S : \A m \in S : n <= m
AnyOrder(S) == CHOOSE s \in [1..Cardinality(S) -> S] : \A i, j \in DOMAIN s : s[i] = s[j] => i = j

--------------------------------------------------------------------------
(* MvState and MvMeta.                                                     *)

State(s, t) == [s |-> s, table |-> t]
Fresh == State("Fresh", TRUE)
Ineligible == State("Ineligible", FALSE)
InFlightState(st) == st.s \in {"Building", "BuildingDirty"}

mv_state_initial == State("Pending", FALSE)
NewMeta == [st |-> mv_state_initial, plan |-> FALSE, fresh |-> Never, wasted |-> 0, retry |-> 0]
Absent == [state |-> "absent", mv |-> NewMeta]

dirtied(st) ==
    CASE st.s = "Fresh" -> <<State("Pending", TRUE)>>
      [] st.s = "Building" -> <<State("BuildingDirty", st.table)>>
      [] OTHER -> <<>>

backoff_duration(wasted) ==
    IF wasted < 2 THEN 0 ELSE Least({MV_BACKOFF_BASE * 2^Least({wasted - 2, 9}), MV_BACKOFF_CAP})
build_permitted(mv) == mv.retry = 0
waste_record(mv) ==
    LET w == Least({mv.wasted + 1, MaxWasted}) IN [mv EXCEPT !.wasted = w, !.retry = backoff_duration(w)]

(* A Fresh MV that outlived the payoff window clears the waste; a younger  *)
(* one is a wasted build.  The waste of a build in flight is counted when  *)
(* it completes.                                                           *)
dirty_apply(mv) ==
    LET judged == IF mv.st # Fresh THEN mv
                  ELSE [(IF mv.fresh = MV_PAYOFF_WINDOW THEN [mv EXCEPT !.wasted = 0, !.retry = 0]
                         ELSE waste_record(mv)) EXCEPT !.fresh = Never]
    IN  IF dirtied(mv.st) = <<>> THEN mv ELSE [judged EXCEPT !.st = dirtied(mv.st)[1]]

mv_state_write(q, st) == [view EXCEPT ![q].mv.st = st]

(* A slip: a build in flight is not told of the change.                    *)
mv_dirty_mark_fresh(v, qs) ==
    [q \in Queries |-> IF q \in qs /\ v[q].mv.st = Fresh THEN [v[q] EXCEPT !.mv = dirty_apply(@)] ELSE v[q]]
mv_dirty_mark(v, qs) ==
    [q \in Queries |-> IF q \in qs THEN [v[q] EXCEPT !.mv = dirty_apply(@)] ELSE v[q]]

--------------------------------------------------------------------------
(* The cached query around its MV: registration, population, limit bumps,  *)
(* readmission and eviction.                                               *)

Ready(v, q) == v[q].state = "Ready"
FrameIdle == frame = <<>> /\ replayed = {} /\ flagged = {}
CommandBuild(q) == [c |-> "MvBuild", q |-> q, o |-> "", first |-> FALSE, table |-> FALSE]
CommandReadmit(q) == [CommandBuild(q) EXCEPT !.c = "Readmit"]
mv_context_snapshot(q) == view[q].mv.st.s = "Scheduled" /\ Ready(view, q)

query_register(q) ==
    /\ view[q].state = "absent" /\ q \in scenario.queries
    /\ view' = [view EXCEPT ![q] = [state |-> "Loading", mv |-> NewMeta]]
    /\ UNCHANGED <<version, table, tasks, idle, dispatched, internal, reads, lost, writerVars>>

mv_pinned_bootstrap(v, q) ==
    IF q \in Pinned /\ v[q].mv.st.s = "Pending" /\ build_permitted(v[q].mv)
    THEN /\ view' = [v EXCEPT ![q].mv.st.s = "Scheduled"]
         /\ internal' = Append(internal, CommandBuild(q))
    ELSE view' = v /\ UNCHANGED internal

(* The merge of a population, between frames: the rows it brings make the  *)
(* query's result now.                                                     *)
query_ready_finalize(q) ==
    /\ view[q].state = "Loading" /\ FrameIdle /\ Len(internal) < MaxCommands
    /\ version' \in {version, [version EXCEPT ![q] = @ + 1]} /\ version'[q] <= MaxVersion
    /\ mv_pinned_bootstrap([view EXCEPT ![q].state = "Ready"], q)
    /\ UNCHANGED <<table, tasks, idle, dispatched, reads, lost, writerVars>>

(* The failed population takes the entry with it, and leaves any MV table. *)
query_failed_cleanup(q) ==
    /\ scenario.churn /\ view[q].state = "Loading"
    /\ view' = [view EXCEPT ![q] = Absent]
    /\ lost' = IF view[q].mv.st.table /\ q \notin inflight THEN lost \cup {q} ELSE lost
    /\ UNCHANGED <<version, table, tasks, idle, dispatched, internal, reads, writerVars>>

limit_bump_handle(q) ==
    /\ scenario.churn /\ Ready(view, q)
    /\ view' = [mv_dirty_mark(view, {q}) EXCEPT ![q].state = "Loading"]
    /\ UNCHANGED <<version, table, tasks, idle, dispatched, internal, reads, lost, writerVars>>
query_readmit(q) == view' = IF view[q].state = "absent" THEN view ELSE [view EXCEPT ![q].state = "Loading"]
register_invalidated(q) ==
    /\ view[q].state = "Invalidated"
    /\ query_readmit(q)
    /\ UNCHANGED <<version, table, tasks, idle, dispatched, internal, reads, lost, writerVars>>

(* A slip: the table is dropped under a build.                             *)
mv_drop_building(q, st, tbl) == IF st.table THEN [tbl EXCEPT ![q] = NoTable] ELSE tbl
(* A build in flight holds the table's lock: its completion drops it.      *)
mv_drop(q, st, tbl) == IF ~InFlightState(st) /\ st.table THEN [tbl EXCEPT ![q] = NoTable] ELSE tbl
cache_query_evict(q) ==
    /\ scenario.churn /\ view[q].state # "absent"
    /\ table' = mv_drop(q, view[q].mv.st, table)
    /\ view' = [view EXCEPT ![q] = Absent]
    /\ UNCHANGED <<version, tasks, idle, dispatched, internal, reads, lost, writerVars>>

--------------------------------------------------------------------------
(* The frame.  Row events are buffered and replayed when the batch is      *)
(* flushed, or earlier when the buffer is full; the writes show when the   *)
(* frame commits.  A query flagged for invalidation is no longer matched.  *)

Events == {[q |-> q, invalidates |-> i] : q \in Queries, i \in BOOLEAN}
Replay(events) ==
    LET marked == {events[i].q : i \in {j \in DOMAIN events : events[j].invalidates}} \cup flagged
        kept == {events[i].q : i \in {j \in DOMAIN events : ~events[j].invalidates}} \ marked
    IN  [flagged |-> marked, changed |-> kept, view |-> mv_dirty_mark(view, kept)]
Inserted(e, events) ==
    /\ view[e.q].state # "absent" /\ (e.invalidates => e.q \in Invalidating)
    /\ Len(events) + Cardinality(replayed \cup flagged) <= MaxFrameRows
    /\ version[e.q] < MaxVersion

(* A row event is buffered; a full buffer is replayed mid-frame.           *)
row_event(e) ==
    LET events == Append(frame, e)
        r == Replay(events)
    IN  /\ Inserted(e, events)
        /\ IF Len(events) >= FRAME_ROWS_CAPACITY
           THEN frame' = <<>> /\ view' = r.view /\ flagged' = r.flagged /\ replayed' = replayed \cup r.changed
           ELSE frame' = events /\ UNCHANGED <<view, flagged, replayed>>
        /\ UNCHANGED <<scenario, version, table, tasks, idle, inflight, dispatched, internal, reads, lost>>

(* Invalidation: the state and the MV mark change together; a pinned query *)
(* is queued for readmission instead.                                      *)
query_invalidated_mark(v, qs) ==
    LET dirty == mv_dirty_mark(v, qs)
    IN  [q \in Queries |-> IF q \in qs /\ v[q].state # "absent" THEN [dirty[q] EXCEPT !.state = "Invalidated"] ELSE v[q]]
batch_flush ==
    LET r == Replay(frame)
    IN  /\ frame # <<>> \/ replayed # {} \/ flagged # {}
        /\ view' = query_invalidated_mark(r.view, r.flagged \ Pinned)
        /\ version' = [q \in Queries |-> IF q \in replayed \cup r.changed THEN version[q] + 1 ELSE version[q]]
        /\ internal' = internal \o AnyOrder({CommandReadmit(q) : q \in r.flagged \cap Pinned})
        /\ frame' = <<>> /\ replayed' = {} /\ flagged' = {}
        /\ UNCHANGED <<scenario, table, tasks, idle, inflight, dispatched, reads, lost>>

--------------------------------------------------------------------------
(* Hits.                                                                   *)

(* A Fresh MV with its plan is read; a Pending one is scheduled, unless it *)
(* is cooling down, and the hit is served from source rows.                *)
mv_serve_decide(q) ==
    /\ Ready(view, q)
    /\ view[q].mv.st = Fresh /\ view[q].mv.plan
    /\ reads' = reads \cup {[q |-> q, since |-> version[q]]}
    /\ UNCHANGED <<view, version, table, tasks, idle, dispatched, internal, lost, writerVars>>
mv_schedule(q) ==
    /\ Ready(view, q) /\ Len(dispatched) < MaxCommands
    /\ view[q].mv.st.s = "Pending" /\ build_permitted(view[q].mv)
    /\ view' = [view EXCEPT ![q].mv.st.s = "Scheduled"]
    /\ dispatched' = Append(dispatched, CommandBuild(q))
    /\ UNCHANGED <<version, table, tasks, idle, internal, reads, lost, writerVars>>

(* The serve runs later; with the table gone it falls back to the origin.  *)
serve_query_send(r) ==
    /\ reads' = reads \ {r}
    /\ UNCHANGED <<view, version, table, tasks, idle, dispatched, internal, lost, writerVars>>

--------------------------------------------------------------------------
(* Builds.  A task takes a slot, connects, measures and describes on a     *)
(* first build, and runs its batch under the table's lock.                 *)

Task(q, has_table, known) ==
    [id |-> Least((1 .. Cardinality(tasks) + 1) \ {t.id : t \in tasks}), q |-> q, has_table |-> has_table,
     known |-> known, step |-> "slot", slot |-> "", rows |-> 0]

(* A slip: a second build of the same table is started.                    *)
mv_build_dispatch_twice(q, flight) ==
    IF ~mv_context_snapshot(q) THEN [view |-> view, flight |-> flight, tasks |-> tasks]
    ELSE [view |-> [view EXCEPT ![q].mv.st.s = "Building"], flight |-> flight \cup {q},
          tasks |-> tasks \cup {Task(q, view[q].mv.st.table, view[q].mv.plan)}]
(* One build per fingerprint: a second one waits, Scheduled, for the first *)
(* to complete.  An entry that is not Ready is left as it is.              *)
mv_build_dispatch(q, flight) ==
    IF q \in flight \/ ~mv_context_snapshot(q) THEN [view |-> view, flight |-> flight, tasks |-> tasks]
    ELSE [view |-> [view EXCEPT ![q].mv.st.s = "Building"], flight |-> flight \cup {q},
          tasks |-> tasks \cup {Task(q, view[q].mv.st.table, view[q].mv.plan)}]

Complete(t, o) == [c |-> "MvBuildComplete", q |-> t.q, o |-> o, first |-> ~t.has_table, table |-> t.has_table]

(* The outcome of a build, for the entry that started it: dropped when the *)
(* entry is no longer Ready, and Fresh unless a change raced the build.    *)
Dropped(q, st) == [view |-> mv_state_write(q, st), table |-> [table EXCEPT ![q] = NoTable]]
Freshened(q) ==
    [view |-> [view EXCEPT ![q].mv = [@ EXCEPT !.st = Fresh, !.plan = TRUE, !.fresh = 0]], table |-> table]
Wasted(q, has_table) ==
    [view |-> [view EXCEPT ![q].mv = [waste_record(@) EXCEPT !.st = State("Pending", has_table)]], table |-> table]
(* A slip: the change that raced the build is forgotten.                   *)
BuiltApply_raced(q, cmd) ==
    IF cmd.first /\ ~Ready(view, q) THEN Dropped(q, State("Pending", FALSE))
    ELSE IF q \in Unplannable THEN Dropped(q, Ineligible) ELSE Freshened(q)
BuiltApply(q, cmd) ==
    IF cmd.first /\ ~Ready(view, q) THEN Dropped(q, State("Pending", FALSE))
    ELSE IF view[q].mv.st.s = "BuildingDirty" THEN Wasted(q, TRUE)
    ELSE IF q \in Unplannable THEN Dropped(q, Ineligible) ELSE Freshened(q)
mv_build_outcome_apply(q, cmd) ==
    CASE cmd.o = "Built" -> BuiltApply(q, cmd)
      [] cmd.o = "Ineligible" -> [view |-> mv_state_write(q, Ineligible), table |-> table]
      [] cmd.o = "Failed" -> Wasted(q, cmd.table)

(* A slip: the table of an entry evicted during its build is forgotten.    *)
mv_table_drop_present(q, cmd) ==
    IF cmd.o = "Built" /\ view[q].state # "absent" THEN [table EXCEPT ![q] = NoTable] ELSE table
(* What is left of a build whose entry is gone, or is another by now.      *)
mv_table_drop(q, cmd) ==
    IF cmd.o = "Built" \/ (cmd.o = "Failed" /\ cmd.table) THEN [table EXCEPT ![q] = NoTable] ELSE table
mv_build_complete(cmd) ==
    LET q == cmd.q
        flight == inflight \ {q}
        st == view[q].mv.st
        present == view[q].state # "absent"
        owned == present /\ InFlightState(st)
        again == IF present /\ st.s = "Scheduled" THEN mv_build_dispatch(q, flight)
                 ELSE [view |-> view, flight |-> flight, tasks |-> tasks]
        applied == mv_build_outcome_apply(q, cmd)
    IN  /\ view' = IF owned THEN applied.view ELSE again.view
        /\ table' = IF owned THEN applied.table ELSE mv_table_drop(q, cmd)
        /\ inflight' = again.flight
        /\ tasks' = again.tasks

query_command_handle(cmd) ==
    \/ /\ cmd.c = "MvBuild"
       /\ LET d == mv_build_dispatch(cmd.q, inflight)
          IN  view' = d.view /\ inflight' = d.flight /\ tasks' = d.tasks
       /\ UNCHANGED table
    \/ cmd.c = "MvBuildComplete" /\ mv_build_complete(cmd)
    \/ cmd.c = "Readmit" /\ query_readmit(cmd.q) /\ UNCHANGED <<table, inflight, tasks>>
query_command_received ==
    \/ /\ dispatched # <<>> /\ query_command_handle(Head(dispatched)) /\ dispatched' = Tail(dispatched)
       /\ UNCHANGED <<scenario, internal, version, frame, replayed, flagged, idle, reads, lost>>
    \/ /\ internal # <<>> /\ query_command_handle(Head(internal)) /\ internal' = Tail(internal)
       /\ UNCHANGED <<scenario, dispatched, version, frame, replayed, flagged, idle, reads, lost>>

(* The steps of a build task.  Its guards give the slot back and report on *)
(* every way out.                                                          *)
buildVars == <<scenario, view, version, frame, replayed, flagged, inflight, dispatched, reads>>
Step(t, next) == tasks' = (tasks \ {t}) \cup {next}
(* A slip: the slot of a failed build is not given back.                   *)
slot_drop_failed(t, o, slot) ==
    idle' = IF t.slot = "" \/ slot = "none" THEN idle ELSE [idle EXCEPT ![slot] = @ + 1]
slot_drop(t, o, slot) == idle' = IF t.slot = "" THEN idle ELSE [idle EXCEPT ![slot] = @ + 1]
Finish(t, o, slot) ==
    /\ tasks' = tasks \ {t}
    /\ slot_drop(t, o, slot)
    /\ internal' = Append(internal, Complete(t, o))

slot_acquire(t) ==
    /\ t.step = "slot"
    /\ \E slot \in {s \in DOMAIN idle : idle[s] > 0} :
          /\ idle' = [idle EXCEPT ![slot] = @ - 1]
          /\ Step(t, [t EXCEPT !.slot = slot, !.step = "connect"])
    /\ UNCHANGED <<table, internal, lost, buildVars>>
mv_build_run(t) ==
    /\ t.step = "connect"
    /\ \/ Step(t, [t EXCEPT !.slot = "open", !.step = "prepare"]) /\ UNCHANGED <<idle, internal>>
       \/ scenario.faults /\ Finish(t, "Failed", "none")
    /\ UNCHANGED <<table, lost, buildVars>>

(* Compute avoidance or row reduction, before a first build only.          *)
mv_gate_passes(size) == size.source >= mv_compute_min_rows \/ size.result * mv_size_ratio <= size.source
mv_build_prepare(t) ==
    /\ t.step = "prepare"
    /\ \/ /\ t.has_table \/ \E size \in Sizes : mv_gate_passes(size)
          /\ Step(t, [t EXCEPT !.step = "batch"]) /\ UNCHANGED <<idle, internal>>
       \/ ~t.has_table /\ (\E size \in Sizes : ~mv_gate_passes(size)) /\ Finish(t, "Ineligible", "open")
       \/ scenario.faults /\ ~(t.has_table /\ t.known) /\ Finish(t, "Failed", "open")
    /\ UNCHANGED <<table, lost, buildVars>>

(* CREATE TABLE AS, or DELETE and INSERT in a transaction: the rows are    *)
(* those committed when the statement starts.  CREATE over a table that is *)
(* there fails, and the cleanup drops it.                                  *)
mv_build_batch(t) ==
    /\ t.step = "batch"
    /\ IF t.has_table <=> table[t.q] # NoTable
       THEN /\ Step(t, [t EXCEPT !.step = "running", !.rows = version[t.q]])
            /\ UNCHANGED <<table, idle, internal, lost>>
       ELSE /\ Finish(t, "Failed", "open")
            /\ table' = [table EXCEPT ![t.q] = NoTable]
            /\ lost' = lost \ {t.q}
    /\ UNCHANGED buildVars
Stored(t) == [table EXCEPT ![t.q] = t.rows]
mv_build_execute(t) ==
    /\ t.step = "running"
    /\ \/ Finish(t, "Built", "open") /\ table' = Stored(t) /\ UNCHANGED lost
       \/ scenario.faults /\ Finish(t, "Failed", "open") /\ UNCHANGED <<table, lost>>
       \/ /\ scenario.faults /\ Finish(t, "Failed", "none")
          /\ table' = Stored(t) /\ lost' = IF t.has_table THEN lost ELSE lost \cup {t.q}
    /\ UNCHANGED buildVars
build_panic(t) ==
    /\ scenario.faults /\ Finish(t, "Failed", "none")
    /\ UNCHANGED <<table, lost, buildVars>>

--------------------------------------------------------------------------
(* Time, and the eviction sweep that empties the tables of stale MVs.      *)

Tick ==
    /\ view' = [q \in Queries |->
                  [view[q] EXCEPT !.mv.fresh = IF @ \in 0 .. MV_PAYOFF_WINDOW - 1 THEN @ + 1 ELSE @,
                                  !.mv.retry = IF @ > 0 THEN @ - 1 ELSE @]]
    /\ view' # view
    /\ UNCHANGED <<version, table, tasks, idle, dispatched, internal, reads, lost, writerVars>>
mv_dirty_sweep ==
    /\ scenario.pressure /\ replayed = {}
    /\ table' = [q \in Queries |->
                   IF view[q].mv.st = State("Pending", TRUE) /\ table[q] # NoTable THEN Truncated ELSE table[q]]
    /\ table' # table
    /\ UNCHANGED <<view, version, tasks, idle, dispatched, internal, reads, lost, writerVars>>

Init ==
    /\ scenario \in Scenarios
    /\ view = [q \in Queries |-> Absent]
    /\ version = [q \in Queries |-> 1]
    /\ frame = <<>> /\ replayed = {} /\ flagged = {}
    /\ table = [q \in Queries |-> NoTable]
    /\ tasks = {} /\ idle = [none |-> MV_BUILD_CONNECTIONS, open |-> 0]
    /\ inflight = {} /\ dispatched = <<>> /\ internal = <<>>
    /\ reads = {} /\ lost = {}

Register == \E q \in Queries : query_register(q)
Populated == \E q \in Queries : query_ready_finalize(q)
PopulationFailed == \E q \in Queries : query_failed_cleanup(q)
LimitBump == \E q \in Queries : limit_bump_handle(q)
Readmit == \E q \in Queries : register_invalidated(q)
Evict == \E q \in Queries : cache_query_evict(q)
RowEvent == \E e \in Events : row_event(e)
HitMv == \E q \in Queries : mv_serve_decide(q)
HitSchedules == \E q \in Queries : mv_schedule(q)
Serve == \E r \in reads : serve_query_send(r)
BuildStep ==
    \E t \in tasks : slot_acquire(t) \/ mv_build_run(t) \/ mv_build_prepare(t) \/ mv_build_batch(t) \/ mv_build_execute(t)
BuildPanics == \E t \in tasks : build_panic(t)
Next ==
    \/ Register \/ Populated \/ PopulationFailed \/ LimitBump \/ Readmit \/ Evict
    \/ RowEvent \/ batch_flush \/ HitMv \/ HitSchedules \/ Serve
    \/ query_command_received \/ BuildStep \/ BuildPanics \/ Tick \/ mv_dirty_sweep
Spec == Init /\ [][Next]_vars

(* Every task runs on, and the lock in front of the free slots is handed   *)
(* out in the order it was asked for: no task is passed over for ever.     *)
Acquire(q) == \E t \in tasks : t.q = q /\ slot_acquire(t)
FairSpec == Spec /\ WF_vars(BuildStep) /\ \A q \in Queries : SF_vars(Acquire(q))

--------------------------------------------------------------------------
MvStates ==
    [s : {"Pending", "Scheduled", "Building", "BuildingDirty"}, table : BOOLEAN] \cup {Fresh, Ineligible}
States == {"absent", "Loading", "Ready", "Invalidated"}
TypeOK ==
    /\ \A q \in Queries : /\ view[q].state \in States /\ view[q].mv.st \in MvStates
                           /\ view[q].mv.st = Fresh <=> view[q].mv.fresh # Never
    /\ version \in [Queries -> 1 .. MaxVersion]
    /\ table \in [Queries -> {NoTable, Truncated} \cup 1 .. MaxVersion]

(* Fresh means current: the MV layer implements MaterialisedResult, with   *)
(* the table of a Fresh MV of a ready query as what is offered.            *)
Abstract ==
    INSTANCE MaterialisedResult
    WITH Results <- 1 .. MaxVersion, NotOffered <- NoTable, current <- version,
         offered <- [q \in Queries |-> IF Ready(view, q) /\ view[q].mv.st = Fresh THEN table[q] ELSE NoTable]
FreshIsCurrent == Abstract!Spec

(* A read of an MV decided while it was Fresh returns a result the query   *)
(* had since then: never rows older than the decision.                     *)
ReadsSeeResults ==
    [][\A r \in reads \ reads' : table[r.q] \in {NoTable, Truncated} \/ table[r.q] >= r.since]_vars
(* Nor does it find the table emptied: what the sweep takes are "rows that *)
(* will never be served".                                                  *)
ReadsSeeRows == [][\A r \in reads \ reads' : table[r.q] # Truncated]_vars

(* Every MV table is one an entry, or a build in flight, will account for, *)
(* and an entry that counts on a table has it.                             *)
Building(q) == q \in inflight
Accounted(q) ==
    /\ table[q] # NoTable => view[q].mv.st.table \/ Building(q)
    /\ view[q].mv.st.table /\ ~Building(q) => table[q] # NoTable
TablesAccounted == TypeOK /\ \A q \in Queries \ lost : Accounted(q)

(* A query has one build at a time, and every slot of the pool is free or  *)
(* held by a build, on every way a build can end (mv_builds_inflight, the  *)
(* guards of mv_build_task).                                               *)
SlotsKept == idle.none + idle.open + Cardinality({t \in tasks : t.slot # ""}) = MV_BUILD_CONNECTIONS
OneBuilder == SlotsKept /\ \A q \in Queries : Cardinality({t \in tasks : t.q = q}) <= 1

(* The writer never touches a table while a build runs its batch on it: it *)
(* would wait for the build's lock, and CDC with it.                       *)
Locked(q) == \E t \in tasks : t.q = q /\ t.step = "running"
WriterNeverWaits == [][\A q \in Queries : Locked(q) /\ Locked(q)' => table'[q] = table[q]]_vars

(* An entry is Scheduled only while its build command is on its way, or a  *)
(* build in flight will dispatch it when it completes.                     *)
ScheduledIsQueued ==
    \A q \in Queries : view[q].mv.st.s = "Scheduled" =>
        \/ Building(q)
        \/ \E i \in DOMAIN dispatched : dispatched[i] = CommandBuild(q)
        \/ \E i \in DOMAIN internal : internal[i] = CommandBuild(q)

(* Every build task comes to an end and gives its slot back, whatever the  *)
(* entry it works for goes through meanwhile.                              *)
BuildsEnd == \A q \in Queries : (\E t \in tasks : t.q = q) ~> (\A t \in tasks : t.q # q)

-----------------------------------------------------------------------------
(* The inductive invariant behind TablesAccounted, OneBuilder and          *)
(* WriterNeverWaits.                                                       *)

\* The fields of the state_view entries, and what TypeOK says of their values.
ViewOK(v) ==
    /\ v = [q \in Queries |-> v[q]]
    /\ \A q \in Queries :
          /\ DOMAIN v[q] = {"state", "mv"}
          /\ DOMAIN v[q].mv = {"st", "plan", "fresh", "wasted", "retry"}
          /\ v[q].state \in States /\ v[q].mv.st \in MvStates
          /\ v[q].mv.st = Fresh <=> v[q].mv.fresh # Never

\* What the channels carry; only the writer's own one brings completions.
Builds == {CommandBuild(q) : q \in Queries}
Command == [c : {"MvBuild", "MvBuildComplete", "Readmit"}, q : Queries,
            o : {"", "Built", "Ineligible", "Failed"}, first : BOOLEAN, table : BOOLEAN]
ChannelsOK == dispatched \in Seq(Builds) /\ internal \in Seq(Command)

\* A change on its way in the frame finds its query below the bound.
FrameOK ==
    /\ frame \in Seq(Events) /\ replayed \subseteq Queries /\ flagged \subseteq Queries
    /\ version \in [Queries -> 1 .. MaxVersion]
    /\ table \in [Queries -> {NoTable, Truncated} \cup 1 .. MaxVersion]
    /\ \A i \in DOMAIN frame : version[frame[i].q] < MaxVersion
    /\ \A q \in replayed : version[q] < MaxVersion

Steps == {"slot", "connect", "prepare", "batch", "running"}
TaskOK(t) ==
    /\ DOMAIN t = {"id", "q", "has_table", "known", "step", "slot", "rows"}
    /\ t.q \in Queries /\ t.has_table \in BOOLEAN /\ t.step \in Steps
    /\ t.slot \in {"", "none", "open"} /\ (t.slot = "" <=> t.step = "slot")
    /\ t.rows \in 0 .. MaxVersion /\ (t.step = "running" => t.rows # 0)
TasksOK ==
    /\ IsFiniteSet(tasks) /\ \A t \in tasks : TaskOK(t)
    /\ idle \in [{"none", "open"} -> Nat] /\ SlotsKept

\* A build ends in one completion, and the flag is up from its dispatch until the
\* writer has taken that completion.
IsComplete(i, q) == i \in DOMAIN internal /\ internal[i].c = "MvBuildComplete" /\ internal[i].q = q
Tasked(q) == \E t \in tasks : t.q = q
OneBuild(q) ==
    /\ \A t, u \in tasks : t.q = q /\ u.q = q => t = u
    /\ Tasked(q) => q \in inflight
    /\ \A i \in DOMAIN internal : IsComplete(i, q) => q \in inflight /\ ~Tasked(q) /\ internal[i].o # ""
    /\ \A i, j \in DOMAIN internal : IsComplete(i, q) /\ IsComplete(j, q) => i = j

\* The entry of a build in flight: its own, which counts on the table the build
\* started from, or one that came later and has none.
EntryOK(q) ==
    /\ InFlightState(view[q].mv.st) => q \in inflight
    /\ q \in inflight /\ ~InFlightState(view[q].mv.st) => ~view[q].mv.st.table
    /\ view[q].state = "absent" => view[q].mv.st = mv_state_initial
    /\ \A t \in tasks : t.q = q /\ InFlightState(view[q].mv.st) => t.has_table = view[q].mv.st.table

\* A lost table stays until a build finds it in its way.
LostOK(q) ==
    /\ table[q] # NoTable /\ ~view[q].mv.st.table
    /\ \A t \in tasks : t.q = q => ~t.has_table /\ t.step # "running"
    /\ \A i \in DOMAIN internal : IsComplete(i, q) => internal[i].o # "Built" /\ ~internal[i].table

\* A build knows whether there is a table, and so does its completion.
KnownOK(q) ==
    /\ Accounted(q)
    /\ \A t \in tasks : t.q = q => (t.has_table <=> table[q] # NoTable)
    /\ \A i \in DOMAIN internal : IsComplete(i, q) =>
          /\ internal[i].o = "Built" => table[q] # NoTable
          /\ internal[i].o = "Failed" => (internal[i].table <=> table[q] # NoTable)
          /\ internal[i].o = "Ineligible" => table[q] = NoTable

QueryOK(q) == OneBuild(q) /\ EntryOK(q) /\ (q \in lost => LostOK(q)) /\ (q \notin lost => KnownOK(q))

MvInv == ViewOK(view) /\ ChannelsOK /\ FrameOK /\ TasksOK /\ \A q \in Queries : QueryOK(q)

-----------------------------------------------------------------------------
(* The strengthening of it behind FreshIsCurrent and ReadsSeeResults.      *)

\* A frame fits the buffer, and pinned queries are maintained in place: elsewhere a
\* change is marked before it commits, or not marked at all.
Maintained == MaxFrameRows < FRAME_ROWS_CAPACITY /\ Pinned \cap Invalidating = {}

FrameWhole ==
    /\ replayed = {} /\ flagged = {}
    /\ \A i \in DOMAIN frame : frame[i].invalidates => frame[i].q \in Invalidating
    /\ \A i \in DOMAIN internal : internal[i].c # "Readmit"

\* An MV that is Fresh, or will be when its build completes, is current.
BuildCurrent(q) ==
    /\ view[q].state # "Ready" => view[q].mv.st # Fresh /\ view[q].mv.st.s # "Building"
    /\ view[q].mv.st = Fresh => table[q] = version[q]
    /\ view[q].mv.st.s = "Building" =>
          /\ \A t \in tasks : t.q = q /\ t.step = "running" => t.rows = version[q]
          /\ \A i \in DOMAIN internal : IsComplete(i, q) /\ internal[i].o = "Built" => table[q] = version[q]

\* No table, nor the build that will replace it, is older than a pending read.
ReadOK(r) ==
    /\ r.q \in Queries /\ r.since \in Nat /\ r.since <= version[r.q]
    /\ table[r.q] \in {NoTable, Truncated} \/ table[r.q] >= r.since
    /\ \A t \in tasks : t.q = r.q /\ t.step = "running" => t.rows >= r.since

FreshInv == FrameWhole /\ (\A q \in Queries : BuildCurrent(q)) /\ (\A r \in reads : ReadOK(r))
=============================================================================
