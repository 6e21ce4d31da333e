-------------------------- MODULE MvLifecycleFresh --------------------------
(***************************************************************************)
(* FreshInv is inductive, the steps of the entries, hits, commands and     *)
(* builds: what is Fresh, or will be when its build completes, is current. *)
(***************************************************************************)
EXTENDS MvLifecycleCommands

-----------------------------------------------------------------------------
(* FreshInv.                                                               *)

\* After a step the entry of q neither is nor will be taken for current.
Stale(q) == view'[q].mv.st # Fresh /\ view'[q].mv.st.s # "Building"
\* What a step may do to an entry, its result and its table while no build moves.
QuietEntry(q) ==
    \/ /\ Stale(q) /\ version'[q] \in {version[q], version[q] + 1}
       /\ table'[q] \in {table[q], NoTable, Truncated}
    \/ /\ view'[q].state = view[q].state /\ view'[q].mv.st = view[q].mv.st
       /\ version'[q] = version[q] /\ table'[q] = table[q]
    \/ /\ view'[q].state = "Ready" /\ view'[q].mv.st = Fresh
       /\ version'[q] = version[q] /\ table'[q] = table[q] /\ table[q] = version[q]
\* A result that changes is withdrawn.
Withdrawn == \A q \in Queries : version'[q] = version[q] \/ Stale(q)

LEMMA FreshFacts == Fresh.table /\ Fresh.s = "Fresh" /\ ~InFlightState(Fresh)
  BY Zenon DEF Fresh, State, InFlightState

\* A table only moves on to rows at least as new as every pending read.
LEMMA ReadKept ==
    ASSUME MvInv, FreshInv, NEW r \in reads, version'[r.q] \in {version[r.q], version[r.q] + 1},
           \/ table'[r.q] \in {table[r.q], NoTable, Truncated}
           \/ \E t \in tasks : t.q = r.q /\ t.step = "running" /\ table'[r.q] = t.rows,
           \A t \in tasks' : t.q = r.q /\ t.step = "running" => t \in tasks \/ t.rows = version[r.q]
    PROVE  ReadOK(r)'
  <1>1. ReadOK(r) BY Zenon DEF FreshInv
  <1>2. r.q \in Queries /\ r.since \in Nat /\ r.since <= version[r.q] BY Zenon, <1>1 DEF ReadOK
  <1>3. version[r.q] \in Nat BY <1>2, MvAssumption DEF MvInv, FrameOK
  <1>4. r.since <= version'[r.q] BY <1>2, <1>3
  <1>5. table'[r.q] \in {NoTable, Truncated} \/ table'[r.q] >= r.since BY Zenon, <1>1 DEF ReadOK
  <1>6. \A t \in tasks' : t.q = r.q /\ t.step = "running" => t.rows >= r.since BY Zenon, <1>1, <1>2, <1>3 DEF ReadOK
  <1> QED BY Zenon, <1>2, <1>4, <1>5, <1>6 DEF ReadOK

LEMMA QuietSafe ==
    ASSUME MvInv, FreshInv, FrameWhole', tasks' = tasks, reads' \subseteq reads,
           \A q \in Queries : QuietEntry(q) /\ CompletesKept(q)
    PROVE  FreshInv' /\ Withdrawn
  <1>1. ASSUME NEW q \in Queries PROVE BuildCurrent(q)'
    <2>1. BuildCurrent(q) /\ QuietEntry(q) /\ CompletesKept(q) BY Zenon DEF FreshInv
    <2>2. CASE Stale(q) BY Zenon, <2>2 DEF Stale, BuildCurrent
    <2>3. CASE /\ view'[q].state = view[q].state /\ view'[q].mv.st = view[q].mv.st
               /\ version'[q] = version[q] /\ table'[q] = table[q]
      BY Zenon, <2>1, <2>3 DEF BuildCurrent, CompletesKept
    <2>4. CASE /\ view'[q].state = "Ready" /\ view'[q].mv.st = Fresh
               /\ version'[q] = version[q] /\ table'[q] = table[q] /\ table[q] = version[q]
      BY Zenon, <2>4, FreshFacts DEF BuildCurrent
    <2> QED BY Zenon, <2>1, <2>2, <2>3, <2>4 DEF QuietEntry
  <1>2. ASSUME NEW r \in reads' PROVE ReadOK(r)'
    <2>1. r \in reads /\ r.q \in Queries BY Zenon DEF FreshInv, ReadOK
    <2>2. version'[r.q] \in {version[r.q], version[r.q] + 1} /\ table'[r.q] \in {table[r.q], NoTable, Truncated}
      BY Zenon, <2>1 DEF QuietEntry
    <2> QED BY Zenon, <2>1, <2>2, ReadKept
  <1>3. Withdrawn BY Zenon DEF Withdrawn, QuietEntry
  <1> QED BY Zenon, <1>1, <1>2, <1>3 DEF FreshInv

\* Where only entries change.
LEMMA EntriesFresh ==
    ASSUME MvInv, FreshInv, UNCHANGED <<version, table, tasks, internal, frame, replayed, flagged>>, reads' \subseteq reads,
           \A q \in Queries : Stale(q) \/ (view'[q].state = view[q].state /\ view'[q].mv.st = view[q].mv.st)
    PROVE  FreshInv' /\ Withdrawn
  <1>1. FrameWhole' BY Zenon DEF FreshInv, FrameWhole
  <1>2. \A q \in Queries : QuietEntry(q) BY Zenon DEF QuietEntry
  <1>3. \A q \in Queries : CompletesKept(q) BY Zenon, CompletesSame
  <1> QED BY Zenon, <1>1, <1>2, <1>3, QuietSafe

LEMMA InitialStale == NewMeta.st # Fresh /\ NewMeta.st.s # "Building"
  BY Zenon DEF NewMeta, mv_state_initial, State, Fresh

LEMMA RegisterFresh ==
    ASSUME MvInv, FreshInv, NEW q \in Queries, query_register(q)
    PROVE  FreshInv' /\ Withdrawn
  <1> DEFINE e == [state |-> "Loading", mv |-> NewMeta]
  <1>1. view' = SetEntry(view, q, e) /\ UNCHANGED <<version, table, tasks, internal, frame, replayed, flagged, reads>>
    BY Zenon DEF query_register, writerVars, SetEntry
  <1>2. DOMAIN e = {"state", "mv"} /\ e.state \in States /\ e.mv = NewMeta BY Zenon DEF States
  <1> HIDE DEF e
  <1>3. \A p \in Queries : view'[p] = IF p = q THEN e ELSE view[p] BY <1>1, <1>2, EntryFacts DEF MvInv
  <1>4. \A p \in Queries : Stale(p) \/ (view'[p].state = view[p].state /\ view'[p].mv.st = view[p].mv.st)
    BY Zenon, <1>2, <1>3, InitialStale DEF Stale
  <1> QED BY Zenon, <1>1, <1>4, EntriesFresh

\* An entry that goes takes its MV's state with it.
LEMMA GoneStale ==
    ASSUME MvInv, NEW q \in Queries, view' = SetEntry(view, q, Absent)
    PROVE  Stale(q) /\ \A p \in Queries : p # q => view'[p] = view[p]
  <1>1. DOMAIN Absent = {"state", "mv"} /\ Absent.state \in States /\ Absent.mv = NewMeta BY Zenon DEF Absent, States
  <1>2. \A p \in Queries : view'[p] = IF p = q THEN Absent ELSE view[p] BY <1>1, EntryFacts DEF MvInv
  <1> QED BY Zenon, <1>1, <1>2, InitialStale DEF Stale

LEMMA CleanupFresh ==
    ASSUME MvInv, FreshInv, NEW q \in Queries, query_failed_cleanup(q)
    PROVE  FreshInv' /\ Withdrawn
  <1>1. view' = SetEntry(view, q, Absent) /\ UNCHANGED <<version, table, tasks, internal, frame, replayed, flagged, reads>>
    BY Zenon DEF query_failed_cleanup, writerVars, SetEntry
  <1>2. \A p \in Queries : Stale(p) \/ (view'[p].state = view[p].state /\ view'[p].mv.st = view[p].mv.st)
    BY Zenon, <1>1, GoneStale
  <1> QED BY Zenon, <1>1, <1>2, EntriesFresh

LEMMA EvictFresh ==
    ASSUME MvInv, FreshInv, NEW q \in Queries, cache_query_evict(q)
    PROVE  FreshInv' /\ Withdrawn
  <1>1. /\ view' = SetEntry(view, q, Absent)
        /\ table' = [table EXCEPT ![q] = NoTable] \/ table' = table
        /\ UNCHANGED <<version, tasks, internal, frame, replayed, flagged, reads>>
    BY Zenon DEF cache_query_evict, writerVars, SetEntry, mv_drop
  <1>2. Stale(q) /\ \A p \in Queries : p # q => view'[p] = view[p] BY Zenon, <1>1, GoneStale
  <1>3. table'[q] \in {table[q], NoTable} /\ \A p \in Queries : p # q => table'[p] = table[p]
    BY Zenon, <1>1 DEF MvInv, FrameOK
  <1>4. \A p \in Queries : QuietEntry(p) BY Zenon, <1>1, <1>2, <1>3 DEF QuietEntry
  <1>5. FrameWhole' BY Zenon, <1>1 DEF FreshInv, FrameWhole
  <1>6. \A p \in Queries : CompletesKept(p) BY Zenon, <1>1, CompletesSame
  <1> QED BY Zenon, <1>1, <1>4, <1>5, <1>6, QuietSafe

\* A query that is not Ready has no MV a hit may read or a build may freshen.
LEMMA ReadmitFresh ==
    ASSUME MvInv, FreshInv, NEW q \in Queries, register_invalidated(q)
    PROVE  FreshInv' /\ Withdrawn
  <1>1. /\ view[q].state = "Invalidated" /\ view' = SetState(view, q, "Loading")
        /\ UNCHANGED <<version, table, tasks, internal, frame, replayed, flagged, reads>>
    BY Zenon DEF register_invalidated, query_readmit, writerVars, SetState
  <1>2. "Loading" \in States BY Zenon DEF States
  <1>3. \A p \in Queries : /\ view'[p].state = IF p = q THEN "Loading" ELSE view[p].state
                           /\ view'[p].mv = view[p].mv
    BY <1>1, <1>2, StateFacts2 DEF MvInv
  <1>4. view[q].mv.st # Fresh /\ view[q].mv.st.s # "Building" BY Zenon, <1>1 DEF FreshInv, BuildCurrent
  <1>5. \A p \in Queries : Stale(p) \/ (view'[p].state = view[p].state /\ view'[p].mv.st = view[p].mv.st)
    BY Zenon, <1>3, <1>4 DEF Stale
  <1> QED BY Zenon, <1>1, <1>5, EntriesFresh

LEMMA LimitBumpFresh ==
    ASSUME MvInv, FreshInv, NEW q \in Queries, limit_bump_handle(q)
    PROVE  FreshInv' /\ Withdrawn
  <1> DEFINE v == mv_dirty_mark(view, {q})
  <1>1. view' = SetState(v, q, "Loading") /\ UNCHANGED <<version, table, tasks, internal, frame, replayed, flagged, reads>>
    BY Zenon DEF limit_bump_handle, writerVars, SetState
  <1>2. "Loading" \in States BY Zenon DEF States
  <1>3. ViewOK(v) /\ \A p \in Queries : v[p].state = view[p].state BY MarkFacts DEF MvInv
  <1>4. \A p \in Queries : /\ p = q => v[p].mv.st # Fresh /\ v[p].mv.st.s # "Building"
                           /\ p # q => v[p].mv.st = view[p].mv.st
    BY MarkedSafe
  <1> HIDE DEF v
  <1>5. \A p \in Queries : /\ view'[p].state = IF p = q THEN "Loading" ELSE v[p].state
                           /\ view'[p].mv = v[p].mv
    BY <1>1, <1>2, <1>3, StateFacts2
  <1>6. \A p \in Queries : Stale(p) \/ (view'[p].state = view[p].state /\ view'[p].mv.st = view[p].mv.st)
    BY Zenon, <1>3, <1>4, <1>5 DEF Stale
  <1> QED BY Zenon, <1>1, <1>6, EntriesFresh

LEMMA ScheduleFresh ==
    ASSUME MvInv, FreshInv, NEW q \in Queries, mv_schedule(q)
    PROVE  FreshInv' /\ Withdrawn
  <1>1. /\ view' = SetName(view, q, "Scheduled") /\ view[q].mv.st.s = "Pending"
        /\ UNCHANGED <<version, table, tasks, internal, frame, replayed, flagged, reads>>
    BY Zenon DEF mv_schedule, writerVars, SetName
  <1>2. \A p \in Queries : /\ view'[p].state = view[p].state
                           /\ view'[p].mv.st = IF p = q THEN State("Scheduled", view[q].mv.st.table) ELSE view[p].mv.st
    BY <1>1, ClaimFacts DEF MvInv
  <1>3. \A h : State("Scheduled", h) # Fresh /\ State("Scheduled", h).s # "Building" BY Zenon DEF State, Fresh
  <1>4. \A p \in Queries : Stale(p) \/ (view'[p].state = view[p].state /\ view'[p].mv.st = view[p].mv.st)
    BY Zenon, <1>2, <1>3 DEF Stale
  <1> QED BY Zenon, <1>1, <1>4, EntriesFresh

\* A command behind the others, other than a readmission.
LEMMA AppendWhole ==
    ASSUME MvInv, FreshInv, NEW cmd \in Command, cmd.c # "Readmit", internal' = Append(internal, cmd),
           UNCHANGED <<frame, replayed, flagged>>
    PROVE  FrameWhole'
  <1>1. internal \in Seq(Command) BY Zenon DEF MvInv, ChannelsOK
  <1>2. \A i \in DOMAIN internal' : internal'[i] = cmd \/ (i \in DOMAIN internal /\ internal'[i] = internal[i]) BY <1>1
  <1> QED BY Zenon, <1>2 DEF FreshInv, FrameWhole

\* A population ends on an entry no build is Building for: a change of the result finds
\* nothing to withdraw.
LEMMA PopulatedFresh ==
    ASSUME MvInv, FreshInv, NEW q \in Queries, query_ready_finalize(q)
    PROVE  FreshInv' /\ Withdrawn
  <1> DEFINE v == SetState(view, q, "Ready")
  <1>1. /\ view[q].state = "Loading"
        /\ version' = version \/ version' = [version EXCEPT ![q] = @ + 1]
        /\ mv_pinned_bootstrap(v, q)
        /\ UNCHANGED <<tasks, table, frame, replayed, flagged, reads>>
    BY Zenon DEF query_ready_finalize, writerVars, SetState
  <1>2. /\ ViewOK(v)
        /\ \A p \in Queries : /\ v[p].state = IF p = q THEN "Ready" ELSE view[p].state
                              /\ v[p].mv = view[p].mv
    BY StateFacts2 DEF MvInv, States
  <1> HIDE DEF v
  <1>3. view[q].mv.st # Fresh /\ view[q].mv.st.s # "Building" BY Zenon, <1>1 DEF FreshInv, BuildCurrent
  <1>4. version'[q] \in {version[q], version[q] + 1} /\ \A p \in Queries : p # q => version'[p] = version[p]
    BY Zenon, <1>1 DEF MvInv, FrameOK
  <1>5. CASE view' = v /\ internal' = internal
    <2>1. \A p \in Queries : QuietEntry(p) BY Zenon, <1>1, <1>2, <1>3, <1>4, <1>5 DEF QuietEntry, Stale
    <2>2. FrameWhole' BY Zenon, <1>1, <1>5 DEF FreshInv, FrameWhole
    <2>3. \A p \in Queries : CompletesKept(p) BY Zenon, <1>5, CompletesSame
    <2> QED BY Zenon, <1>1, <2>1, <2>2, <2>3, QuietSafe
  <1>6. CASE /\ v[q].mv.st.s = "Pending" /\ view' = SetName(v, q, "Scheduled")
             /\ internal' = Append(internal, CommandBuild(q))
    <2>1. \A p \in Queries :
              /\ view'[p].state = v[p].state
              /\ view'[p].mv.st = IF p = q THEN State("Scheduled", v[q].mv.st.table) ELSE v[p].mv.st
      BY <1>2, <1>6, ClaimFacts
    <2>2. \A h : State("Scheduled", h) # Fresh /\ State("Scheduled", h).s # "Building" BY Zenon DEF State, Fresh
    <2>3. \A p \in Queries : QuietEntry(p) BY <1>1, <1>2, <1>4, <2>1, <2>2 DEF QuietEntry, Stale
    <2>4. CommandBuild(q) \in Command /\ CommandBuild(q).c = "MvBuild" BY Zenon, BuildCommand DEF CommandBuild
    <2>5. FrameWhole' BY Zenon, <1>1, <1>6, <2>4, AppendWhole
    <2>6. \A p \in Queries : CompletesKept(p) BY <1>6, <2>4, CompletesAppend DEF MvInv, ChannelsOK
    <2> QED BY <1>1, <2>3, <2>5, <2>6, QuietSafe
  <1> QED BY Zenon, <1>1, <1>5, <1>6 DEF mv_pinned_bootstrap, SetName

LEMMA TickFresh ==
    ASSUME MvInv, FreshInv, Tick
    PROVE  FreshInv' /\ Withdrawn
  <1>1. UNCHANGED <<version, table, tasks, internal, frame, replayed, flagged, reads>> BY Zenon DEF Tick, writerVars
  <1>2. \A q \in Queries : view'[q].state = view[q].state /\ view'[q].mv.st = view[q].mv.st BY Zenon, TickFacts
  <1> QED BY Zenon, <1>1, <1>2, EntriesFresh

LEMMA SweepFresh ==
    ASSUME MvInv, FreshInv, mv_dirty_sweep
    PROVE  FreshInv' /\ Withdrawn
  <1>1. UNCHANGED <<view, version, tasks, internal, frame, replayed, flagged, reads>> BY Zenon DEF mv_dirty_sweep, writerVars
  <1>2. State("Pending", TRUE) # Fresh /\ State("Pending", TRUE).s # "Building" BY Zenon DEF State, Fresh
  <1>3. \A q \in Queries : table'[q] = table[q] \/ (table'[q] = Truncated /\ view[q].mv.st = State("Pending", TRUE))
    BY Zenon DEF mv_dirty_sweep
  <1>4. \A q \in Queries : QuietEntry(q) BY Zenon, <1>1, <1>2, <1>3 DEF QuietEntry, Stale
  <1>5. FrameWhole' BY Zenon, <1>1 DEF FreshInv, FrameWhole
  <1>6. \A q \in Queries : CompletesKept(q) BY Zenon, <1>1, CompletesSame
  <1> QED BY Zenon, <1>1, <1>4, <1>5, <1>6, QuietSafe

\* No build is under way for a Fresh MV.
LEMMA TaskNotFresh == ASSUME MvInv, NEW t \in tasks PROVE view[t.q].mv.st # Fresh
  <1>1. QueryOK(t.q) /\ t.q \in inflight BY Zenon, TaskFacts
  <1> QED BY Zenon, <1>1, FreshFacts DEF QueryOK, EntryOK

LEMMA HitFresh ==
    ASSUME MvInv, FreshInv, NEW q \in Queries, mv_serve_decide(q)
    PROVE  FreshInv' /\ Withdrawn
  <1>0. PICK hit : hit = [q |-> q, since |-> version[q]] BY Zenon
  <1>1. /\ view[q].mv.st = Fresh /\ reads' = reads \cup {hit}
        /\ UNCHANGED <<view, version, table, tasks, internal, frame, replayed, flagged>>
    BY Zenon, <1>0 DEF mv_serve_decide, writerVars
  <1>2. FrameWhole' BY Zenon, <1>1 DEF FreshInv, FrameWhole
  <1>3. \A p \in Queries : BuildCurrent(p)' BY Zenon, <1>1 DEF FreshInv, BuildCurrent, IsComplete
  <1>4. hit.q = q /\ hit.since = version[q] BY <1>0
  <1>5. ASSUME NEW r \in reads PROVE ReadOK(r)'
    <2>1. ReadOK(r) BY Zenon DEF FreshInv
    <2> QED BY Zenon, <1>1, <2>1 DEF ReadOK
  <1>6. ReadOK(hit)'
    <2>1. table[q] = version[q] BY Zenon, <1>1 DEF FreshInv, BuildCurrent
    <2>2. version[q] \in Nat /\ version[q] <= version[q] /\ version[q] >= version[q]
      BY MvAssumption DEF MvInv, FrameOK
    <2>3. \A t \in tasks : t.q # q BY Zenon, <1>1, TaskNotFresh
    <2>4. hit.since <= version[hit.q] /\ table[hit.q] >= hit.since BY Zenon, <1>4, <2>1, <2>2
    <2> QED BY Zenon, <1>1, <1>4, <2>2, <2>3, <2>4 DEF ReadOK
  <1>7. \A r \in reads' : ReadOK(r)' BY Zenon, <1>1, <1>5, <1>6
  <1>8. Withdrawn BY Zenon, <1>1 DEF Withdrawn
  <1> QED BY Zenon, <1>2, <1>3, <1>7, <1>8 DEF FreshInv

LEMMA ServeFresh ==
    ASSUME MvInv, FreshInv, reads' \subseteq reads,
           UNCHANGED <<view, version, table, tasks, internal, frame, replayed, flagged>>
    PROVE  FreshInv' /\ Withdrawn
  <1>1. \A q \in Queries : view'[q].state = view[q].state /\ view'[q].mv.st = view[q].mv.st BY Zenon
  <1> QED BY Zenon, <1>1, EntriesFresh

-----------------------------------------------------------------------------
(* Commands and builds under FreshInv.                                     *)

\* A build starts: its task has read nothing yet, and no completion is on its way.
LEMMA StartFresh ==
    ASSUME MvInv, FreshInv, FrameWhole', \A p \in Queries : CompletesKept(p),
           NEW q \in Queries, mv_context_snapshot(q), view' = SetName(view, q, "Building"),
           \A t \in tasks : t.q # q, \A i \in DOMAIN internal' : ~IsComplete(i, q)',
           NEW task, task.q = q, task.step = "slot", tasks' = tasks \cup {task},
           \A p \in Queries : table'[p] = table[p] \/ (p = q /\ table'[p] = NoTable),
           UNCHANGED <<version, reads>>
    PROVE  FreshInv' /\ Withdrawn
  <1>1. view[q].mv.st.s = "Scheduled" /\ view[q].state = "Ready" BY Zenon DEF mv_context_snapshot, Ready
  <1>2. \A p \in Queries :
            /\ view'[p].state = view[p].state
            /\ view'[p].mv.st = IF p = q THEN State("Building", view[q].mv.st.table) ELSE view[p].mv.st
    BY <1>1, ClaimFacts DEF MvInv
  <1>3. \A h : State("Building", h) # Fresh BY Zenon DEF State, Fresh
  <1>4. ASSUME NEW p \in Queries PROVE BuildCurrent(p)'
    <2>1. CASE p = q BY <1>1, <1>2, <1>3, <2>1 DEF BuildCurrent
    <2>2. CASE p # q
      <3>1. BuildCurrent(p) /\ CompletesKept(p) BY Zenon DEF FreshInv
      <3>2. view'[p].state = view[p].state /\ view'[p].mv.st = view[p].mv.st /\ table'[p] = table[p] BY Zenon, <1>2, <2>2
      <3>3. \A t \in tasks' : t.q = p => t \in tasks BY Zenon, <2>2
      <3> QED BY Zenon, <3>1, <3>2, <3>3 DEF BuildCurrent, CompletesKept
    <2> QED BY Zenon, <2>1, <2>2
  <1>5. ASSUME NEW r \in reads PROVE ReadOK(r)'
    <2>1. r.q \in Queries BY Zenon DEF FreshInv, ReadOK
    <2>2. \A t \in tasks' : t.step = "running" => t \in tasks BY Zenon
    <2> QED BY Zenon, <2>1, <2>2, ReadKept
  <1> QED BY Zenon, <1>4, <1>5 DEF FreshInv, Withdrawn

LEMMA DispatchFresh ==
    ASSUME MvInv, FreshInv, FrameWhole', \A p \in Queries : CompletesKept(p), NEW q \in Queries,
           NEW d, d = mv_build_dispatch(q, inflight), view' = d.view, tasks' = d.tasks,
           UNCHANGED <<table, version, reads>>
    PROVE  FreshInv' /\ Withdrawn
  <1>1. CASE q \in inflight \/ ~mv_context_snapshot(q)
    <2>1. UNCHANGED <<view, tasks>> BY Zenon, <1>1 DEF mv_build_dispatch
    <2>2. \A p \in Queries : QuietEntry(p) BY Zenon, <2>1 DEF QuietEntry
    <2> QED BY Zenon, <2>1, <2>2, QuietSafe
  <1>2. CASE q \notin inflight /\ mv_context_snapshot(q)
    <2> DEFINE task == Task(q, view[q].mv.st.table, view[q].mv.plan)
    <2>1. view' = SetName(view, q, "Building") /\ tasks' = tasks \cup {task}
      BY Zenon, <1>2 DEF mv_build_dispatch, SetName
    <2>2. task.q = q /\ task.step = "slot" BY Zenon DEF Task
    <2> HIDE DEF task
    <2>3. (\A t \in tasks : t.q # q) /\ \A i \in DOMAIN internal : ~IsComplete(i, q)
      BY Zenon, <1>2 DEF MvInv, QueryOK, OneBuild, Tasked
    <2>4. \A i \in DOMAIN internal' : ~IsComplete(i, q)' BY Zenon, <2>3 DEF CompletesKept
    <2> QED BY <1>2, <2>1, <2>2, <2>3, <2>4, StartFresh
  <1> QED BY Zenon, <1>1, <1>2

\* An outcome makes an MV Fresh only when its build was Building and is Built.
LEMMA OutcomeFresh ==
    ASSUME MvInv, NEW cmd \in Command, cmd.o # "", NEW q \in Queries, InFlightState(view[q].mv.st),
           NEW r, r = mv_build_outcome_apply(q, cmd)
    PROVE  \E st, h : /\ Applied(r, q, st, h) /\ ~InFlightState(st)
                      /\ st = Fresh => h /\ cmd.o = "Built" /\ view[q].mv.st.s = "Building"
  <1>1. cmd.table \in BOOLEAN /\ cmd.o \in {"Built", "Ineligible", "Failed"} BY Zenon DEF Command
  <1>2. Ineligible # Fresh /\ \A h : State("Pending", h) # Fresh BY Zenon DEF Ineligible, Fresh, State
  <1>3. ASSUME NEW st \in {State("Pending", FALSE), Ineligible}, r = Dropped(q, st)
        PROVE  Applied(r, q, st, FALSE) /\ ~InFlightState(st) /\ st # Fresh
    BY Zenon, <1>2, <1>3, DroppedFacts
  <1>4. ASSUME NEW h \in BOOLEAN, r = Wasted(q, h)
        PROVE  Applied(r, q, State("Pending", h), TRUE) /\ ~InFlightState(State("Pending", h))
    BY Zenon, <1>4, WastedFacts
  <1>5. CASE cmd.o = "Built"
    <2>1. r = BuiltApply(q, cmd) BY Zenon, <1>5 DEF mv_build_outcome_apply
    <2>2. CASE \E st \in {State("Pending", FALSE), Ineligible} : r = Dropped(q, st) BY Zenon, <1>3, <2>2
    <2>3. CASE r = Wasted(q, TRUE)
      <3>1. Applied(r, q, State("Pending", TRUE), TRUE) /\ ~InFlightState(State("Pending", TRUE))
        BY Zenon, <1>4, <2>3
      <3>2. State("Pending", TRUE) # Fresh BY Zenon, <1>2
      <3> QED BY Zenon, <3>1, <3>2
    <2>4. CASE r = Freshened(q) /\ view[q].mv.st.s # "BuildingDirty"
      <3>1. view[q].mv.st.s = "Building" BY Zenon, <2>4 DEF InFlightState
      <3>2. Applied(r, q, Fresh, TRUE) /\ ~InFlightState(Fresh) BY Zenon, <2>4, FreshenedFacts
      <3> QED BY Zenon, <1>5, <3>1, <3>2
    <2> QED BY Zenon, <2>1, <2>2, <2>3, <2>4 DEF BuiltApply
  <1>6. CASE cmd.o = "Ineligible"
    <2>1. r = [view |-> mv_state_write(q, Ineligible), table |-> table] BY Zenon, <1>6 DEF mv_build_outcome_apply
    <2>2. Applied(r, q, Ineligible, TRUE) /\ ~InFlightState(Ineligible) BY Zenon, <2>1, IneligibleFacts
    <2> QED BY Zenon, <1>2, <2>2
  <1>7. CASE cmd.o = "Failed"
    <2>1. r = Wasted(q, cmd.table) BY Zenon, <1>7 DEF mv_build_outcome_apply
    <2>2. Applied(r, q, State("Pending", cmd.table), TRUE) /\ ~InFlightState(State("Pending", cmd.table))
      BY Zenon, <1>1, <1>4, <2>1
    <2>3. State("Pending", cmd.table) # Fresh BY Zenon, <1>2
    <2> QED BY Zenon, <2>2, <2>3
  <1> QED BY Zenon, <1>1, <1>5, <1>6, <1>7

LEMMA CompleteFresh ==
    ASSUME MvInv, FreshInv, FrameWhole', internal # <<>>, NEW cmd, cmd = Head(internal), internal' = Tail(internal),
           cmd.c = "MvBuildComplete", mv_build_complete(cmd), UNCHANGED <<version, reads>>
    PROVE  FreshInv' /\ Withdrawn
  <1> DEFINE q == cmd.q
             st == view[q].mv.st
             present == view[q].state # "absent"
             flight == inflight \ {q}
             again == IF present /\ st.s = "Scheduled" THEN mv_build_dispatch(q, flight)
                      ELSE [view |-> view, flight |-> flight, tasks |-> tasks]
             applied == mv_build_outcome_apply(q, cmd)
  <1>1. /\ view' = IF present /\ InFlightState(st) THEN applied.view ELSE again.view
        /\ table' = IF present /\ InFlightState(st) THEN applied.table ELSE mv_table_drop(q, cmd)
        /\ tasks' = again.tasks
    BY Zenon DEF mv_build_complete
  <1>2. cmd \in Command /\ cmd.o # "" /\ q \in inflight /\ \A t \in tasks : t.q # q BY Zenon, HeadFacts
  <1>3. \A i \in DOMAIN internal' : ~IsComplete(i, q)' BY Zenon, HeadFacts
  <1>4. q \in Queries BY Zenon, <1>2 DEF Command
  <1>5. QueryOK(q) /\ BuildCurrent(q) BY Zenon, <1>4 DEF MvInv, FreshInv
  <1>6. internal \in Seq(Command) BY Zenon DEF MvInv, ChannelsOK
  <1>7. \A p \in Queries : CompletesKept(p) BY Zenon, <1>6, CompletesTail
  <1>8. IsComplete(1, q) /\ 1 \in DOMAIN internal /\ internal[1] = cmd BY <1>6 DEF IsComplete
  <1>9. CASE present /\ InFlightState(st)
    <2>1. tasks' = tasks BY Zenon, <1>1, <1>9 DEF InFlightState
    <2> HIDE DEF again, flight
    <2> DEFINE r == applied
    <2>2. PICK s, h : /\ Applied(r, q, s, h) /\ ~InFlightState(s)
                      /\ s = Fresh => h /\ cmd.o = "Built" /\ st.s = "Building"
      BY Zenon, <1>2, <1>4, <1>9, OutcomeFresh
    <2>3. view' = r.view /\ table' = r.table BY Zenon, <1>1, <1>9
    <2> HIDE DEF r, applied
    <2>4. /\ view'[q].state = view[q].state /\ view'[q].mv.st = s
          /\ \A p \in Queries : p # q => view'[p] = view[p] /\ table'[p] = table[p]
          /\ table'[q] = IF h THEN table[q] ELSE NoTable
      BY Zenon, <2>2, <2>3 DEF Applied
    <2>5. QuietEntry(q)
      <3>1. CASE s = Fresh
        <4>1. view[q].state = "Ready" /\ table[q] = version[q]
          BY Zenon, <1>5, <1>8, <2>2, <3>1 DEF BuildCurrent
        <4> QED BY Zenon, <2>2, <2>4, <3>1, <4>1 DEF QuietEntry
      <3>2. CASE s # Fresh
        <4>1. Stale(q) BY Zenon, <2>2, <2>4, <3>2 DEF Stale, InFlightState
        <4> QED BY Zenon, <2>4, <4>1 DEF QuietEntry
      <3> QED BY Zenon, <3>1, <3>2
    <2>6. \A p \in Queries : QuietEntry(p) BY Zenon, <2>4, <2>5 DEF QuietEntry
    <2> QED BY Zenon, <1>7, <2>1, <2>6, QuietSafe
  <1>10. CASE ~(present /\ InFlightState(st))
    <2>1. st # Fresh /\ st.s # "Building"
      <3>1. ~InFlightState(st)
        BY <1>5, <1>10 DEF QueryOK, EntryOK, mv_state_initial, State, InFlightState
      <3>2. ~st.table BY Zenon, <1>2, <1>5, <3>1 DEF QueryOK, EntryOK
      <3> QED BY ZenonT(30), <3>1, <3>2, FreshFacts DEF InFlightState
    <2>2. view' = again.view /\ table' = mv_table_drop(q, cmd) BY Zenon, <1>1, <1>10
    <2>3. \A p \in Queries : table'[p] = table[p] \/ (p = q /\ table'[p] = NoTable)
      BY <1>4, <2>2 DEF mv_table_drop, MvInv, FrameOK
    <2>4. CASE present /\ st.s = "Scheduled" /\ mv_context_snapshot(q)
      <3> DEFINE task == Task(q, view[q].mv.st.table, view[q].mv.plan)
      <3>1. view' = SetName(view, q, "Building") /\ tasks' = tasks \cup {task}
        BY Zenon, <1>1, <2>2, <2>4 DEF mv_build_dispatch, SetName
      <3>2. task.q = q /\ task.step = "slot" BY Zenon DEF Task
      <3> HIDE DEF task, again, flight, applied
      <3> QED BY Zenon, <1>2, <1>3, <1>4, <1>7, <2>3, <2>4, <3>1, <3>2, StartFresh
    <2>5. CASE ~(present /\ st.s = "Scheduled" /\ mv_context_snapshot(q))
      <3>1. view' = view /\ tasks' = tasks BY Zenon, <1>1, <2>2, <2>5 DEF mv_build_dispatch
      <3>2. \A p \in Queries : QuietEntry(p) BY Zenon, <2>1, <2>3, <3>1 DEF QuietEntry, Stale
      <3> QED BY Zenon, <1>7, <3>1, <3>2, QuietSafe
    <2> QED BY Zenon, <2>4, <2>5
  <1> QED BY Zenon, <1>9, <1>10

LEMMA CommandsFresh ==
    ASSUME MvInv, FreshInv, query_command_received
    PROVE  FreshInv' /\ Withdrawn
  <1>1. internal \in Seq(Command) /\ UNCHANGED <<version, frame, replayed, flagged, reads>>
    BY Zenon DEF MvInv, ChannelsOK, query_command_received
  <1>2. CASE /\ dispatched # <<>> /\ query_command_handle(Head(dispatched)) /\ internal' = internal
    <2> DEFINE cmd == Head(dispatched)
    <2>1. cmd \in Builds /\ query_command_handle(cmd) BY <1>2 DEF MvInv, ChannelsOK
    <2> HIDE DEF cmd
    <2>2. cmd.c = "MvBuild" /\ cmd.q \in Queries
      <3>1. PICK p \in Queries : cmd = CommandBuild(p) BY Zenon, <2>1 DEF Builds
      <3> QED BY Zenon, <3>1 DEF CommandBuild
    <2>3. FrameWhole' BY Zenon, <1>1, <1>2 DEF FreshInv, FrameWhole
    <2>4. \A p \in Queries : CompletesKept(p) BY Zenon, <1>2, CompletesSame
    <2> DEFINE d == mv_build_dispatch(cmd.q, inflight)
    <2>5. view' = d.view /\ tasks' = d.tasks /\ UNCHANGED table BY Zenon, <2>1, <2>2 DEF query_command_handle
    <2> HIDE DEF d
    <2> QED BY Zenon, <1>1, <2>2, <2>3, <2>4, <2>5, DispatchFresh DEF d
  <1>3. CASE /\ internal # <<>> /\ query_command_handle(Head(internal)) /\ internal' = Tail(internal)
    <2> DEFINE cmd == Head(internal)
    <2>1. cmd = Head(internal) /\ query_command_handle(cmd) /\ cmd = internal[1] /\ 1 \in DOMAIN internal
      BY <1>1, <1>3
    <2>2. \A i \in DOMAIN internal' : i + 1 \in DOMAIN internal /\ internal'[i] = internal[i + 1] BY <1>1, <1>3
    <2> HIDE DEF cmd
    <2>3. cmd \in Command BY Zenon, <1>3, <2>1, HeadFacts
    <2>4. cmd.c # "Readmit" BY Zenon, <2>1 DEF FreshInv, FrameWhole
    <2>5. FrameWhole' BY Zenon, <1>1, <2>2 DEF FreshInv, FrameWhole
    <2>6. \A p \in Queries : CompletesKept(p) BY Zenon, <1>1, <1>3, CompletesTail
    <2>7. CASE cmd.c = "MvBuild"
      <3> DEFINE d == mv_build_dispatch(cmd.q, inflight)
      <3>1. view' = d.view /\ tasks' = d.tasks /\ UNCHANGED table BY Zenon, <2>1, <2>7 DEF query_command_handle
      <3>2. cmd.q \in Queries BY Zenon, <2>3 DEF Command
      <3> HIDE DEF d
      <3> QED BY <1>1, <2>5, <2>6, <3>1, <3>2, DispatchFresh DEF d
    <2>8. CASE cmd.c = "MvBuildComplete"
      <3>1. mv_build_complete(cmd) BY Zenon, <2>1, <2>8 DEF query_command_handle
      <3> QED BY <1>1, <1>3, <2>1, <2>5, <2>8, <3>1, CompleteFresh
    <2> QED BY Zenon, <2>1, <2>4, <2>7, <2>8 DEF query_command_handle
  <1> QED BY Zenon, <1>2, <1>3 DEF query_command_received

\* A step of a build of q: its batch reads the current result, and what it stores or
\* reports is what it read.
LEMMA TaskFresh ==
    ASSUME MvInv, FreshInv, FrameWhole', NEW t \in tasks, UNCHANGED <<view, version, reads>>,
           \A u \in tasks' : u.step = "running" => u \in tasks \/ (u.q = t.q /\ u.rows = version[t.q]),
           \A p \in Queries : p # t.q => table'[p] = table[p] /\ CompletesKept(p),
           table'[t.q] \in {table[t.q], NoTable} \/ (t.step = "running" /\ table'[t.q] = t.rows),
           \A i \in DOMAIN internal' : IsComplete(i, t.q)' /\ internal'[i].o = "Built" =>
               t.step = "running" /\ table'[t.q] = t.rows
    PROVE  FreshInv' /\ Withdrawn
  <1>1. t.q \in Queries /\ view[t.q].mv.st # Fresh BY Zenon, TaskFacts, TaskNotFresh
  <1>2. ASSUME NEW p \in Queries PROVE BuildCurrent(p)'
    <2>1. BuildCurrent(p) BY Zenon DEF FreshInv
    <2>2. \A u \in tasks' : u.step = "running" /\ u.q = p => u \in tasks \/ u.rows = version[p] BY Zenon
    <2>3. CASE p = t.q BY Zenon, <1>1, <2>1, <2>2, <2>3 DEF BuildCurrent
    <2>4. CASE p # t.q
      <3>1. table'[p] = table[p] /\ CompletesKept(p) BY Zenon, <2>4
      <3>2. \A u \in tasks' : u.step = "running" /\ u.q = p => u \in tasks BY Zenon, <2>4
      <3> QED BY Zenon, <2>1, <3>1, <3>2 DEF BuildCurrent, CompletesKept
    <2> QED BY Zenon, <2>3, <2>4
  <1>3. ASSUME NEW r \in reads PROVE ReadOK(r)'
    <2>1. r.q \in Queries BY Zenon DEF FreshInv, ReadOK
    <2>2. \/ table'[r.q] \in {table[r.q], NoTable, Truncated}
          \/ \E u \in tasks : u.q = r.q /\ u.step = "running" /\ table'[r.q] = u.rows
      BY Zenon, <2>1
    <2> QED BY Zenon, <2>2, ReadKept
  <1> QED BY Zenon, <1>2, <1>3 DEF FreshInv, Withdrawn

LEMMA MoveFresh ==
    ASSUME MvInv, FreshInv, NEW t \in tasks, NEW next, next.q = t.q,
           next.step = "running" => next.rows = version[t.q],
           Step(t, next), UNCHANGED <<table, internal, buildVars>>
    PROVE  FreshInv' /\ Withdrawn
  <1>1. /\ tasks' = (tasks \ {t}) \cup {next}
        /\ UNCHANGED <<table, internal, view, version, frame, replayed, flagged, reads>>
    BY Zenon DEF Step, buildVars
  <1>2. FrameWhole' BY Zenon, <1>1 DEF FreshInv, FrameWhole
  <1>3. \A p \in Queries : CompletesKept(p) BY Zenon, <1>1, CompletesSame
  <1>4. \A i \in DOMAIN internal' : ~IsComplete(i, t.q)'
    <2>1. \A i \in DOMAIN internal : ~IsComplete(i, t.q) BY Zenon, TaskFacts
    <2> QED BY Zenon, <1>1, <2>1 DEF IsComplete
  <1> QED BY Zenon, <1>1, <1>2, <1>3, <1>4, TaskFresh

LEMMA FinishFresh ==
    ASSUME MvInv, FreshInv, NEW t \in tasks, NEW o \in {"Built", "Ineligible", "Failed"}, NEW slot,
           Finish(t, o, slot), UNCHANGED buildVars,
           \/ table' = table \/ table' = [table EXCEPT ![t.q] = NoTable]
           \/ t.step = "running" /\ table' = Stored(t),
           o = "Built" => t.step = "running" /\ table' = Stored(t)
    PROVE  FreshInv' /\ Withdrawn
  <1> DEFINE cmd == Complete(t, o)
  <1>1. /\ tasks' = tasks \ {t} /\ internal' = Append(internal, cmd)
        /\ UNCHANGED <<view, version, frame, replayed, flagged, reads>>
    BY Zenon DEF Finish, buildVars
  <1>2. t.q \in Queries /\ TaskOK(t) /\ \A i \in DOMAIN internal : ~IsComplete(i, t.q) BY Zenon, TaskFacts
  <1>3. cmd \in Command /\ cmd.c = "MvBuildComplete" /\ cmd.q = t.q /\ cmd.o = o
    BY Zenon, <1>2 DEF Complete, Command, TaskOK
  <1> HIDE DEF cmd
  <1>4. internal \in Seq(Command) BY Zenon DEF MvInv, ChannelsOK
  <1>5. FrameWhole' BY Zenon, <1>1, <1>3, AppendWhole
  <1>6. \A p \in Queries : p # t.q => CompletesKept(p) BY Zenon, <1>1, <1>3, <1>4, CompletesAppend
  <1>7. \A i \in DOMAIN internal' : internal'[i] = cmd \/ (i \in DOMAIN internal /\ internal'[i] = internal[i])
    BY <1>1, <1>4
  <1>8. \A i \in DOMAIN internal' : IsComplete(i, t.q)' => internal'[i].o = o
    BY Zenon, <1>2, <1>3, <1>7 DEF IsComplete
  <1>9. /\ \A p \in Queries : p # t.q => table'[p] = table[p]
        /\ table'[t.q] \in {table[t.q], NoTable} \/ (t.step = "running" /\ table'[t.q] = t.rows)
        /\ o = "Built" => t.step = "running" /\ table'[t.q] = t.rows
    BY Zenon, <1>2 DEF Stored, MvInv, FrameOK
  <1>10. \A u \in tasks' : u \in tasks BY Zenon, <1>1
  <1> QED BY <1>1, <1>5, <1>6, <1>8, <1>9, <1>10, TaskFresh

LEMMA BuildStepFresh ==
    ASSUME MvInv, FreshInv, BuildStep \/ BuildPanics
    PROVE  FreshInv' /\ Withdrawn
  <1>1. PICK t \in tasks : \/ slot_acquire(t) \/ mv_build_run(t) \/ mv_build_prepare(t)
                           \/ mv_build_batch(t) \/ mv_build_execute(t) \/ build_panic(t)
    BY Zenon DEF BuildStep, BuildPanics
  <1>2. TaskOK(t) BY Zenon, TaskFacts
  <1>3. ASSUME NEW slot, NEW step, step # "running",
               Step(t, [t EXCEPT !.slot = slot, !.step = step]) \/ Step(t, [t EXCEPT !.step = step]),
               UNCHANGED <<table, internal, buildVars>>
        PROVE  FreshInv' /\ Withdrawn
    <2> DEFINE a == [t EXCEPT !.slot = slot, !.step = step]
               b == [t EXCEPT !.step = step]
    <2>1. a.q = t.q /\ a.step = step /\ b.q = t.q /\ b.step = step BY Zenon, <1>2 DEF TaskOK
    <2>2. Step(t, a) \/ Step(t, b) BY Zenon, <1>3
    <2> HIDE DEF a, b
    <2> QED BY Zenon, <1>3, <2>1, <2>2, MoveFresh
  <1>4. CASE slot_acquire(t)
    <2>1. \E slot : Step(t, [t EXCEPT !.slot = slot, !.step = "connect"]) BY Zenon, <1>4 DEF slot_acquire
    <2> QED BY Zenon, <1>3, <1>4, <2>1 DEF slot_acquire
  <1>5. CASE mv_build_run(t) \/ mv_build_prepare(t) \/ build_panic(t)
    <2>1. UNCHANGED <<table, buildVars>> BY Zenon, <1>5 DEF mv_build_run, mv_build_prepare, build_panic
    <2>2. CASE /\ \/ Step(t, [t EXCEPT !.slot = "open", !.step = "prepare"])
                  \/ Step(t, [t EXCEPT !.step = "batch"])
               /\ UNCHANGED internal
      BY Zenon, <1>3, <2>1, <2>2
    <2>3. CASE \E o \in {"Ineligible", "Failed"}, slot \in {"none", "open"} : Finish(t, o, slot)
      BY Zenon, <2>1, <2>3, FinishFresh
    <2> QED BY Zenon, <1>5, <2>2, <2>3 DEF mv_build_run, mv_build_prepare, build_panic
  <1>6. CASE mv_build_batch(t)
    <2>1. UNCHANGED buildVars BY Zenon, <1>6 DEF mv_build_batch
    <2>2. CASE t.has_table <=> table[t.q] # NoTable
      <3> DEFINE next == [t EXCEPT !.step = "running", !.rows = version[t.q]]
      <3>1. Step(t, next) /\ UNCHANGED <<table, internal>> BY Zenon, <1>6, <2>2 DEF mv_build_batch
      <3>2. next.q = t.q /\ next.rows = version[t.q] BY Zenon, <1>2 DEF TaskOK
      <3> HIDE DEF next
      <3> QED BY Zenon, <2>1, <3>1, <3>2, MoveFresh
    <2>3. CASE ~(t.has_table <=> table[t.q] # NoTable)
      <3>1. Finish(t, "Failed", "open") /\ table' = [table EXCEPT ![t.q] = NoTable]
        BY Zenon, <1>6, <2>3 DEF mv_build_batch
      <3> QED BY Zenon, <2>1, <3>1, FinishFresh
    <2> QED BY Zenon, <2>2, <2>3
  <1>7. CASE mv_build_execute(t)
    <2>1. t.step = "running" /\ UNCHANGED buildVars BY Zenon, <1>7 DEF mv_build_execute
    <2>2. \E o \in {"Built", "Failed"}, slot \in {"none", "open"} :
              /\ Finish(t, o, slot) /\ table' \in {table, Stored(t)}
              /\ o = "Built" => table' = Stored(t)
      BY Zenon, <1>7 DEF mv_build_execute
    <2> QED BY Zenon, <2>1, <2>2, FinishFresh
  <1> QED BY Zenon, <1>1, <1>4, <1>5, <1>6, <1>7

LEMMA InitFresh == Init => FreshInv
  <1> SUFFICES ASSUME Init PROVE FreshInv BY Zenon
  <1>1. \A q \in Queries : view[q].mv = NewMeta BY Zenon DEF Init, Absent
  <1>2. \A q \in Queries : BuildCurrent(q) BY Zenon, <1>1, InitialStale DEF BuildCurrent
  <1> QED BY <1>2 DEF Init, FreshInv, FrameWhole

=============================================================================
