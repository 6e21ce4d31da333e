------------------------ MODULE MvLifecycleCommands -------------------------
(*****************************************************************************)
(* MvInv is inductive, second part: the commands the writer takes from its *)
(* channels, and the tables under a running batch.                         *)
(*****************************************************************************)
EXTENDS MvLifecycleView

-----------------------------------------------------------------------------
(* The query of a command.                                                 *)

\* A query without a build in flight or completed.
LEMMA EndStep ==
    ASSUME NEW q \in Queries, q \notin inflight', \A t \in tasks' : t.q # q,
           \A i \in DOMAIN internal' : ~IsComplete(i, q)',
           ~InFlightState(view'[q].mv.st), view'[q].state = "absent" => view'[q].mv.st = mv_state_initial,
           q \in lost' => table'[q] # NoTable /\ ~view'[q].mv.st.table,
           q \notin lost' => (view'[q].mv.st.table <=> table'[q] # NoTable)
    PROVE  QueryOK(q)'
  <1>1. OneBuild(q)' BY Zenon DEF OneBuild, Tasked
  <1>2. EntryOK(q)' BY Zenon DEF EntryOK
  <1>3. q \in lost' => LostOK(q)' BY Zenon DEF LostOK
  <1>4. q \notin lost' => KnownOK(q)' BY Zenon DEF KnownOK, Accounted
  <1> QED BY Zenon, <1>1, <1>2, <1>3, <1>4 DEF QueryOK

\* A query whose build starts: its task is the only one, and knows the table.
LEMMA StartStep ==
    ASSUME NEW q \in Queries, NEW task, task.step = "slot", q \in inflight', task \in tasks',
           \A t \in tasks' : t.q = q => t = task,
           \A i \in DOMAIN internal' : ~IsComplete(i, q)',
           InFlightState(view'[q].mv.st), view'[q].state # "absent", task.has_table = view'[q].mv.st.table,
           q \in lost' => table'[q] # NoTable /\ ~view'[q].mv.st.table,
           q \notin lost' => (view'[q].mv.st.table <=> table'[q] # NoTable)
    PROVE  QueryOK(q)'
  <1>1. OneBuild(q)' BY Zenon DEF OneBuild, Tasked
  <1>2. EntryOK(q)' BY Zenon DEF EntryOK
  <1>3. q \in lost' => LostOK(q)' BY Zenon DEF LostOK
  <1>4. q \notin lost' => KnownOK(q)' BY Zenon DEF KnownOK, Accounted, Building
  <1> QED BY Zenon, <1>1, <1>2, <1>3, <1>4 DEF QueryOK

\* A task in its first step holds no slot.
LEMMA NewTask ==
    ASSUME MvInv, NEW q \in Queries, NEW h \in BOOLEAN, NEW k, NEW task, task = Task(q, h, k),
           tasks' = tasks \cup {task}, UNCHANGED idle, IsFiniteSet(tasks')
    PROVE  TasksOK' /\ task.q = q /\ task.has_table = h /\ task.step = "slot"
  <1>1. /\ DOMAIN task = {"id", "q", "has_table", "known", "step", "slot", "rows"}
        /\ task.q = q /\ task.has_table = h /\ task.step = "slot" /\ task.slot = "" /\ task.rows = 0
    BY Zenon DEF Task
  <1>2. 0 \in 0..MaxVersion BY MvAssumption
  <1>3. TaskOK(task) BY Zenon, <1>1, <1>2 DEF TaskOK, Steps
  <1>5. {t \in tasks' : t.slot # ""} = {t \in tasks : t.slot # ""} BY Zenon, <1>1
  <1>6. SlotsKept' BY Zenon, <1>5 DEF MvInv, TasksOK, SlotsKept
  <1> QED BY Zenon, <1>1, <1>3, <1>6 DEF MvInv, TasksOK

\* What a command other than its own does not concern.
OthersKept(q) ==
    \A p \in Queries : p # q => SoftEntry(p) /\ BuildKept(p) /\ TableKept(p)
LEMMA CommandSafe ==
    ASSUME MvInv, NEW q \in Queries, ViewOK(view'), ChannelsOK', TasksOK', OthersKept(q), QueryOK(q)',
           UNCHANGED <<version, frame, replayed, flagged>>,
           table' \in [Queries -> {NoTable, Truncated} \cup 1 .. MaxVersion]
    PROVE  MvInv'
  <1>1. FrameOK' BY Zenon DEF MvInv, FrameOK
  <1>2. ASSUME NEW p \in Queries, p # q PROVE QueryOK(p)'
    BY Zenon, <1>2, SoftStep DEF MvInv, OthersKept, SoftEntry
  <1> QED BY Zenon, <1>1, <1>2 DEF MvInv

-----------------------------------------------------------------------------
(* The writer's commands.                                                  *)

LEMMA BuildSafe ==
    ASSUME MvInv, NEW q \in Queries, ChannelsOK', \A p \in Queries : CompletesKept(p),
           NEW d, d = mv_build_dispatch(q, inflight), view' = d.view, inflight' = d.flight, tasks' = d.tasks,
           UNCHANGED <<table, version, frame, replayed, flagged, idle, lost>>, IsFiniteSet(tasks')
    PROVE  MvInv'
  <1>1. CASE q \in inflight \/ ~mv_context_snapshot(q)
    <2>1. UNCHANGED <<view, inflight, tasks>> BY Zenon, <1>1 DEF mv_build_dispatch
    <2>2. FrameOK' BY Zenon, FrameFrame DEF MvInv
    <2>3. \A p \in Queries : SoftEntry(p) BY Zenon, <2>1, SameEntry
    <2>4. ViewOK(view') BY Zenon, <2>1 DEF MvInv
    <2> QED BY Zenon, <2>1, <2>2, <2>3, <2>4, SoftSafe
  <1>2. CASE q \notin inflight /\ mv_context_snapshot(q)
    <2> DEFINE task == Task(q, view[q].mv.st.table, view[q].mv.plan)
    <2>1. /\ view' = SetName(view, q, "Building") /\ inflight' = inflight \cup {q} /\ tasks' = tasks \cup {task}
      BY Zenon, <1>2 DEF mv_build_dispatch, SetName
    <2>2. view[q].mv.st.s = "Scheduled" /\ view[q].state = "Ready" BY Zenon, <1>2 DEF mv_context_snapshot, Ready
    <2>3. /\ ViewOK(view')
          /\ \A p \in Queries :
                /\ view'[p].state = view[p].state
                /\ view'[p].mv.st = IF p = q THEN State("Building", view[q].mv.st.table) ELSE view[p].mv.st
      BY <2>1, <2>2, ClaimFacts DEF MvInv
    <2>4. view[q].mv.st.table \in BOOLEAN BY Zenon, StateFacts DEF MvInv, ViewOK
    <2>5. TasksOK' /\ task.q = q /\ task.has_table = view[q].mv.st.table /\ task.step = "slot"
      BY <2>1, <2>4, NewTask
    <2> HIDE DEF task
    <2>6. QueryOK(q) BY Zenon DEF MvInv
    <2>7. ~Tasked(q) /\ \A i \in DOMAIN internal : ~IsComplete(i, q)
      BY Zenon, <1>2, <2>6 DEF QueryOK, OneBuild
    <2>8. \A i \in DOMAIN internal' : ~IsComplete(i, q)' BY Zenon, <2>7 DEF CompletesKept
    <2>9. OthersKept(q)
      BY Zenon, <2>1, <2>3, <2>5, SameEntry DEF OthersKept, BuildKept, TableKept
    <2>10. /\ InFlightState(view'[q].mv.st) /\ view'[q].mv.st.table = view[q].mv.st.table
           /\ view'[q].state # "absent"
      BY <2>2, <2>3 DEF InFlightState, State
    <2>11. \A t \in tasks' : t.q = q => t = task BY Zenon, <2>1, <2>7 DEF Tasked
    <2>12. q \in lost' => table'[q] # NoTable /\ ~view'[q].mv.st.table BY Zenon, <2>6, <2>10 DEF QueryOK, LostOK
    <2>13. q \notin lost' => (view'[q].mv.st.table <=> table'[q] # NoTable)
      BY Zenon, <1>2, <2>6, <2>10 DEF QueryOK, KnownOK, Accounted, Building
    <2>14. QueryOK(q)' BY <2>1, <2>5, <2>8, <2>10, <2>11, <2>12, <2>13, StartStep
    <2>15. table' \in [Queries -> {NoTable, Truncated} \cup 1 .. MaxVersion] BY Zenon DEF MvInv, FrameOK
    <2> QED BY Zenon, <2>3, <2>5, <2>9, <2>14, <2>15, CommandSafe
  <1> QED BY Zenon, <1>1, <1>2

LEMMA ReadmittedSafe ==
    ASSUME MvInv, NEW q \in Queries, ChannelsOK', \A p \in Queries : CompletesKept(p), query_readmit(q),
           UNCHANGED <<table, inflight, tasks, version, frame, replayed, flagged, idle, lost>>
    PROVE  MvInv'
  <1>1. FrameOK' BY Zenon, FrameFrame DEF MvInv
  <1>2. CASE view' = view
    <2>1. ViewOK(view') /\ \A p \in Queries : SoftEntry(p) BY Zenon, <1>2, SameEntry DEF MvInv
    <2> QED BY Zenon, <1>1, <2>1, SoftSafe
  <1>3. CASE view[q].state # "absent" /\ view' = SetState(view, q, "Loading")
    <2>1. "Loading" \in States \ {"absent"} BY Zenon DEF States
    <2>2. ViewOK(view') /\ \A p \in Queries : SoftEntry(p) BY Zenon, <1>3, <2>1, StateSafe
    <2> QED BY Zenon, <1>1, <2>2, SoftSafe
  <1> QED BY Zenon, <1>2, <1>3 DEF query_readmit, SetState

\* A new MvMeta under one query.
SetMeta(v, q, m) == [v EXCEPT ![q].mv = m]
LEMMA MetaFacts ==
    ASSUME NEW v, ViewOK(v), NEW q \in Queries, NEW m, NEW w, w = SetMeta(v, q, m),
           DOMAIN m = {"st", "plan", "fresh", "wasted", "retry"}, m.st \in MvStates,
           m.st = Fresh <=> m.fresh # Never
    PROVE  /\ ViewOK(w) /\ w[q].mv = m /\ w[q].state = v[q].state
           /\ \A p \in Queries : p # q => w[p] = v[p]
  <1>1. w = [p \in Queries |-> w[p]] BY Zenon DEF ViewOK, SetMeta
  <1>2. \A p \in Queries : p # q => w[p] = v[p] BY Zenon DEF ViewOK, SetMeta
  <1>3. DOMAIN w[q] = {"state", "mv"} /\ w[q].state = v[q].state /\ w[q].mv = m BY Zenon DEF ViewOK, SetMeta
  <1>4. ViewOK(w) BY <1>1, <1>2, <1>3 DEF ViewOK
  <1> QED BY Zenon, <1>2, <1>3, <1>4

\* What an outcome makes of the entry and of the table, for a build that left
\* the table there or not.
Applied(r, q, st, has_table) ==
    /\ ViewOK(r.view) /\ r.view[q].state = view[q].state /\ r.view[q].mv.st = st
    /\ \A p \in Queries : p # q => r.view[p] = view[p] /\ r.table[p] = table[p]
    /\ r.table \in [Queries -> {NoTable, Truncated} \cup 1 .. MaxVersion]
    /\ r.table[q] = IF has_table THEN table[q] ELSE NoTable

LEMMA DroppedFacts ==
    ASSUME MvInv, NEW q \in Queries, InFlightState(view[q].mv.st),
           NEW st \in {State("Pending", FALSE), Ineligible}
    PROVE  Applied(Dropped(q, st), q, st, FALSE) /\ ~st.table /\ ~InFlightState(st)
  <1>1. st \in MvStates /\ st # Fresh /\ ~st.table /\ ~InFlightState(st)
    <2>1. CASE st = Ineligible
      <3>1. st.s = "Ineligible" /\ st.table = FALSE BY Zenon, <2>1 DEF State, Ineligible
      <3> QED BY <2>1, <3>1 DEF MvStates, Fresh, State, InFlightState
    <2>2. CASE st = State("Pending", FALSE)
      <3>1. st.s = "Pending" /\ st.table = FALSE BY Zenon, <2>2 DEF State
      <3>2. st \in MvStates BY Zenon, <2>2 DEF MvStates, State
      <3> QED BY <3>1, <3>2 DEF Fresh, State, InFlightState
    <2> QED BY Zenon, <2>1, <2>2
  <1>2. view[q].mv.st # Fresh BY DEF InFlightState, Fresh, State
  <1> DEFINE r == Dropped(q, st)
  <1>3. r.view = SetMv(view, q, st) /\ r.table = [table EXCEPT ![q] = NoTable]
    BY Zenon DEF Dropped, mv_state_write, SetMv
  <1> HIDE DEF r
  <1>4. /\ ViewOK(r.view)
        /\ \A p \in Queries : r.view[p].state = view[p].state /\ r.view[p].mv.st = IF p = q THEN st ELSE view[p].mv.st
    BY <1>1, <1>2, <1>3, WriteFacts DEF MvInv
  <1>5. \A p \in Queries : p # q => r.view[p] = view[p] BY Zenon, <1>3 DEF SetMv, MvInv, ViewOK
  <1>6. /\ r.table \in [Queries -> {NoTable, Truncated} \cup 1 .. MaxVersion] /\ r.table[q] = NoTable
        /\ \A p \in Queries : p # q => r.table[p] = table[p]
    BY Zenon, <1>3 DEF MvInv, FrameOK
  <1>7. Applied(r, q, st, FALSE) BY Zenon, <1>4, <1>5, <1>6 DEF Applied
  <1> QED BY Zenon, <1>1, <1>7 DEF r

LEMMA MetaApplied ==
    ASSUME MvInv, NEW q \in Queries, NEW m, NEW r, r.view = SetMeta(view, q, m), r.table = table,
           DOMAIN m = {"st", "plan", "fresh", "wasted", "retry"}, m.st \in MvStates,
           m.st = Fresh <=> m.fresh # Never
    PROVE  Applied(r, q, m.st, TRUE)
  <1>1. /\ ViewOK(r.view) /\ r.view[q].mv = m /\ r.view[q].state = view[q].state
        /\ \A p \in Queries : p # q => r.view[p] = view[p]
    BY MetaFacts DEF MvInv
  <1>2. table \in [Queries -> {NoTable, Truncated} \cup 1 .. MaxVersion] BY Zenon DEF MvInv, FrameOK
  <1> QED BY Zenon, <1>1, <1>2 DEF Applied

LEMMA FreshenedFacts ==
    ASSUME MvInv, NEW q \in Queries
    PROVE  Applied(Freshened(q), q, Fresh, TRUE) /\ Fresh.table /\ ~InFlightState(Fresh)
  <1> DEFINE m == [view[q].mv EXCEPT !.st = Fresh, !.plan = TRUE, !.fresh = 0]
             r == Freshened(q)
  <1>1. DOMAIN view[q].mv = {"st", "plan", "fresh", "wasted", "retry"} BY Zenon DEF MvInv, ViewOK
  <1>2. /\ DOMAIN m = {"st", "plan", "fresh", "wasted", "retry"} /\ m.st = Fresh /\ m.fresh = 0
    BY Zenon, <1>1
  <1>3. r.view = SetMeta(view, q, m) /\ r.table = table BY Zenon DEF Freshened, SetMeta
  <1>4. Fresh \in MvStates /\ Fresh.table /\ ~InFlightState(Fresh) /\ 0 # Never
    BY DEF Fresh, State, MvStates, InFlightState, Never
  <1> HIDE DEF m, r
  <1>5. Applied(r, q, m.st, TRUE) BY Zenon, <1>2, <1>3, <1>4, MetaApplied
  <1> QED BY Zenon, <1>2, <1>4, <1>5 DEF r

LEMMA WastedFacts ==
    ASSUME MvInv, NEW q \in Queries, InFlightState(view[q].mv.st), NEW h \in BOOLEAN
    PROVE  /\ Applied(Wasted(q, h), q, State("Pending", h), TRUE)
           /\ State("Pending", h).table = h /\ ~InFlightState(State("Pending", h))
  <1> DEFINE st == State("Pending", h)
             x == waste_record(view[q].mv)
             m == [x EXCEPT !.st = st]
             r == Wasted(q, h)
  <1>1. /\ DOMAIN view[q].mv = {"st", "plan", "fresh", "wasted", "retry"} /\ view[q].mv.fresh = Never
    BY DEF MvInv, ViewOK, InFlightState, Fresh, State
  <1>2. DOMAIN x = {"st", "plan", "fresh", "wasted", "retry"} /\ x.fresh = Never
    BY Zenon, <1>1 DEF waste_record
  <1>3. r.view = SetMeta(view, q, m) /\ r.table = table BY Zenon DEF Wasted, SetMeta
  <1>4. st \in MvStates /\ st # Fresh /\ st.table = h /\ ~InFlightState(st)
    BY Zenon DEF Fresh, State, MvStates, InFlightState
  <1> HIDE DEF x, st
  <1>5. DOMAIN m = {"st", "plan", "fresh", "wasted", "retry"} /\ m.st = st /\ m.fresh = Never BY Zenon, <1>2
  <1> HIDE DEF m, r
  <1>6. Applied(r, q, m.st, TRUE) BY Zenon, <1>3, <1>4, <1>5, MetaApplied
  <1> QED BY Zenon, <1>4, <1>5, <1>6 DEF r, st

LEMMA IneligibleFacts ==
    ASSUME MvInv, NEW q \in Queries, InFlightState(view[q].mv.st),
           NEW r, r = [view |-> mv_state_write(q, Ineligible), table |-> table]
    PROVE  Applied(r, q, Ineligible, TRUE) /\ ~Ineligible.table /\ ~InFlightState(Ineligible)
  <1>1. Ineligible \in MvStates /\ Ineligible # Fresh /\ ~Ineligible.table /\ ~InFlightState(Ineligible)
    BY Zenon DEF State, Ineligible, Fresh, MvStates, InFlightState
  <1>2. view[q].mv.st # Fresh BY DEF InFlightState, Fresh, State
  <1>3. r.view = SetMv(view, q, Ineligible) /\ r.table = table BY Zenon DEF mv_state_write, SetMv
  <1>4. /\ ViewOK(r.view)
        /\ \A p \in Queries : /\ r.view[p].state = view[p].state
                              /\ r.view[p].mv.st = IF p = q THEN Ineligible ELSE view[p].mv.st
    BY <1>1, <1>2, <1>3, WriteFacts DEF MvInv
  <1>5. \A p \in Queries : p # q => r.view[p] = view[p] BY Zenon, <1>3 DEF SetMv, MvInv, ViewOK
  <1>6. table \in [Queries -> {NoTable, Truncated} \cup 1 .. MaxVersion] BY Zenon DEF MvInv, FrameOK
  <1> QED BY Zenon, <1>1, <1>3, <1>4, <1>5, <1>6 DEF Applied

\* A completion at the head of the channel is the only one of its query, whose
\* build is over.
LEMMA HeadFacts ==
    ASSUME MvInv, internal # <<>>, NEW cmd, cmd = Head(internal), internal' = Tail(internal)
    PROVE  /\ cmd \in Command
           /\ cmd.c = "MvBuildComplete" =>
                /\ cmd.q \in inflight /\ (\A t \in tasks : t.q # cmd.q) /\ cmd.o # ""
                /\ \A i \in DOMAIN internal' : ~IsComplete(i, cmd.q)'
                /\ cmd.q \in lost => /\ table[cmd.q] # NoTable /\ ~view[cmd.q].mv.st.table
                                     /\ cmd.o # "Built" /\ ~cmd.table
                /\ cmd.q \notin lost => /\ cmd.o = "Built" => table[cmd.q] # NoTable
                                        /\ cmd.o = "Failed" => (cmd.table <=> table[cmd.q] # NoTable)
                                        /\ cmd.o = "Ineligible" => table[cmd.q] = NoTable
  <1>1. internal \in Seq(Command) BY Zenon DEF MvInv, ChannelsOK
  <1>2. /\ cmd \in Command /\ cmd = internal[1] /\ 1 \in DOMAIN internal
        /\ DOMAIN internal' = 1..(Len(internal) - 1) /\ Len(internal) \in Nat
        /\ DOMAIN internal = 1..Len(internal)
    BY <1>1
  <1>3. \A i \in DOMAIN internal' : i + 1 \in DOMAIN internal /\ internal'[i] = internal[i + 1] /\ i + 1 # 1
    BY <1>1, <1>2
  <1>4. ASSUME cmd.c = "MvBuildComplete"
        PROVE  IsComplete(1, cmd.q) /\ cmd.q \in Queries /\ QueryOK(cmd.q)
    BY Zenon, <1>2, <1>4 DEF IsComplete, Command, MvInv
  <1>5. ASSUME cmd.c = "MvBuildComplete", NEW i \in DOMAIN internal', IsComplete(i, cmd.q)' PROVE FALSE
    <2>1. IsComplete(i + 1, cmd.q) BY Zenon, <1>3, <1>5 DEF IsComplete
    <2> QED BY Zenon, <1>2, <1>3, <1>4, <1>5, <2>1 DEF QueryOK, OneBuild
  <1>6. ASSUME cmd.c = "MvBuildComplete"
        PROVE  cmd.q \in inflight /\ (\A t \in tasks : t.q # cmd.q) /\ cmd.o # ""
    BY Zenon, <1>2, <1>4, <1>6 DEF QueryOK, OneBuild, Tasked
  <1>7. ASSUME cmd.c = "MvBuildComplete", cmd.q \in lost
        PROVE  table[cmd.q] # NoTable /\ ~view[cmd.q].mv.st.table /\ cmd.o # "Built" /\ ~cmd.table
    BY Zenon, <1>2, <1>4, <1>7 DEF QueryOK, LostOK
  <1>8. ASSUME cmd.c = "MvBuildComplete", cmd.q \notin lost
        PROVE  /\ cmd.o = "Built" => table[cmd.q] # NoTable
               /\ cmd.o = "Failed" => (cmd.table <=> table[cmd.q] # NoTable)
               /\ cmd.o = "Ineligible" => table[cmd.q] = NoTable
    BY Zenon, <1>2, <1>4, <1>8 DEF QueryOK, KnownOK
  <1> QED BY ZenonT(30), <1>2, <1>5, <1>6, <1>7, <1>8

\* The outcome of a build, for the entry that started it.
LEMMA OutcomeFacts ==
    ASSUME MvInv, internal # <<>>, NEW cmd, cmd = Head(internal), internal' = Tail(internal),
           cmd.c = "MvBuildComplete", NEW q, q = cmd.q, InFlightState(view[q].mv.st),
           NEW r, r = mv_build_outcome_apply(q, cmd)
    PROVE  \E st, h : /\ Applied(r, q, st, h) /\ ~InFlightState(st)
                      /\ q \in lost => r.table[q] # NoTable /\ ~st.table
                      /\ q \notin lost => (st.table <=> r.table[q] # NoTable)
  <1>1. cmd \in Command /\ q \in Queries /\ cmd.table \in BOOLEAN /\ cmd.o \in {"Built", "Ineligible", "Failed"}
    <2>1. cmd \in Command /\ cmd.o # "" BY Zenon, HeadFacts
    <2>2. /\ cmd.q \in Queries /\ cmd.table \in BOOLEAN /\ cmd.o \in {"", "Built", "Ineligible", "Failed"}
      BY Zenon, <2>1 DEF Command
    <2> QED BY Zenon, <2>1, <2>2
  <1>2. /\ q \in lost => table[q] # NoTable /\ cmd.o # "Built" /\ ~cmd.table
        /\ q \notin lost => /\ cmd.o = "Built" => table[q] # NoTable
                            /\ cmd.o = "Failed" => (cmd.table <=> table[q] # NoTable)
                            /\ cmd.o = "Ineligible" => table[q] = NoTable
    BY Zenon, HeadFacts
  <1>3. CASE cmd.o = "Built"
    <2>1. r = BuiltApply(q, cmd) BY Zenon, <1>3 DEF mv_build_outcome_apply
    <2>2. q \notin lost /\ table[q] # NoTable BY Zenon, <1>2, <1>3
    <2>3. ASSUME NEW st \in {State("Pending", FALSE), Ineligible}, r = Dropped(q, st)
          PROVE  Applied(r, q, st, FALSE) /\ ~InFlightState(st) /\ ~st.table
      BY ZenonT(30), <1>1, <2>3, DroppedFacts
    <2>4. CASE \E st \in {State("Pending", FALSE), Ineligible} : r = Dropped(q, st)
      BY Zenon, <2>2, <2>3, <2>4 DEF Applied
    <2>5. CASE r = Wasted(q, TRUE)
      <3>1. /\ Applied(r, q, State("Pending", TRUE), TRUE) /\ ~InFlightState(State("Pending", TRUE))
            /\ State("Pending", TRUE).table = TRUE
        BY Zenon, <1>1, <2>5, WastedFacts
      <3> QED BY Zenon, <2>2, <3>1 DEF Applied
    <2>6. CASE r = Freshened(q)
      <3>1. Applied(r, q, Fresh, TRUE) /\ Fresh.table /\ ~InFlightState(Fresh) BY Zenon, <1>1, <2>6, FreshenedFacts
      <3> QED BY ZenonT(30), <2>2, <3>1 DEF Applied
    <2> QED BY Zenon, <2>1, <2>4, <2>5, <2>6 DEF BuiltApply
  <1>4. CASE cmd.o = "Ineligible"
    <2>1. r = [view |-> mv_state_write(q, Ineligible), table |-> table] BY Zenon, <1>4 DEF mv_build_outcome_apply
    <2>2. Applied(r, q, Ineligible, TRUE) /\ ~Ineligible.table /\ ~InFlightState(Ineligible)
      BY Zenon, <1>1, <2>1, IneligibleFacts
    <2> QED BY Zenon, <1>2, <1>4, <2>2 DEF Applied
  <1>5. CASE cmd.o = "Failed"
    <2>1. r = Wasted(q, cmd.table) BY Zenon, <1>5 DEF mv_build_outcome_apply
    <2>2. /\ Applied(r, q, State("Pending", cmd.table), TRUE) /\ ~InFlightState(State("Pending", cmd.table))
          /\ State("Pending", cmd.table).table = cmd.table
      BY Zenon, <1>1, <2>1, WastedFacts
    <2> QED BY Zenon, <1>2, <1>5, <2>2 DEF Applied
  <1> QED BY Zenon, <1>1, <1>3, <1>4, <1>5

LEMMA CompleteSafe ==
    ASSUME MvInv, internal # <<>>, NEW cmd, cmd = Head(internal), internal' = Tail(internal),
           cmd.c = "MvBuildComplete", mv_build_complete(cmd),
           UNCHANGED <<dispatched, version, frame, replayed, flagged, idle, lost>>, IsFiniteSet(tasks')
    PROVE  MvInv'
  <1> DEFINE q == cmd.q
             st == view[q].mv.st
             flight == inflight \ {q}
             present == view[q].state # "absent"
             again == IF present /\ st.s = "Scheduled" THEN mv_build_dispatch(q, flight)
                      ELSE [view |-> view, flight |-> flight, tasks |-> tasks]
             applied == mv_build_outcome_apply(q, cmd)
  <1>1. /\ view' = IF present /\ InFlightState(st) THEN applied.view ELSE again.view
        /\ table' = IF present /\ InFlightState(st) THEN applied.table ELSE mv_table_drop(q, cmd)
        /\ inflight' = again.flight /\ tasks' = again.tasks
    BY Zenon DEF mv_build_complete
  <1>2. cmd \in Command /\ q \in Queries
    <2>1. cmd \in Command BY Zenon, HeadFacts
    <2> QED BY Zenon, <2>1 DEF Command
  <1>3. /\ q \in inflight /\ (\A t \in tasks : t.q # q) /\ cmd.o # ""
        /\ \A i \in DOMAIN internal' : ~IsComplete(i, q)'
        /\ q \in lost => table[q] # NoTable /\ ~st.table /\ cmd.o # "Built" /\ ~cmd.table
        /\ q \notin lost => /\ cmd.o = "Built" => table[q] # NoTable
                            /\ cmd.o = "Failed" => (cmd.table <=> table[q] # NoTable)
                            /\ cmd.o = "Ineligible" => table[q] = NoTable
    BY Zenon, HeadFacts
  <1>4. QueryOK(q) BY Zenon, <1>2 DEF MvInv
  <1>5. internal \in Seq(Command) BY Zenon DEF MvInv, ChannelsOK
  <1>6. ChannelsOK' BY <1>5 DEF MvInv, ChannelsOK
  <1>7. \A p \in Queries : CompletesKept(p) BY Zenon, <1>5, CompletesTail
  <1>8. CASE present /\ InFlightState(st)
    <2>1. inflight' = inflight \ {q} /\ tasks' = tasks BY Zenon, <1>1, <1>8 DEF InFlightState
    <2> HIDE DEF again, flight
    <2> DEFINE r == applied
    <2>2. PICK s, h : /\ Applied(r, q, s, h) /\ ~InFlightState(s)
                      /\ q \in lost => r.table[q] # NoTable /\ ~s.table
                      /\ q \notin lost => (s.table <=> r.table[q] # NoTable)
      BY Zenon, <1>8, OutcomeFacts
    <2>3. view' = r.view /\ table' = r.table BY Zenon, <1>1, <1>8
    <2> HIDE DEF r, applied
    <2>4. /\ ViewOK(view') /\ view'[q].state = view[q].state /\ view'[q].mv.st = s
          /\ \A p \in Queries : p # q => view'[p] = view[p] /\ table'[p] = table[p]
          /\ table' \in [Queries -> {NoTable, Truncated} \cup 1 .. MaxVersion]
      BY Zenon, <2>2, <2>3 DEF Applied
    <2>5. TasksOK' BY Zenon, <2>1, TasksFrame DEF MvInv
    <2>6. QueryOK(q)' BY ZenonT(30), <1>2, <1>3, <1>8, <2>1, <2>2, <2>3, <2>4, EndStep
    <2>7. OthersKept(q) BY Zenon, <1>7, <2>1, <2>4, SameEntry DEF OthersKept, BuildKept, TableKept
    <2> QED BY ZenonT(30), <1>2, <1>6, <2>4, <2>5, <2>6, <2>7, CommandSafe
  <1>9. CASE ~(present /\ InFlightState(st))
    <2>1. ~InFlightState(st) /\ ~st.table
      <3>1. ~present => ~InFlightState(st) BY <1>4 DEF QueryOK, EntryOK, mv_state_initial, State, InFlightState
      <3> QED BY ZenonT(30), <1>3, <1>4, <1>9, <3>1 DEF QueryOK, EntryOK
    <2>2. view' = again.view /\ table' = mv_table_drop(q, cmd) BY Zenon, <1>1, <1>9
    <2>3. /\ table' \in [Queries -> {NoTable, Truncated} \cup 1 .. MaxVersion]
          /\ \A p \in Queries : p # q => table'[p] = table[p]
          /\ table'[q] = IF cmd.o = "Built" \/ (cmd.o = "Failed" /\ cmd.table) THEN NoTable ELSE table[q]
      BY Zenon, <1>2, <2>2 DEF mv_table_drop, MvInv, FrameOK
    <2>4. /\ q \in lost => table'[q] # NoTable
          /\ q \notin lost => table'[q] = NoTable
      BY Zenon, <1>2, <1>3, <2>3 DEF Command
    <2>5. CASE present /\ st.s = "Scheduled" /\ mv_context_snapshot(q)
      <3> DEFINE task == Task(q, view[q].mv.st.table, view[q].mv.plan)
      <3>1. /\ view' = SetName(view, q, "Building") /\ inflight' = (inflight \ {q}) \cup {q}
            /\ tasks' = tasks \cup {task}
        BY Zenon, <1>1, <2>2, <2>5 DEF mv_build_dispatch, SetName
      <3>2. view[q].mv.st.s = "Scheduled" /\ view[q].state = "Ready" BY Zenon, <2>5 DEF mv_context_snapshot, Ready
      <3> HIDE DEF q, st, again, applied, flight, present, task
      <3>0. ViewOK(view) BY Zenon DEF MvInv
      <3>3. /\ ViewOK(view')
            /\ \A p \in Queries :
                  /\ view'[p].state = view[p].state
                  /\ view'[p].mv.st = IF p = q THEN State("Building", view[q].mv.st.table) ELSE view[p].mv.st
        BY <1>2, <3>0, <3>1, <3>2, ClaimFacts
      <3>4. view[q].mv.st.table \in BOOLEAN BY ZenonT(30), <1>2, StateFacts DEF MvInv, ViewOK
      <3>5. TasksOK' /\ task.q = q /\ task.has_table = view[q].mv.st.table /\ task.step = "slot"
        BY <1>2, <3>1, <3>4, NewTask DEF task
      <3>6. ASSUME NEW p \in Queries, p # q PROVE SoftEntry(p) /\ BuildKept(p) /\ TableKept(p)
        <4>1. view'[p].mv.st = view[p].mv.st /\ view'[p].state = view[p].state BY Zenon, <3>3, <3>6
        <4>2. SoftEntry(p) BY Zenon, <4>1, SameEntry
        <4>3. \A t \in tasks \cup tasks' : t.q = p => t \in tasks /\ t \in tasks' BY Zenon, <3>1, <3>5, <3>6
        <4>4. p \in inflight' <=> p \in inflight BY Zenon, <3>1, <3>6
        <4> QED BY Zenon, <1>7, <2>3, <3>6, <4>2, <4>3, <4>4 DEF BuildKept, TableKept
      <3>10. OthersKept(q) BY Zenon, <3>6 DEF OthersKept
      <3>7. /\ InFlightState(view'[q].mv.st) /\ view'[q].mv.st.table = view[q].mv.st.table
            /\ view'[q].state # "absent"
        BY <1>2, <3>2, <3>3 DEF InFlightState, State
      <3>8. \A t \in tasks' : t.q = q => t = task BY Zenon, <1>3, <3>1
      <3>9. QueryOK(q)'
        <4>1. q \in inflight' /\ task \in tasks' BY Zenon, <3>1
        <4>2. ~view'[q].mv.st.table BY Zenon, <2>1, <3>7 DEF st
        <4> QED BY ZenonT(30), <1>2, <1>3, <2>4, <3>5, <3>7, <3>8, <4>1, <4>2, StartStep
      <3> QED BY Zenon, <1>2, <1>6, <2>3, <3>3, <3>5, <3>9, <3>10, CommandSafe
    <2>6. CASE ~(present /\ st.s = "Scheduled" /\ mv_context_snapshot(q))
      <3>1. view' = view /\ inflight' = inflight \ {q} /\ tasks' = tasks
        BY Zenon, <1>1, <2>2, <2>6 DEF mv_build_dispatch
      <3>2. ViewOK(view') /\ TasksOK' BY Zenon, <3>1, TasksFrame DEF MvInv
      <3>3. view[q].state = "absent" => view[q].mv.st = mv_state_initial BY Zenon, <1>4 DEF QueryOK, EntryOK
      <3>4. QueryOK(q)' BY Zenon, <1>2, <1>3, <2>1, <2>4, <3>1, <3>3, EndStep
      <3>5. OthersKept(q) BY Zenon, <1>7, <2>3, <3>1, SameEntry DEF OthersKept, BuildKept, TableKept
      <3> QED BY Zenon, <1>2, <1>6, <2>3, <3>2, <3>4, <3>5, CommandSafe
    <2> QED BY Zenon, <2>5, <2>6
  <1> QED BY Zenon, <1>8, <1>9

LEMMA CommandsSafe ==
    ASSUME MvInv, query_command_received, IsFiniteSet(tasks')
    PROVE  MvInv'
  <1>1. dispatched \in Seq(Builds) /\ internal \in Seq(Command) BY Zenon DEF MvInv, ChannelsOK
  <1>2. CASE /\ dispatched # <<>> /\ query_command_handle(Head(dispatched)) /\ dispatched' = Tail(dispatched)
             /\ UNCHANGED <<scenario, internal, version, frame, replayed, flagged, idle, reads, lost>>
    <2> DEFINE cmd == Head(dispatched)
    <2>1. cmd \in Builds BY <1>1, <1>2
    <2>3. query_command_handle(cmd) BY Zenon, <1>2
    <2> HIDE DEF cmd
    <2>2. cmd.c = "MvBuild" /\ cmd.q \in Queries
      <3>1. PICK p \in Queries : cmd = CommandBuild(p) BY Zenon, <2>1 DEF Builds
      <3> QED BY Zenon, <3>1 DEF CommandBuild
    <2>4. /\ view' = mv_build_dispatch(cmd.q, inflight).view /\ inflight' = mv_build_dispatch(cmd.q, inflight).flight
          /\ tasks' = mv_build_dispatch(cmd.q, inflight).tasks /\ table' = table
      BY Zenon, <2>2, <2>3 DEF query_command_handle
    <2>5. dispatched' \in Seq(Builds) BY <1>1, <1>2
    <2>6. ChannelsOK' BY Zenon, <1>1, <1>2, <2>5 DEF ChannelsOK
    <2>7. \A p \in Queries : CompletesKept(p) BY Zenon, <1>2, CompletesSame
    <2> QED BY Zenon, <1>2, <2>2, <2>4, <2>6, <2>7, BuildSafe
  <1>3. CASE /\ internal # <<>> /\ query_command_handle(Head(internal)) /\ internal' = Tail(internal)
             /\ UNCHANGED <<scenario, dispatched, version, frame, replayed, flagged, idle, reads, lost>>
    <2> DEFINE cmd == Head(internal)
    <2>1. cmd \in Command BY <1>1, <1>3
    <2>2. cmd.q \in Queries BY Zenon, <2>1 DEF Command
    <2>3. query_command_handle(cmd) /\ cmd = Head(internal) BY Zenon, <1>3
    <2> HIDE DEF cmd
    <2>4. internal' \in Seq(Command) BY <1>1, <1>3
    <2>5. ChannelsOK' BY Zenon, <1>1, <1>3, <2>4 DEF ChannelsOK
    <2>6. \A p \in Queries : CompletesKept(p) BY Zenon, <1>1, <1>3, CompletesTail
    <2>7. CASE cmd.c = "MvBuild"
      <3>1. /\ view' = mv_build_dispatch(cmd.q, inflight).view /\ inflight' = mv_build_dispatch(cmd.q, inflight).flight
            /\ tasks' = mv_build_dispatch(cmd.q, inflight).tasks /\ table' = table
        BY Zenon, <2>3, <2>7 DEF query_command_handle
      <3> QED BY Zenon, <1>3, <2>2, <2>5, <2>6, <3>1, BuildSafe
    <2>8. CASE cmd.c = "MvBuildComplete"
      <3>1. mv_build_complete(cmd) BY Zenon, <2>3, <2>8 DEF query_command_handle
      <3> QED BY Zenon, <1>3, <2>3, <2>8, <3>1, CompleteSafe
    <2>9. CASE cmd.c = "Readmit"
      <3>1. query_readmit(cmd.q) /\ UNCHANGED <<table, inflight, tasks>>
        BY Zenon, <2>3, <2>9 DEF query_command_handle
      <3> QED BY Zenon, <1>3, <2>2, <2>5, <2>6, <3>1, ReadmittedSafe
    <2> QED BY Zenon, <2>3, <2>7, <2>8, <2>9 DEF query_command_handle
  <1> QED BY Zenon, <1>2, <1>3 DEF query_command_received

-----------------------------------------------------------------------------
(* The tables.                                                             *)

\* A table changes only where no build is running its batch.
LEMMA TableStep ==
    ASSUME MvInv, [Next]_vars, NEW q \in Queries, Locked(q), Locked(q)'
    PROVE  table'[q] = table[q]
  <1>1. PICK t \in tasks : t.q = q /\ t.step = "running" BY Zenon DEF Locked
  <1>2. PICK u \in tasks' : u.q = q /\ u.step = "running" BY Zenon DEF Locked
  <1>3. q \in inflight /\ (\A x \in tasks : x.q = q => x = t) /\ QueryOK(q)
    BY Zenon, <1>1, TaskFacts
  <1>4. table \in [Queries -> {NoTable, Truncated} \cup 1 .. MaxVersion] BY Zenon DEF MvInv, FrameOK
  <1>5. CASE Evict
    <2>1. PICK p \in Queries : cache_query_evict(p) BY Zenon, <1>5 DEF Evict
    <2>2. table' = IF ~InFlightState(view[p].mv.st) /\ view[p].mv.st.table
                   THEN [table EXCEPT ![p] = NoTable] ELSE table
      BY Zenon, <2>1 DEF cache_query_evict, mv_drop
    <2>3. ~(~InFlightState(view[q].mv.st) /\ view[q].mv.st.table) BY Zenon, <1>3 DEF QueryOK, EntryOK
    <2> QED BY Zenon, <1>4, <2>2, <2>3
  <1>6. CASE query_command_received
    <2>1. CASE dispatched # <<>> /\ query_command_handle(Head(dispatched)) /\ dispatched' = Tail(dispatched)
      <3> DEFINE cmd == Head(dispatched)
      <3>1. cmd \in Builds /\ query_command_handle(cmd) BY <2>1 DEF MvInv, ChannelsOK
      <3> HIDE DEF cmd
      <3>2. cmd.c = "MvBuild"
        <4>1. PICK p \in Queries : cmd = CommandBuild(p) BY Zenon, <3>1 DEF Builds
        <4> QED BY Zenon, <4>1 DEF CommandBuild
      <3> QED BY Zenon, <3>1, <3>2 DEF query_command_handle
    <2>2. CASE internal # <<>> /\ query_command_handle(Head(internal)) /\ internal' = Tail(internal)
      <3> DEFINE cmd == Head(internal)
      <3>1. query_command_handle(cmd) /\ cmd = Head(internal) BY Zenon, <2>2
      <3> HIDE DEF cmd
      <3>2. CASE cmd.c # "MvBuildComplete" BY Zenon, <3>1, <3>2 DEF query_command_handle
      <3>3. CASE cmd.c = "MvBuildComplete"
        <4>1. mv_build_complete(cmd) BY Zenon, <3>1, <3>3 DEF query_command_handle
        <4>2. cmd.q # q BY Zenon, <1>1, <2>2, <3>1, <3>3, HeadFacts
        <4>3. cmd.q \in Queries
          <5>1. cmd \in Command BY Zenon, <2>2, <3>1, HeadFacts
          <5> QED BY Zenon, <5>1 DEF Command
        <4>4. CASE view[cmd.q].state # "absent" /\ InFlightState(view[cmd.q].mv.st)
          <5> DEFINE r == mv_build_outcome_apply(cmd.q, cmd)
          <5>1. table' = r.table BY Zenon, <4>1, <4>4 DEF mv_build_complete
          <5>2. \E st, h : Applied(r, cmd.q, st, h) BY Zenon, <2>2, <3>1, <3>3, <4>4, OutcomeFacts
          <5> HIDE DEF r
          <5> QED BY Zenon, <4>2, <5>1, <5>2 DEF Applied
        <4>5. CASE ~(view[cmd.q].state # "absent" /\ InFlightState(view[cmd.q].mv.st))
          <5>1. table' = mv_table_drop(cmd.q, cmd) BY Zenon, <4>1, <4>5 DEF mv_build_complete
          <5> QED BY Zenon, <1>4, <4>2, <4>3, <5>1 DEF mv_table_drop
        <4> QED BY Zenon, <4>4, <4>5
      <3> QED BY Zenon, <3>2, <3>3
    <2> QED BY Zenon, <1>6, <2>1, <2>2 DEF query_command_received
  <1>7. CASE BuildStep
    <2>1. PICK x \in tasks : \/ slot_acquire(x) \/ mv_build_run(x) \/ mv_build_prepare(x)
                             \/ mv_build_batch(x) \/ mv_build_execute(x)
      BY Zenon, <1>7 DEF BuildStep
    <2>2. CASE slot_acquire(x) \/ mv_build_run(x) \/ mv_build_prepare(x)
      BY Zenon, <2>2 DEF slot_acquire, mv_build_run, mv_build_prepare
    <2>3. CASE mv_build_batch(x)
      <3>1. x.q # q BY Zenon, <1>1, <1>3, <2>3 DEF mv_build_batch
      <3>2. table' = table \/ table' = [table EXCEPT ![x.q] = NoTable] BY Zenon, <2>3 DEF mv_build_batch
      <3> QED BY Zenon, <1>4, <3>1, <3>2
    <2>4. CASE mv_build_execute(x)
      <3>1. tasks' = tasks \ {x} BY Zenon, <2>4 DEF mv_build_execute, Finish
      <3>2. x.q # q BY Zenon, <1>2, <1>3, <3>1
      <3>3. table' = table \/ table' = [table EXCEPT ![x.q] = x.rows] BY Zenon, <2>4 DEF mv_build_execute, Stored
      <3> QED BY Zenon, <1>4, <3>2, <3>3
    <2> QED BY Zenon, <2>1, <2>2, <2>3, <2>4
  <1>8. CASE mv_dirty_sweep
    <2>1. view[q].mv.st # State("Pending", TRUE)
      <3>1. ~InFlightState(State("Pending", TRUE)) /\ State("Pending", TRUE).table BY Zenon DEF InFlightState, State
      <3> QED BY Zenon, <1>3, <3>1 DEF QueryOK, EntryOK
    <2> QED BY Zenon, <1>8, <2>1 DEF mv_dirty_sweep
  <1>9. CASE /\ ~Evict /\ ~query_command_received /\ ~BuildStep /\ ~mv_dirty_sweep
    BY Zenon, <1>9 DEF Next, Register, query_register, Populated, query_ready_finalize, PopulationFailed,
         query_failed_cleanup, LimitBump, limit_bump_handle, Readmit, register_invalidated, RowEvent, row_event,
         batch_flush, HitMv, mv_serve_decide, HitSchedules, mv_schedule, Serve, serve_query_send,
         BuildPanics, build_panic, Tick, vars
  <1> QED BY Zenon, <1>5, <1>6, <1>7, <1>8, <1>9
=============================================================================
