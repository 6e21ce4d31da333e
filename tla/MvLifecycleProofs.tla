------------------------- MODULE MvLifecycleProofs --------------------------
(*****************************************************************************)
(* MvInv is an inductive invariant of MvLifecycle for every value of the   *)
(* constants: the initial state, the flush of a batch, the build tasks, and*)
(* the theorems.                                                           *)
(*****************************************************************************)
EXTENDS MvLifecycleFresh, FiniteSetTheorems

-----------------------------------------------------------------------------
(* The initial state and the flush.                                        *)

LEMMA InitSafe == Init => MvInv
  <1> SUFFICES ASSUME Init PROVE MvInv BY Zenon
  <1> USE DEF Init
  <1>1. /\ DOMAIN NewMeta = {"st", "plan", "fresh", "wasted", "retry"} /\ NewMeta.st \in MvStates
        /\ NewMeta.st # Fresh /\ NewMeta.fresh = Never /\ NewMeta.st = mv_state_initial
        /\ ~NewMeta.st.table /\ ~InFlightState(NewMeta.st)
    BY Zenon DEF NewMeta, mv_state_initial, State, MvStates, Fresh, InFlightState
  <1>2. \A q \in Queries : view[q] = [state |-> "absent", mv |-> NewMeta] BY Zenon DEF Absent
  <1>3. ViewOK(view) BY <1>1, <1>2 DEF ViewOK, States
  <1>4. ChannelsOK BY DEF ChannelsOK
  <1>5. FrameOK BY MvAssumption DEF FrameOK, NoTable
  <1>6. TasksOK
    <2>1. IsFiniteSet(tasks) /\ Cardinality({t \in tasks : t.slot # ""}) = 0
      <3>1. {t \in tasks : t.slot # ""} = {} BY Zenon
      <3> QED BY Zenon, <3>1, FS_EmptySet
    <2>2. /\ idle \in [{"none", "open"} -> Nat]
          /\ idle.none = MV_BUILD_CONNECTIONS /\ idle.open = 0
      BY MvAssumption
    <2> QED BY <2>1, <2>2, MvAssumption DEF TasksOK, SlotsKept
  <1>7. ASSUME NEW q \in Queries PROVE QueryOK(q)
    <2>1. table[q] = NoTable BY Zenon DEF NoTable
    <2> QED BY <1>1, <1>2, <2>1
            DEF QueryOK, OneBuild, EntryOK, KnownOK, Accounted, Building, Tasked, IsComplete
  <1> QED BY Zenon, <1>3, <1>4, <1>5, <1>6, <1>7 DEF MvInv

\* AnyOrder is a sequence of the set's elements.
LEMMA AnyOrderType == ASSUME NEW S, IsFiniteSet(S) PROVE AnyOrder(S) \in Seq(S)
  <1>1. Cardinality(S) \in Nat /\ ExistsBijection(1..Cardinality(S), S) BY Zenon, FS_CardinalityType
  <1>2. \E s \in [1..Cardinality(S) -> S] : \A i, j \in DOMAIN s : s[i] = s[j] => i = j
    BY Zenon, <1>1 DEF ExistsBijection, Bijection, Injection, IsInjective
  <1>3. AnyOrder(S) \in [1..Cardinality(S) -> S] BY Zenon, <1>2 DEF AnyOrder
  <1> QED BY <1>1, <1>3

LEMMA ReadmitSeq ==
    ASSUME NEW qs, qs \subseteq Queries
    PROVE  LET s == AnyOrder({CommandReadmit(q) : q \in qs})
           IN  s \in Seq(Command) /\ \A i \in DOMAIN s : s[i].c = "Readmit"
  <1> DEFINE S == {CommandReadmit(q) : q \in qs}
             s == AnyOrder(S)
             f == [q \in qs |-> CommandReadmit(q)]
  <1>1. IsFiniteSet(qs) BY Zenon, MvAssumption, FS_Subset
  <1>2. f \in [qs -> S] /\ \A x \in S : \E q \in qs : f[q] = x BY Zenon
  <1>3. f \in Surjection(qs, S) BY Zenon, <1>2 DEF Surjection
  <1>4. IsFiniteSet(S) BY Zenon, <1>1, <1>3, FS_Surjection
  <1>5. \A x \in S : x \in Command /\ x.c = "Readmit" BY Zenon DEF CommandReadmit, CommandBuild, Command
  <1>6. s \in Seq(S) BY Zenon, <1>4, AnyOrderType
  <1> HIDE DEF S, s
  <1>7. s \in Seq(Command) /\ \A i \in DOMAIN s : s[i].c = "Readmit" BY <1>5, <1>6
  <1> QED BY Zenon, <1>7 DEF S, s

LEMMA FlushSafe ==
    ASSUME MvInv, batch_flush
    PROVE  MvInv'
  <1> DEFINE r == Replay(frame)
             s == AnyOrder({CommandReadmit(q) : q \in r.flagged \cap Pinned})
  <1>1. /\ view' = query_invalidated_mark(r.view, r.flagged \ Pinned)
        /\ version' = [q \in Queries |-> IF q \in replayed \cup r.changed THEN version[q] + 1 ELSE version[q]]
        /\ internal' = internal \o s
        /\ frame' = <<>> /\ replayed' = {} /\ flagged' = {}
        /\ UNCHANGED <<tasks, idle, inflight, table, lost, dispatched>>
    BY Zenon DEF batch_flush
  <1>2. /\ r.flagged \subseteq Queries /\ r.changed \subseteq Queries
        /\ r.view = mv_dirty_mark(view, r.changed)
        /\ \A q \in r.changed : \E i \in DOMAIN frame : frame[i].q = q
    BY Zenon, ReplayFacts DEF MvInv, FrameOK
  <1>3. s \in Seq(Command) /\ \A i \in DOMAIN s : s[i].c = "Readmit" BY Zenon, <1>2, ReadmitSeq
  <1> HIDE DEF r, s
  <1>4. internal \in Seq(Command) BY Zenon DEF MvInv, ChannelsOK
  <1>5. internal' \in Seq(Command) BY <1>1, <1>3, <1>4
  <1>6. ChannelsOK' BY Zenon, <1>1, <1>5 DEF MvInv, ChannelsOK
  <1>7. ASSUME NEW q \in Queries PROVE CompletesKept(q)
    BY Zenon, <1>1, <1>3, <1>4, CompletesConcat
  <1>8. FrameOK'
    <2>1. \A q \in replayed \cup r.changed : version[q] < MaxVersion BY Zenon, <1>2 DEF MvInv, FrameOK
    <2>2. version' \in [Queries -> 1 .. MaxVersion]
      BY <1>1, <2>1, MvAssumption DEF MvInv, FrameOK
    <2> QED BY <1>1, <2>2 DEF MvInv, FrameOK
  <1>9. ViewOK(r.view) /\ \A q \in Queries : r.view[q].state = view[q].state
    BY <1>2, MarkFacts DEF MvInv
  <1>10. \A q \in Queries : /\ r.view[q].mv.st.table = view[q].mv.st.table
                            /\ InFlightState(r.view[q].mv.st) <=> InFlightState(view[q].mv.st)
                            /\ r.view[q].state = "absent" => r.view[q].mv.st = mv_state_initial
    BY <1>2, MarkedSafe
  <1>11. /\ ViewOK(view')
         /\ \A q \in Queries :
               /\ view'[q].state = "absent" => r.view[q].state = "absent"
               /\ view'[q].mv.st = Marked(r.view[q].mv.st) \/ view'[q].mv.st = r.view[q].mv.st
               /\ view'[q].state = "absent" => view'[q].mv.st = r.view[q].mv.st
    BY <1>1, <1>9, InvalidatedFacts
  <1>12. ASSUME NEW q \in Queries PROVE SoftEntry(q)
    <2>1. r.view[q].mv.st \in MvStates BY Zenon, <1>9 DEF ViewOK
    <2>2. /\ Marked(r.view[q].mv.st).table = r.view[q].mv.st.table
          /\ InFlightState(Marked(r.view[q].mv.st)) <=> InFlightState(r.view[q].mv.st)
      BY Zenon, <2>1, StateFacts
    <2> QED BY Zenon, <1>10, <1>11, <2>2 DEF SoftEntry
  <1> QED BY ZenonT(30), <1>1, <1>6, <1>7, <1>8, <1>11, <1>12, SoftSafe

-----------------------------------------------------------------------------
(* Build tasks.                                                            *)

\* The slots a step of a task may move.
Held(ts) == {t \in ts : t.slot # ""}
LEMMA HeldFinite == TasksOK => IsFiniteSet(Held(tasks)) /\ Cardinality(Held(tasks)) \in Nat
  BY Zenon, FS_Subset, FS_CardinalityType DEF TasksOK, Held

\* The pool's slots are counted by the connection they hold.
LEMMA SlotTypes == ASSUME idle \in [{"none", "open"} -> Nat] PROVE idle.none + idle.open \in Nat
  OBVIOUS
LEMMA SlotTaken ==
    ASSUME idle \in [{"none", "open"} -> Nat], NEW slot \in {"none", "open"}, idle[slot] > 0,
           idle' = [idle EXCEPT ![slot] = @ - 1]
    PROVE  idle' \in [{"none", "open"} -> Nat] /\ idle'.none + idle'.open = (idle.none + idle.open) - 1
  OBVIOUS
LEMMA SlotGiven ==
    ASSUME idle \in [{"none", "open"} -> Nat], NEW slot \in {"none", "open"},
           idle' = [idle EXCEPT ![slot] = @ + 1]
    PROVE  idle' \in [{"none", "open"} -> Nat] /\ idle'.none + idle'.open = (idle.none + idle.open) + 1
  OBVIOUS

LEMMA SlotSum ==
    ASSUME NEW f \in Nat, NEW c \in Nat
    PROVE  (c - 1) + 1 = c /\ (f - 1) + (c + 1) = f + c /\ (f + 1) + (c - 1) = f + c
  OBVIOUS

\* A task takes a slot once.
SlotMoved(t) ==
    IF t.slot = "" THEN \E slot \in {"none", "open"} : idle[slot] > 0 /\ idle' = [idle EXCEPT ![slot] = @ - 1]
    ELSE idle' = idle

\* A task that moves on: the same build of the same table.
LEMMA StepSafe ==
    ASSUME MvInv, NEW t \in tasks, NEW next, TaskOK(next), next.q = t.q, next.has_table = t.has_table,
           next.step = "running" => t.q \notin lost, next.slot # "", next # t,
           Step(t, next), UNCHANGED <<table, internal, lost, buildVars>>,
           SlotMoved(t)
    PROVE  MvInv'
  <1>1. /\ tasks' = (tasks \ {t}) \cup {next}
        /\ UNCHANGED <<table, internal, lost, view, version, frame, replayed, flagged, inflight, dispatched>>
    BY Zenon DEF Step, buildVars
  <1>2. /\ t.q \in Queries /\ TaskOK(t) /\ QueryOK(t.q)
        /\ t.q \in inflight /\ \A u \in tasks : u.q = t.q => u = t
        /\ \A i \in DOMAIN internal : ~IsComplete(i, t.q)
    BY Zenon, TaskFacts
  <1>3. ChannelsOK' BY Zenon, <1>1, ChannelsFrame DEF MvInv
  <1>4. FrameOK' BY Zenon, <1>1, FrameFrame DEF MvInv
  <1>5. ViewOK(view') BY Zenon, <1>1 DEF MvInv
  <1>6. next \notin tasks BY Zenon, <1>2
  <1>7. TasksOK'
    <2>1. IsFiniteSet(tasks') BY ZenonT(30), <1>1, FS_RemoveElement, FS_AddElement DEF MvInv, TasksOK
    <2>2. \A u \in tasks' : TaskOK(u) BY Zenon, <1>1 DEF MvInv, TasksOK
    <2>3. IsFiniteSet(Held(tasks)) /\ Cardinality(Held(tasks)) \in Nat BY Zenon, HeldFinite DEF MvInv
    <2>4. /\ idle \in [{"none", "open"} -> Nat]
          /\ idle.none + idle.open + Cardinality(Held(tasks)) = MV_BUILD_CONNECTIONS
      BY Zenon DEF MvInv, TasksOK, SlotsKept, Held
    <2> DEFINE free == idle.none + idle.open
    <2>s. free \in Nat BY Zenon, <2>4, SlotTypes
    <2>5. /\ idle' \in [{"none", "open"} -> Nat]
          /\ idle'.none + idle'.open + Cardinality(Held(tasks')) = MV_BUILD_CONNECTIONS
      <3>1. CASE t.slot = ""
        <4>1. Held(tasks') = Held(tasks) \cup {next} BY Zenon, <1>1, <3>1 DEF Held
        <4>2. Cardinality(Held(tasks')) = Cardinality(Held(tasks)) + 1
          BY Zenon, <1>6, <2>3, <4>1, FS_AddElement DEF Held
        <4>3. PICK slot \in {"none", "open"} : idle[slot] > 0 /\ idle' = [idle EXCEPT ![slot] = @ - 1]
          BY Zenon, <3>1 DEF SlotMoved
        <4>4. idle' \in [{"none", "open"} -> Nat] /\ idle'.none + idle'.open = free - 1
          BY Zenon, <2>4, <4>3, SlotTaken
        <4>5. (free - 1) + (Cardinality(Held(tasks)) + 1) = free + Cardinality(Held(tasks))
          BY Zenon, <2>3, <2>s, SlotSum
        <4> QED BY Zenon, <2>4, <4>2, <4>4, <4>5
      <3>2. CASE t.slot # ""
        <4>1. Held(tasks') = (Held(tasks) \ {t}) \cup {next} BY Zenon, <1>1, <3>2 DEF Held
        <4>2. IsFiniteSet(Held(tasks) \ {t}) /\ Cardinality(Held(tasks) \ {t}) = Cardinality(Held(tasks)) - 1
          BY Zenon, <2>3, <3>2, FS_RemoveElement DEF Held
        <4>3. Cardinality(Held(tasks')) = Cardinality(Held(tasks) \ {t}) + 1
          BY Zenon, <1>6, <4>1, <4>2, FS_AddElement DEF Held
        <4>4. Cardinality(Held(tasks')) = Cardinality(Held(tasks))
          <5>1. (Cardinality(Held(tasks)) - 1) + 1 = Cardinality(Held(tasks)) BY Zenon, <2>3, SlotSum
          <5> QED BY Zenon, <4>2, <4>3, <5>1
        <4>5. idle' = idle BY Zenon, <3>2 DEF SlotMoved
        <4> QED BY Zenon, <2>4, <4>4, <4>5
      <3> QED BY Zenon, <3>1, <3>2
    <2> QED BY Zenon, <2>1, <2>2, <2>5 DEF TasksOK, SlotsKept, Held
  <1>8. ASSUME NEW p \in Queries PROVE QueryOK(p)'
    <2>1. CASE p # t.q
      <3>1. BuildKept(p) /\ TableKept(p) BY Zenon, <1>1, <2>1, CompletesSame DEF BuildKept, TableKept
      <3>2. SoftEntry(p) BY Zenon, <1>1, SameEntry
      <3> QED BY Zenon, <3>1, <3>2, SoftStep DEF MvInv, SoftEntry
    <2>2. CASE p = t.q
      <3>1. \A u \in tasks' : u.q = p => u = next BY Zenon, <1>1, <1>2, <2>2
      <3>2. \A i \in DOMAIN internal' : ~IsComplete(i, p)' BY Zenon, <1>1, <1>2, <2>2 DEF IsComplete
      <3>3. OneBuild(p)' BY ZenonT(30), <1>1, <1>2, <2>2, <3>1, <3>2 DEF OneBuild
      <3>4. EntryOK(p)' BY ZenonT(30), <1>1, <1>2, <2>2, <3>1 DEF QueryOK, EntryOK
      <3>5. p \in lost => LostOK(p)' BY Zenon, <1>1, <1>2, <2>2, <3>1, <3>2 DEF QueryOK, LostOK
      <3>6. p \notin lost => KnownOK(p)'
        BY ZenonT(30), <1>1, <1>2, <2>2, <3>1, <3>2 DEF QueryOK, KnownOK, Accounted, Building
      <3> QED BY Zenon, <1>1, <3>3, <3>4, <3>5, <3>6 DEF QueryOK
    <2> QED BY Zenon, <2>1, <2>2
  <1> QED BY Zenon, <1>3, <1>4, <1>5, <1>7, <1>8 DEF MvInv

\* What a build leaves behind when it reports outcome o.
Outcome(t, o) ==
    /\ table' \in [Queries -> {NoTable, Truncated} \cup 1 .. MaxVersion]
    /\ \A p \in Queries : p # t.q => TableKept(p)
    /\ t.q \in lost' => table'[t.q] # NoTable /\ ~view[t.q].mv.st.table /\ o # "Built" /\ ~t.has_table
    /\ t.q \notin lost' => /\ o = "Built" => table'[t.q] # NoTable
                           /\ o = "Failed" => (t.has_table <=> table'[t.q] # NoTable)
                           /\ o = "Ineligible" => table'[t.q] = NoTable

\* A task that ends: its slot is free again and its completion is queued.
LEMMA FinishSafe ==
    ASSUME MvInv, NEW t \in tasks, NEW o \in {"Built", "Ineligible", "Failed"}, NEW slot \in {"none", "open"},
           Finish(t, o, slot), Outcome(t, o), UNCHANGED buildVars
    PROVE  MvInv'
  <1>1. /\ tasks' = tasks \ {t} /\ internal' = Append(internal, Complete(t, o))
        /\ UNCHANGED <<view, version, frame, replayed, flagged, inflight, dispatched>>
    BY Zenon DEF Finish, buildVars
  <1>2. /\ t.q \in Queries /\ TaskOK(t) /\ QueryOK(t.q)
        /\ t.q \in inflight /\ \A u \in tasks : u.q = t.q => u = t
        /\ \A i \in DOMAIN internal : ~IsComplete(i, t.q)
    BY Zenon, TaskFacts
  <1>3. /\ Complete(t, o) \in Command /\ Complete(t, o).c = "MvBuildComplete" /\ Complete(t, o).q = t.q
        /\ Complete(t, o).o = o /\ Complete(t, o).table = t.has_table
    BY Zenon, <1>2 DEF Complete, Command, TaskOK
  <1>4. internal \in Seq(Command) BY Zenon DEF MvInv, ChannelsOK
  <1>5. ChannelsOK' BY <1>1, <1>3, <1>4 DEF MvInv, ChannelsOK
  <1>6. FrameOK' BY Zenon, <1>1 DEF MvInv, FrameOK, Outcome
  <1>7. ViewOK(view') BY Zenon, <1>1 DEF MvInv
  <1>8. TasksOK'
    <2>1. IsFiniteSet(tasks') BY Zenon, <1>1, FS_RemoveElement DEF MvInv, TasksOK
    <2>2. \A u \in tasks' : TaskOK(u) BY Zenon, <1>1 DEF MvInv, TasksOK
    <2>3. IsFiniteSet(Held(tasks)) /\ Cardinality(Held(tasks)) \in Nat BY Zenon, HeldFinite DEF MvInv
    <2>4. /\ idle \in [{"none", "open"} -> Nat]
          /\ idle.none + idle.open + Cardinality(Held(tasks)) = MV_BUILD_CONNECTIONS
      BY Zenon DEF MvInv, TasksOK, SlotsKept, Held
    <2> DEFINE free == idle.none + idle.open
    <2>5. free \in Nat BY Zenon, <2>4, SlotTypes
    <2>6. /\ idle' \in [{"none", "open"} -> Nat]
          /\ idle'.none + idle'.open + Cardinality(Held(tasks')) = MV_BUILD_CONNECTIONS
      <3>1. CASE t.slot = ""
        <4>1. Held(tasks') = Held(tasks) BY Zenon, <1>1, <3>1 DEF Held
        <4>2. idle' = idle BY Zenon, <3>1 DEF Finish, slot_drop
        <4> QED BY Zenon, <2>4, <4>1, <4>2
      <3>2. CASE t.slot # ""
        <4>1. Held(tasks') = Held(tasks) \ {t} BY Zenon, <1>1 DEF Held
        <4>2. Cardinality(Held(tasks')) = Cardinality(Held(tasks)) - 1
          BY ZenonT(30), <2>3, <3>2, <4>1, FS_RemoveElement DEF Held
        <4>3. idle' = [idle EXCEPT ![slot] = @ + 1] BY Zenon, <3>2 DEF Finish, slot_drop
        <4>4. idle' \in [{"none", "open"} -> Nat] /\ idle'.none + idle'.open = free + 1
          BY Zenon, <2>4, <4>3, SlotGiven
        <4>5. (free + 1) + (Cardinality(Held(tasks)) - 1) = free + Cardinality(Held(tasks))
          BY Zenon, <2>3, <2>5, SlotSum
        <4> QED BY Zenon, <2>4, <4>2, <4>4, <4>5
      <3> QED BY Zenon, <3>1, <3>2
    <2> QED BY Zenon, <2>1, <2>2, <2>6 DEF TasksOK, SlotsKept, Held
  <1>9. ASSUME NEW p \in Queries PROVE QueryOK(p)'
    <2>1. CASE p # t.q
      <3>1. CompletesKept(p) BY Zenon, <1>1, <1>3, <1>4, <2>1, CompletesAppend
      <3>2. BuildKept(p) /\ TableKept(p) BY Zenon, <1>1, <2>1, <3>1 DEF BuildKept, Outcome
      <3>3. SoftEntry(p) BY Zenon, <1>1, SameEntry
      <3> QED BY Zenon, <3>2, <3>3, SoftStep DEF MvInv, SoftEntry
    <2>2. CASE p = t.q
      <3>1. \A u \in tasks' : u.q # p BY Zenon, <1>1, <1>2, <2>2
      <3>2. \A i \in DOMAIN internal' : IsComplete(i, p)' => internal'[i] = Complete(t, o) /\ i = Len(internal) + 1
        <4>1. DOMAIN internal' = 1..(Len(internal) + 1) /\ Len(internal) \in Nat BY <1>1, <1>4
        <4>2. internal'[Len(internal) + 1] = Complete(t, o) BY <1>1, <1>4
        <4>3. \A i \in 1..Len(internal) : internal'[i] = internal[i] /\ i \in DOMAIN internal BY <1>1, <1>4
        <4>4. \A i \in 1..Len(internal) : ~IsComplete(i, p)' BY Zenon, <1>2, <2>2, <4>3 DEF IsComplete
        <4> QED BY <4>1, <4>2, <4>4
      <3>3. OneBuild(p)'
        <4>1. ~Tasked(p)' BY Zenon, <3>1 DEF Tasked
        <4>2. \A i \in DOMAIN internal' : IsComplete(i, p)' => internal'[i].o # "" BY Zenon, <1>3, <3>2
        <4>3. \A i, j \in DOMAIN internal' : IsComplete(i, p)' /\ IsComplete(j, p)' => i = j BY Zenon, <3>2
        <4> QED BY ZenonT(30), <1>1, <1>2, <2>2, <3>1, <4>1, <4>2, <4>3 DEF OneBuild
      <3>4. EntryOK(p)' BY Zenon, <1>1, <1>2, <2>2, <3>1 DEF QueryOK, EntryOK
      <3>5. p \in lost' => LostOK(p)' BY ZenonT(30), <1>1, <1>3, <2>2, <3>1, <3>2 DEF LostOK, Outcome
      <3>6. p \notin lost' => KnownOK(p)'
        BY ZenonT(30), <1>1, <1>2, <1>3, <2>2, <3>1, <3>2 DEF KnownOK, Accounted, Building, Outcome
      <3> QED BY Zenon, <3>3, <3>4, <3>5, <3>6 DEF QueryOK
    <2> QED BY Zenon, <2>1, <2>2
  <1> QED BY <1>5, <1>6, <1>7, <1>8, <1>9 DEF MvInv

\* A build that ends without a word to its table.
LEMMA FailedKeeps ==
    ASSUME MvInv, NEW t \in tasks, UNCHANGED <<table, lost>>
    PROVE  /\ Outcome(t, "Failed")
           /\ ~t.has_table => Outcome(t, "Ineligible")
  <1>1. /\ ~t.has_table => ~view[t.q].mv.st.table
        /\ t.q \in lost => table[t.q] # NoTable /\ ~view[t.q].mv.st.table /\ ~t.has_table
        /\ t.q \notin lost => (t.has_table <=> table[t.q] # NoTable)
    BY Zenon, TaskFacts
  <1>2. table' \in [Queries -> {NoTable, Truncated} \cup 1 .. MaxVersion] BY Zenon DEF MvInv, FrameOK
  <1>3. \A p \in Queries : TableKept(p) BY Zenon DEF TableKept
  <1> QED BY Zenon, <1>1, <1>2, <1>3 DEF Outcome

LEMMA AcquireSafe ==
    ASSUME MvInv, NEW t \in tasks, slot_acquire(t)
    PROVE  MvInv'
  <1>1. PICK slot \in {s \in DOMAIN idle : idle[s] > 0} :
            /\ idle' = [idle EXCEPT ![slot] = @ - 1]
            /\ Step(t, [t EXCEPT !.slot = slot, !.step = "connect"])
    BY Zenon DEF slot_acquire
  <1>2. t.step = "slot" /\ UNCHANGED <<table, internal, lost, buildVars>> BY Zenon DEF slot_acquire
  <1>3. slot \in {"none", "open"} /\ idle[slot] > 0 BY Zenon DEF MvInv, TasksOK
  <1>4. TaskOK(t) BY Zenon, TaskFacts
  <1>5. SlotMoved(t) BY Zenon, <1>1, <1>2, <1>3, <1>4 DEF SlotMoved, TaskOK
  <1> DEFINE next == [t EXCEPT !.slot = slot, !.step = "connect"]
  <1>6. /\ DOMAIN next = DOMAIN t /\ next.slot = slot /\ next.step = "connect" /\ next.q = t.q
        /\ next.has_table = t.has_table /\ next.rows = t.rows
    BY Zenon, <1>4 DEF TaskOK
  <1>7. Step(t, next) BY Zenon, <1>1
  <1> HIDE DEF next
  <1>8. TaskOK(next) BY Zenon, <1>3, <1>4, <1>6 DEF TaskOK, Steps
  <1>9. next.slot # "" /\ next # t /\ next.step # "running" BY Zenon, <1>2, <1>3, <1>6
  <1> QED BY ZenonT(30), <1>2, <1>5, <1>6, <1>7, <1>8, <1>9, StepSafe

LEMMA RunSafe ==
    ASSUME MvInv, NEW t \in tasks, mv_build_run(t)
    PROVE  MvInv'
  <1>1. t.step = "connect" /\ UNCHANGED <<table, lost, buildVars>> BY Zenon DEF mv_build_run
  <1>2. TaskOK(t) BY Zenon, TaskFacts
  <1>3. CASE Step(t, [t EXCEPT !.slot = "open", !.step = "prepare"]) /\ UNCHANGED <<idle, internal>>
    <2> DEFINE next == [t EXCEPT !.slot = "open", !.step = "prepare"]
    <2>1. /\ DOMAIN next = DOMAIN t /\ next.slot = "open" /\ next.step = "prepare" /\ next.q = t.q
          /\ next.has_table = t.has_table /\ next.rows = t.rows
      BY Zenon, <1>2 DEF TaskOK
    <2>2. Step(t, next) BY Zenon, <1>3
    <2> HIDE DEF next
    <2>3. TaskOK(next) BY Zenon, <1>2, <2>1 DEF TaskOK, Steps
    <2>4. SlotMoved(t) BY Zenon, <1>1, <1>2, <1>3 DEF SlotMoved, TaskOK
    <2>5. next.slot # "" /\ next # t /\ next.step # "running" BY Zenon, <1>1, <2>1
    <2> QED BY ZenonT(30), <1>1, <1>3, <2>1, <2>2, <2>3, <2>4, <2>5, StepSafe
  <1>4. CASE Finish(t, "Failed", "none") BY ZenonT(30), <1>1, <1>4, FailedKeeps, FinishSafe
  <1> QED BY Zenon, <1>3, <1>4 DEF mv_build_run

LEMMA PrepareSafe ==
    ASSUME MvInv, NEW t \in tasks, mv_build_prepare(t)
    PROVE  MvInv'
  <1>1. t.step = "prepare" /\ UNCHANGED <<table, lost, buildVars>> BY Zenon DEF mv_build_prepare
  <1>2. TaskOK(t) BY Zenon, TaskFacts
  <1>3. CASE Step(t, [t EXCEPT !.step = "batch"]) /\ UNCHANGED <<idle, internal>>
    <2> DEFINE next == [t EXCEPT !.step = "batch"]
    <2>1. /\ DOMAIN next = DOMAIN t /\ next.slot = t.slot /\ next.step = "batch" /\ next.q = t.q
          /\ next.has_table = t.has_table /\ next.rows = t.rows
      BY Zenon, <1>2 DEF TaskOK
    <2>2. Step(t, next) BY Zenon, <1>3
    <2> HIDE DEF next
    <2>3. TaskOK(next) BY Zenon, <1>1, <1>2, <2>1 DEF TaskOK, Steps
    <2>4. SlotMoved(t) BY Zenon, <1>1, <1>2, <1>3 DEF SlotMoved, TaskOK
    <2>5. next.slot # "" /\ next # t /\ next.step # "running" BY Zenon, <1>1, <1>2, <2>1 DEF TaskOK
    <2> QED BY ZenonT(30), <1>1, <1>3, <2>1, <2>2, <2>3, <2>4, <2>5, StepSafe
  <1>4. CASE ~t.has_table /\ Finish(t, "Ineligible", "open") BY Zenon, <1>1, <1>4, FailedKeeps, FinishSafe
  <1>5. CASE Finish(t, "Failed", "open") BY Zenon, <1>1, <1>5, FailedKeeps, FinishSafe
  <1> QED BY Zenon, <1>3, <1>4, <1>5 DEF mv_build_prepare

LEMMA BatchSafe ==
    ASSUME MvInv, NEW t \in tasks, mv_build_batch(t)
    PROVE  MvInv'
  <1>1. t.step = "batch" /\ UNCHANGED buildVars BY Zenon DEF mv_build_batch
  <1>2. /\ t.q \in Queries /\ TaskOK(t)
        /\ t.q \in lost => table[t.q] # NoTable /\ ~t.has_table
        /\ t.q \notin lost => (t.has_table <=> table[t.q] # NoTable)
    BY Zenon, TaskFacts
  <1>3. CASE t.has_table <=> table[t.q] # NoTable
    <2> DEFINE next == [t EXCEPT !.step = "running", !.rows = version[t.q]]
    <2>1. Step(t, next) /\ UNCHANGED <<table, idle, internal, lost>> BY Zenon, <1>3 DEF mv_build_batch
    <2>2. /\ DOMAIN next = DOMAIN t /\ next.slot = t.slot /\ next.step = "running" /\ next.q = t.q
          /\ next.has_table = t.has_table /\ next.rows = version[t.q]
      BY Zenon, <1>2 DEF TaskOK
    <2> HIDE DEF next
    <2>3. version[t.q] \in 1..MaxVersion BY Zenon, <1>2 DEF MvInv, FrameOK
    <2>4. version[t.q] \in 0..MaxVersion /\ version[t.q] # 0 BY <2>3, MvAssumption
    <2>5. TaskOK(next) BY ZenonT(30), <1>1, <1>2, <2>2, <2>4 DEF TaskOK, Steps
    <2>6. SlotMoved(t) BY Zenon, <1>1, <1>2, <2>1 DEF SlotMoved, TaskOK
    <2>7. next.slot # "" /\ next # t BY ZenonT(30), <1>1, <1>2, <2>2 DEF TaskOK
    <2>8. t.q \notin lost BY Zenon, <1>2, <1>3
    <2> QED BY ZenonT(30), <1>1, <2>1, <2>2, <2>5, <2>6, <2>7, <2>8, StepSafe
  <1>4. CASE ~(t.has_table <=> table[t.q] # NoTable)
    <2>1. Finish(t, "Failed", "open") /\ table' = [table EXCEPT ![t.q] = NoTable] /\ lost' = lost \ {t.q}
      BY Zenon, <1>4 DEF mv_build_batch
    <2>2. t.q \in lost /\ ~t.has_table BY Zenon, <1>2, <1>4
    <2>3. /\ table' \in [Queries -> {NoTable, Truncated} \cup 1 .. MaxVersion] /\ table'[t.q] = NoTable
          /\ \A p \in Queries : p # t.q => TableKept(p)
      BY ZenonT(30), <1>2, <2>1 DEF MvInv, FrameOK, TableKept
    <2>4. Outcome(t, "Failed") BY Zenon, <2>1, <2>2, <2>3 DEF Outcome
    <2> QED BY ZenonT(30), <1>1, <2>1, <2>4, FinishSafe
  <1> QED BY Zenon, <1>3, <1>4

LEMMA ExecuteSafe ==
    ASSUME MvInv, NEW t \in tasks, mv_build_execute(t)
    PROVE  MvInv'
  <1>1. t.step = "running" /\ UNCHANGED buildVars BY Zenon DEF mv_build_execute
  <1>2. /\ t.q \in Queries /\ TaskOK(t) /\ t.q \notin lost
        /\ t.has_table <=> table[t.q] # NoTable
        /\ ~t.has_table => ~view[t.q].mv.st.table
    BY Zenon, <1>1, TaskFacts
  <1>3. ASSUME table' = Stored(t), \A p \in Queries : p # t.q => (p \in lost' <=> p \in lost)
        PROVE  /\ table' \in [Queries -> {NoTable, Truncated} \cup 1 .. MaxVersion]
               /\ table'[t.q] # NoTable /\ \A p \in Queries : p # t.q => TableKept(p)
    <2>0. t.rows \in 0..MaxVersion /\ t.rows # 0 BY Zenon, <1>1, <1>2 DEF TaskOK
    <2>1. t.rows \in 1..MaxVersion /\ t.rows # NoTable BY <2>0, MvAssumption DEF NoTable
    <2>2. table' = [table EXCEPT ![t.q] = t.rows] BY Zenon, <1>3 DEF Stored
    <2> QED BY ZenonT(30), <1>2, <1>3, <2>1, <2>2 DEF MvInv, FrameOK, TableKept
  <1>4. CASE Finish(t, "Built", "open") /\ table' = Stored(t) /\ UNCHANGED lost
    <2>1. Outcome(t, "Built") BY Zenon, <1>2, <1>3, <1>4 DEF Outcome
    <2> QED BY Zenon, <1>1, <1>4, <2>1, FinishSafe
  <1>5. CASE Finish(t, "Failed", "open") /\ UNCHANGED <<table, lost>>
    BY Zenon, <1>1, <1>5, FailedKeeps, FinishSafe
  <1>6. CASE /\ Finish(t, "Failed", "none") /\ table' = Stored(t)
             /\ lost' = IF t.has_table THEN lost ELSE lost \cup {t.q}
    <2>1. t.q \in lost' <=> ~t.has_table BY Zenon, <1>2, <1>6
    <2>2. Outcome(t, "Failed") BY ZenonT(30), <1>2, <1>3, <1>6, <2>1 DEF Outcome
    <2> QED BY ZenonT(30), <1>1, <1>6, <2>2, FinishSafe
  <1> QED BY Zenon, <1>4, <1>5, <1>6 DEF mv_build_execute

LEMMA PanicSafe ==
    ASSUME MvInv, NEW t \in tasks, build_panic(t)
    PROVE  MvInv'
  BY Zenon, FailedKeeps, FinishSafe DEF build_panic

\* A query has at most one task.
LEMMA OneTask == ASSUME MvInv, NEW q \in Queries PROVE Cardinality({t \in tasks : t.q = q}) <= 1
  <1>1. \A t, u \in tasks : t.q = q /\ u.q = q => t = u BY Zenon DEF MvInv, QueryOK, OneBuild
  <1>2. CASE \A t \in tasks : t.q # q
    <2>1. {t \in tasks : t.q = q} = {} BY Zenon, <1>2
    <2> QED BY <2>1, FS_EmptySet
  <1>3. CASE \E t \in tasks : t.q = q
    <2>1. PICK t \in tasks : t.q = q BY Zenon, <1>3
    <2>2. {u \in tasks : u.q = q} = {t} BY Zenon, <1>1, <2>1
    <2> QED BY <2>2, FS_Singleton
  <1> QED BY Zenon, <1>2, <1>3

\* A command starts at most one task.
LEMMA TasksFinite == ASSUME MvInv, query_command_received PROVE IsFiniteSet(tasks')
  <1>1. PICK q, flight : tasks' \in {tasks, mv_build_dispatch(q, flight).tasks}
    BY Zenon DEF query_command_received, query_command_handle, mv_build_complete
  <1>2. PICK x : tasks' = tasks \/ tasks' = tasks \cup {x} BY ZenonT(30), <1>1 DEF mv_build_dispatch
  <1>3. IsFiniteSet(tasks) BY Zenon DEF MvInv, TasksOK
  <1> QED BY Zenon, <1>2, <1>3, FS_AddElement

-----------------------------------------------------------------------------
(* The theorems.                                                           *)

LEMMA NextSafe == MvInv /\ [Next]_vars => MvInv'
  <1> SUFFICES ASSUME MvInv, [Next]_vars PROVE MvInv' BY Zenon
  <1>1. CASE Register BY Zenon, <1>1, RegisterSafe DEF Register
  <1>2. CASE Populated BY Zenon, <1>2, PopulatedSafe DEF Populated
  <1>3. CASE PopulationFailed BY Zenon, <1>3, CleanupSafe DEF PopulationFailed
  <1>4. CASE LimitBump BY Zenon, <1>4, LimitBumpSafe DEF LimitBump
  <1>5. CASE Readmit BY Zenon, <1>5, ReadmitSafe DEF Readmit
  <1>6. CASE Evict BY Zenon, <1>6, EvictSafe DEF Evict
  <1>7. CASE RowEvent BY Zenon, <1>7, RowEventSafe DEF RowEvent
  <1>8. CASE batch_flush BY Zenon, <1>8, FlushSafe
  <1>9. CASE HitMv BY Zenon, <1>9, ReadsSafe DEF HitMv, mv_serve_decide
  <1>10. CASE HitSchedules BY Zenon, <1>10, ScheduleSafe DEF HitSchedules
  <1>11. CASE Serve BY Zenon, <1>11, ReadsSafe DEF Serve, serve_query_send
  <1>12. CASE query_command_received BY Zenon, <1>12, CommandsSafe, TasksFinite
  <1>13. CASE BuildStep BY ZenonT(30), <1>13, AcquireSafe, RunSafe, PrepareSafe, BatchSafe, ExecuteSafe DEF BuildStep
  <1>14. CASE BuildPanics BY Zenon, <1>14, PanicSafe DEF BuildPanics
  <1>15. CASE Tick BY Zenon, <1>15, TickSafe
  <1>16. CASE mv_dirty_sweep BY Zenon, <1>16, SweepSafe
  <1>17. CASE UNCHANGED vars BY Zenon, <1>17, ReadsSafe DEF vars, writerVars
  <1> QED BY ZenonT(30), <1>1, <1>2, <1>3, <1>4, <1>5, <1>6, <1>7, <1>8, <1>9, <1>10, <1>11, <1>12, <1>13, <1>14,
             <1>15, <1>16, <1>17 DEF Next

\* MvInv holds in every reachable state: builds, channels, entries and tables agree.
THEOREM MvInvariant == Spec => []MvInv
  BY InitSafe, NextSafe, PTL DEF Spec

\* Every MV table is accounted for by its entry or by the build in flight, except the
\* ones query_failed_cleanup and a build that lost its connection leave behind.
THEOREM TablesAccountedHolds == Spec => []TablesAccounted
  <1>1. MvInv => TablesAccounted
    <2> SUFFICES ASSUME MvInv PROVE TablesAccounted BY Zenon
    <2>1. TypeOK BY Zenon DEF MvInv, ViewOK, FrameOK, TypeOK
    <2>2. \A q \in Queries \ lost : Accounted(q) BY Zenon DEF MvInv, QueryOK, KnownOK
    <2> QED BY Zenon, <2>1, <2>2 DEF TablesAccounted
  <1> QED BY <1>1, MvInvariant, PTL

\* mv_builds_inflight admits one build of a query at a time, and no way out of
\* mv_build_task keeps a slot of the pool.
THEOREM OneBuilderHolds == Spec => []OneBuilder
  <1>1. MvInv => OneBuilder
    <2> SUFFICES ASSUME MvInv PROVE OneBuilder BY Zenon
    <2>1. SlotsKept BY Zenon DEF MvInv, TasksOK
    <2>2. ASSUME NEW q \in Queries PROVE Cardinality({t \in tasks : t.q = q}) <= 1 BY Zenon, OneTask
    <2> QED BY Zenon, <2>1, <2>2 DEF OneBuilder
  <1> QED BY <1>1, MvInvariant, PTL

\* The writer drops, truncates or rebuilds no table under the lock of a running batch,
\* where it would wait and CDC with it.
THEOREM WriterNeverWaitsHolds == Spec => WriterNeverWaits
  <1>1. MvInv /\ [Next]_vars => [\A q \in Queries : Locked(q) /\ Locked(q)' => table'[q] = table[q]]_vars
    BY Zenon, TableStep
  <1> QED BY <1>1, MvInvariant, PTL DEF Spec, WriterNeverWaits

-----------------------------------------------------------------------------
(* FreshInv: the frame, and the theorems it gives.                         *)

LEMMA RowEventFresh ==
    ASSUME Maintained, MvInv, FreshInv, NEW e \in Events, row_event(e)
    PROVE  FreshInv' /\ Withdrawn
  <1> DEFINE events == Append(frame, e)
  <1>1. Inserted(e, events) /\ UNCHANGED <<tasks, table, internal, version, reads>> BY Zenon DEF row_event
  <1>2. frame \in Seq(Events) /\ replayed \cup flagged = {} BY Zenon DEF MvInv, FrameOK, FreshInv, FrameWhole
  <1>3. /\ events \in Seq(Events)
        /\ \A i \in DOMAIN events : events[i] = e \/ \E j \in DOMAIN frame : events[i] = frame[j]
    BY <1>2, EventFacts
  <1>4. Len(events) < FRAME_ROWS_CAPACITY
    <2>1. Len(events) + Cardinality(replayed \cup flagged) <= MaxFrameRows BY Zenon, <1>1 DEF Inserted
    <2>2. Cardinality(replayed \cup flagged) = 0 BY Zenon, <1>2, FS_EmptySet
    <2>3. Len(events) \in Nat BY <1>3
    <2> QED BY <2>1, <2>2, <2>3, MvAssumption DEF Maintained
  <1>5. frame' = events /\ UNCHANGED <<view, flagged, replayed>>
    <2>1. ~(Len(events) >= FRAME_ROWS_CAPACITY) BY <1>3, <1>4, MvAssumption
    <2> QED BY Zenon, <2>1 DEF row_event
  <1> HIDE DEF events
  <1>6. FrameWhole' BY Zenon, <1>1, <1>3, <1>5 DEF FreshInv, FrameWhole, Inserted
  <1>7. \A q \in Queries : QuietEntry(q) BY Zenon, <1>1, <1>5 DEF QuietEntry
  <1>8. \A q \in Queries : CompletesKept(q) BY Zenon, <1>1, CompletesSame
  <1> QED BY Zenon, <1>1, <1>6, <1>7, <1>8, QuietSafe

LEMMA FlushFresh ==
    ASSUME Maintained, MvInv, FreshInv, batch_flush
    PROVE  FreshInv' /\ Withdrawn
  <1> DEFINE r == Replay(frame)
             S == {CommandReadmit(q) : q \in r.flagged \cap Pinned}
  <1>1. /\ view' = query_invalidated_mark(r.view, r.flagged \ Pinned)
        /\ version' = [q \in Queries |-> IF q \in replayed \cup r.changed THEN version[q] + 1 ELSE version[q]]
        /\ internal' = internal \o AnyOrder(S)
        /\ frame' = <<>> /\ replayed' = {} /\ flagged' = {}
        /\ UNCHANGED <<tasks, table, reads>>
    BY Zenon DEF batch_flush
  <1>2. r.changed \subseteq Queries /\ r.view = mv_dirty_mark(view, r.changed)
    BY Zenon, ReplayFacts DEF MvInv, FrameOK
  <1>3. r.flagged \cap Pinned = {}
    <2>1. r.flagged = {frame[i].q : i \in {j \in DOMAIN frame : frame[j].invalidates}} \cup flagged BY Zenon DEF Replay
    <2> QED BY Zenon, <2>1 DEF Maintained, FreshInv, FrameWhole
  <1>4. internal' = internal
    <2>1. S = {} BY Zenon, <1>3
    <2>2. AnyOrder({}) \in Seq({}) BY Zenon, FS_EmptySet, AnyOrderType
    <2>3. AnyOrder({}) = <<>> BY <2>2
    <2>4. internal \in Seq(Command) BY Zenon DEF MvInv, ChannelsOK
    <2> HIDE DEF S
    <2> QED BY <1>1, <2>1, <2>3, <2>4
  <1> HIDE DEF r, S
  <1>5. replayed = {} BY Zenon DEF FreshInv, FrameWhole
  <1>6. FrameWhole' BY <1>1, <1>4 DEF FreshInv, FrameWhole
  <1>7. ViewOK(r.view) /\ \A q \in Queries : r.view[q].state = view[q].state
    BY <1>2, MarkFacts DEF MvInv
  <1>8. ASSUME NEW q \in Queries PROVE QuietEntry(q)
    <2>1. /\ q \in r.changed => r.view[q].mv.st # Fresh /\ r.view[q].mv.st.s # "Building"
          /\ q \notin r.changed => r.view[q].mv.st = view[q].mv.st
      BY Zenon, <1>2, MarkedSafe
    <2>2. Marked(r.view[q].mv.st) # Fresh /\ Marked(r.view[q].mv.st).s # "Building"
      BY Zenon, <1>7, StateFacts DEF ViewOK
    <2>3. \/ view'[q].mv.st = Marked(r.view[q].mv.st)
          \/ view'[q].state = r.view[q].state /\ view'[q].mv.st = r.view[q].mv.st
      BY <1>1, <1>7, InvalidatedFacts
    <2>4. version'[q] = IF q \in r.changed THEN version[q] + 1 ELSE version[q] BY Zenon, <1>1, <1>5
    <2>5. table'[q] = table[q] BY Zenon, <1>1
    <2>6. CASE Stale(q) BY Zenon, <2>4, <2>5, <2>6 DEF QuietEntry
    <2>7. CASE ~Stale(q)
      <3>1. view'[q].state = view[q].state /\ view'[q].mv.st = view[q].mv.st /\ q \notin r.changed
        BY ZenonT(30), <1>7, <2>1, <2>2, <2>3, <2>7 DEF Stale
      <3> QED BY Zenon, <2>4, <2>5, <3>1 DEF QuietEntry
    <2> QED BY Zenon, <2>6, <2>7
  <1>9. \A q \in Queries : CompletesKept(q) BY Zenon, <1>4, CompletesSame
  <1> QED BY <1>1, <1>6, <1>8, <1>9, QuietSafe

LEMMA NextFresh == ASSUME Maintained, MvInv, FreshInv, [Next]_vars PROVE FreshInv' /\ Withdrawn
  <1>1. CASE Register BY Zenon, <1>1, RegisterFresh DEF Register
  <1>2. CASE Populated BY Zenon, <1>2, PopulatedFresh DEF Populated
  <1>3. CASE PopulationFailed BY Zenon, <1>3, CleanupFresh DEF PopulationFailed
  <1>4. CASE LimitBump BY Zenon, <1>4, LimitBumpFresh DEF LimitBump
  <1>5. CASE Readmit BY Zenon, <1>5, ReadmitFresh DEF Readmit
  <1>6. CASE Evict BY Zenon, <1>6, EvictFresh DEF Evict
  <1>7. CASE RowEvent BY Zenon, <1>7, RowEventFresh DEF RowEvent
  <1>8. CASE batch_flush BY Zenon, <1>8, FlushFresh
  <1>9. CASE HitMv BY Zenon, <1>9, HitFresh DEF HitMv
  <1>10. CASE HitSchedules BY Zenon, <1>10, ScheduleFresh DEF HitSchedules
  <1>11. CASE Serve
    <2>1. reads' \subseteq reads /\ UNCHANGED <<view, version, table, tasks, internal, frame, replayed, flagged>>
      BY Zenon, <1>11 DEF Serve, serve_query_send, writerVars
    <2> QED BY Zenon, <2>1, ServeFresh
  <1>12. CASE query_command_received BY Zenon, <1>12, CommandsFresh
  <1>13. CASE BuildStep \/ BuildPanics BY Zenon, <1>13, BuildStepFresh
  <1>14. CASE Tick BY Zenon, <1>14, TickFresh
  <1>15. CASE mv_dirty_sweep BY Zenon, <1>15, SweepFresh
  <1>16. CASE UNCHANGED vars
    <2>1. reads' \subseteq reads /\ UNCHANGED <<view, version, table, tasks, internal, frame, replayed, flagged>>
      BY Zenon, <1>16 DEF vars
    <2> QED BY Zenon, <2>1, ServeFresh
  <1> QED BY <1>1, <1>2, <1>3, <1>4, <1>5, <1>6, <1>7, <1>8, <1>9, <1>10, <1>11, <1>12, <1>13, <1>14,
             <1>15, <1>16 DEF Next

\* Where frames fit the buffer and pinned queries are maintained in place, FreshInv holds
\* in every reachable state: what is Fresh, and what a build will make Fresh, is current.
THEOREM FreshInvariant == ASSUME Maintained PROVE Spec => []FreshInv
  <1>1. MvInv /\ FreshInv /\ [Next]_vars => FreshInv' BY Zenon, NextFresh
  <1> QED BY <1>1, InitFresh, MvInvariant, PTL DEF Spec

\* The MV layer implements MaterialisedResult there: the table of a Fresh MV is the query's
\* result, and the frame that changes the result withdraws it in the same step.
THEOREM FreshIsCurrentHolds == ASSUME Maintained PROVE Spec => FreshIsCurrent
  <1> DEFINE offer == [q \in Queries |-> IF Ready(view, q) /\ view[q].mv.st = Fresh THEN table[q] ELSE NoTable]
  <1>1. Init => Abstract!Init
    <2> SUFFICES ASSUME Init PROVE Abstract!Init BY Zenon
    <2>1. version \in [Queries -> 1 .. MaxVersion] BY MvAssumption DEF Init
    <2>2. \A q \in Queries : ~Ready(view, q) BY Zenon DEF Init, Absent, Ready
    <2> QED BY Zenon, <2>1, <2>2 DEF Abstract!Init
  <1>2. MvInv' /\ MvInv /\ FreshInv /\ [Next]_vars => [Abstract!Next]_(Abstract!vars)
    <2> SUFFICES ASSUME MvInv, MvInv', FreshInv, [Next]_vars PROVE Abstract!Next BY Zenon
    <2>1. FreshInv' /\ Withdrawn BY Zenon, NextFresh
    <2>2. version' \in [Queries -> 1 .. MaxVersion] BY Zenon DEF MvInv, FrameOK
    <2>3. ASSUME NEW q \in Queries
          PROVE  /\ offer'[q] \in 1 .. MaxVersion \cup {NoTable}
                 /\ \/ version'[q] = version[q] /\ offer'[q] \in {NoTable, version[q]}
                    \/ version'[q] # version[q] /\ offer'[q] = NoTable
      <3>1. offer'[q] = IF Ready(view', q) /\ view'[q].mv.st = Fresh THEN table'[q] ELSE NoTable BY Zenon DEF Ready
      <3>2. view'[q].mv.st = Fresh => table'[q] = version'[q] BY Zenon, <2>1 DEF FreshInv, BuildCurrent
      <3>3. version'[q] = version[q] \/ view'[q].mv.st # Fresh BY Zenon, <2>1 DEF Withdrawn, Stale
      <3> HIDE DEF offer
      <3> QED BY Zenon, <2>2, <3>1, <3>2, <3>3
    <2>4. offer' \in [Queries -> 1 .. MaxVersion \cup {NoTable}] BY Zenon, <2>3
    <2> QED BY Zenon, <2>2, <2>3, <2>4 DEF Abstract!Next, Abstract!Withdraw, Abstract!Offer, Abstract!Change
  <1> QED BY <1>1, <1>2, MvInvariant, FreshInvariant, PTL DEF Spec, FreshIsCurrent, Abstract!Spec

\* A read decided on a Fresh MV and run later finds no table, an emptied one, or a result
\* the query had since the decision.
THEOREM ReadsSeeResultsHolds == ASSUME Maintained PROVE Spec => ReadsSeeResults
  <1>1. FreshInv => [\A r \in reads \ reads' : table[r.q] \in {NoTable, Truncated} \/ table[r.q] >= r.since]_vars
    BY Zenon DEF FreshInv, ReadOK
  <1> QED BY <1>1, FreshInvariant, PTL DEF ReadsSeeResults
=============================================================================
