-------------------------- MODULE MvLifecycleView ---------------------------
(*****************************************************************************)
(* MvInv is inductive, first part: the operators on the view, what a step may*)
(* leave alone of a build, and the steps that end no build.                *)
(*****************************************************************************)
EXTENDS MvLifecycle, TLAPS

-----------------------------------------------------------------------------
(* The operators on the view.                                              *)

\* What a mark makes of an MV's state.
Marked(st) ==
    IF st = Fresh THEN State("Pending", TRUE)
    ELSE IF st.s = "Building" THEN State("BuildingDirty", st.table) ELSE st

\* The MV states are records of two fields; only Fresh is called so.
LEMMA StateFacts ==
    ASSUME NEW st \in MvStates
    PROVE  /\ DOMAIN st = {"s", "table"} /\ st.table \in BOOLEAN
           /\ st = Fresh <=> st.s = "Fresh"
           /\ st.s \in {"Pending", "Scheduled", "Building", "BuildingDirty", "Fresh", "Ineligible"}
           /\ st.s \in {"Pending", "Scheduled", "Building", "BuildingDirty"} =>
                 \A s \in {"Pending", "Scheduled", "Building", "BuildingDirty"} :
                     [st EXCEPT !.s = s] = State(s, st.table) /\ State(s, st.table) \in MvStates
           /\ Marked(st) \in MvStates /\ Marked(st) # Fresh /\ Marked(st).s # "Building"
           /\ Marked(st).table = st.table /\ (InFlightState(Marked(st)) <=> InFlightState(st))
           /\ Marked(st).s = "Pending" => st.s \in {"Pending", "Fresh"}
  <1>1. CASE st = Fresh
    <2>1. DOMAIN st = {"s", "table"} /\ st.table = TRUE /\ st.s = "Fresh" BY Zenon, <1>1 DEF Fresh, State
    <2>2. Marked(st) = State("Pending", TRUE) BY Zenon, <1>1 DEF Marked
    <2>3. State("Pending", TRUE) \in MvStates BY Zenon DEF MvStates, State
    <2>4. /\ State("Pending", TRUE).s = "Pending" /\ State("Pending", TRUE).table = TRUE
          /\ State("Pending", TRUE) # Fresh
      BY Zenon DEF State, Fresh
    <2> QED BY Zenon, <1>1, <2>1, <2>2, <2>3, <2>4 DEF InFlightState
  <1>2. CASE st = Ineligible
    <2>1. DOMAIN st = {"s", "table"} /\ st.table = FALSE /\ st.s = "Ineligible" /\ st # Fresh
      BY Zenon, <1>2 DEF Fresh, Ineligible, State
    <2>2. Marked(st) = st BY Zenon, <2>1 DEF Marked
    <2> QED BY Zenon, <2>1, <2>2
  <1>3. CASE \E s \in {"Pending", "Scheduled", "Building", "BuildingDirty"}, t \in BOOLEAN : st = State(s, t)
    <2>1. PICK s \in {"Pending", "Scheduled", "Building", "BuildingDirty"}, t \in BOOLEAN : st = State(s, t)
      BY Zenon, <1>3 DEF State
    <2>2. /\ DOMAIN st = {"s", "table"} /\ st.table = t /\ st.s = s /\ st # Fresh
      BY Zenon, <2>1 DEF State, Fresh
    <2>3. \A x \in {"Pending", "Scheduled", "Building", "BuildingDirty"} :
              [st EXCEPT !.s = x] = State(x, st.table) /\ State(x, st.table) \in MvStates
      BY <2>1 DEF State, MvStates
    <2>4. Marked(st) = IF s = "Building" THEN State("BuildingDirty", t) ELSE st
      BY Zenon, <2>2 DEF Marked
    <2>5. /\ Marked(st) \in MvStates /\ Marked(st) # Fresh /\ Marked(st).s # "Building"
          /\ Marked(st).table = st.table /\ (InFlightState(Marked(st)) <=> InFlightState(st))
          /\ Marked(st).s = "Pending" => st.s \in {"Pending", "Fresh"}
      <3>1. CASE s = "Building"
        BY <2>2, <2>3, <2>4, <3>1 DEF State, Fresh, InFlightState
      <3>2. CASE s # "Building" BY Zenon, <2>2, <2>4, <3>2
      <3> QED BY Zenon, <3>1, <3>2
    <2> QED BY Zenon, <2>2, <2>3, <2>5
  <1> QED BY Zenon, <1>1, <1>2, <1>3 DEF MvStates, State

\* A mark keeps the entry's shape, and the time of a build only while it is Fresh.
LEMMA DirtyFacts ==
    ASSUME NEW mv, DOMAIN mv = {"st", "plan", "fresh", "wasted", "retry"}, mv.st \in MvStates,
           mv.st = Fresh <=> mv.fresh # Never
    PROVE  /\ DOMAIN dirty_apply(mv) = {"st", "plan", "fresh", "wasted", "retry"}
           /\ dirty_apply(mv).st = Marked(mv.st) /\ dirty_apply(mv).fresh = Never
  <1>1. CASE mv.st = Fresh
    <2>1. dirtied(mv.st) # <<>> /\ dirtied(mv.st)[1] = State("Pending", TRUE)
      BY <1>1 DEF dirtied, Fresh, State
    <2>2. DEFINE judged == [(IF mv.fresh = MV_PAYOFF_WINDOW THEN [mv EXCEPT !.wasted = 0, !.retry = 0]
                             ELSE waste_record(mv)) EXCEPT !.fresh = Never]
    <2>3. DOMAIN judged = DOMAIN mv /\ judged.fresh = Never BY Zenon DEF waste_record
    <2>4. dirty_apply(mv) = [judged EXCEPT !.st = State("Pending", TRUE)]
      BY Zenon, <1>1, <2>1 DEF dirty_apply
    <2> HIDE DEF judged
    <2> QED BY Zenon, <1>1, <2>3, <2>4 DEF Marked
  <1>2. CASE mv.st.s = "Building"
    <2>1. mv.st # Fresh BY Zenon, <1>2, StateFacts
    <2>2. dirtied(mv.st) # <<>> /\ dirtied(mv.st)[1] = State("BuildingDirty", mv.st.table)
      BY Zenon, <1>2, <2>1 DEF dirtied
    <2>3. dirty_apply(mv) = [mv EXCEPT !.st = State("BuildingDirty", mv.st.table)]
      BY Zenon, <2>1, <2>2 DEF dirty_apply
    <2> QED BY Zenon, <1>2, <2>1, <2>3 DEF Marked
  <1>3. CASE mv.st # Fresh /\ mv.st.s # "Building"
    <2>1. dirtied(mv.st) = <<>> BY Zenon, <1>3, StateFacts DEF dirtied
    <2> QED BY Zenon, <1>3, <2>1 DEF dirty_apply, Marked
  <1> QED BY Zenon, <1>1, <1>2, <1>3

LEMMA MarkFacts ==
    ASSUME NEW v, ViewOK(v), NEW qs
    PROVE  /\ ViewOK(mv_dirty_mark(v, qs))
           /\ \A q \in Queries :
                 /\ mv_dirty_mark(v, qs)[q].state = v[q].state
                 /\ mv_dirty_mark(v, qs)[q].mv.st = IF q \in qs THEN Marked(v[q].mv.st) ELSE v[q].mv.st
  <1> DEFINE w == mv_dirty_mark(v, qs)
  <1>1. w = [q \in Queries |-> IF q \in qs THEN [v[q] EXCEPT !.mv = dirty_apply(@)] ELSE v[q]]
    BY Zenon DEF mv_dirty_mark
  <1>2. w = [q \in Queries |-> w[q]] BY Zenon, <1>1
  <1>3. ASSUME NEW q \in Queries
        PROVE  /\ DOMAIN w[q] = {"state", "mv"}
               /\ DOMAIN w[q].mv = {"st", "plan", "fresh", "wasted", "retry"}
               /\ w[q].state \in States /\ w[q].mv.st \in MvStates
               /\ w[q].mv.st = Fresh <=> w[q].mv.fresh # Never
               /\ w[q].state = v[q].state
               /\ w[q].mv.st = IF q \in qs THEN Marked(v[q].mv.st) ELSE v[q].mv.st
    <2>1. CASE q \in qs
      <3>1. w[q] = [v[q] EXCEPT !.mv = dirty_apply(@)] BY Zenon, <1>1, <2>1
      <3>2. w[q].mv = dirty_apply(v[q].mv) /\ w[q].state = v[q].state /\ DOMAIN w[q] = {"state", "mv"}
        BY Zenon, <3>1 DEF ViewOK
      <3>3. Marked(v[q].mv.st) \in MvStates /\ Marked(v[q].mv.st) # Fresh BY Zenon, StateFacts DEF ViewOK
      <3>4. /\ DOMAIN dirty_apply(v[q].mv) = {"st", "plan", "fresh", "wasted", "retry"}
            /\ dirty_apply(v[q].mv).st = Marked(v[q].mv.st) /\ dirty_apply(v[q].mv).fresh = Never
        BY Zenon, DirtyFacts DEF ViewOK
      <3> QED BY Zenon, <2>1, <3>2, <3>3, <3>4 DEF ViewOK
    <2>2. CASE q \notin qs BY Zenon, <1>1, <2>2 DEF ViewOK
    <2> QED BY Zenon, <2>1, <2>2
  <1> HIDE DEF w
  <1>4. ViewOK(w) BY Zenon, <1>2, <1>3 DEF ViewOK
  <1> QED BY Zenon, <1>3, <1>4 DEF w

\* The ways an entry of the view is written.
SetState(v, q, s) == [v EXCEPT ![q].state = s]
SetEntry(v, q, e) == [v EXCEPT ![q] = e]
SetMv(v, q, st) == [v EXCEPT ![q].mv.st = st]
SetName(v, q, s) == [v EXCEPT ![q].mv.st.s = s]

\* A state written under one query.
LEMMA StateFacts2 ==
    ASSUME NEW v, ViewOK(v), NEW q \in Queries, NEW s \in States,
           NEW w, w = SetState(v, q, s)
    PROVE  /\ ViewOK(w)
           /\ \A p \in Queries : /\ w[p].state = IF p = q THEN s ELSE v[p].state
                                 /\ w[p].mv = v[p].mv
  <1>1. w = [p \in Queries |-> w[p]] BY Zenon DEF ViewOK, SetState
  <1>2. \A p \in Queries : /\ w[p].state = IF p = q THEN s ELSE v[p].state
                           /\ w[p].mv = v[p].mv /\ DOMAIN w[p] = {"state", "mv"}
    BY Zenon DEF ViewOK, SetState
  <1>3. ViewOK(w) BY Zenon, <1>1, <1>2 DEF ViewOK
  <1> QED BY Zenon, <1>2, <1>3

\* An entry replaced as a whole.
LEMMA EntryFacts ==
    ASSUME NEW v, ViewOK(v), NEW q \in Queries,
           NEW e, DOMAIN e = {"state", "mv"}, e.state \in States, e.mv = NewMeta,
           NEW w, w = SetEntry(v, q, e)
    PROVE  ViewOK(w) /\ \A p \in Queries : w[p] = IF p = q THEN e ELSE v[p]
  <1>1. w = [p \in Queries |-> w[p]] BY Zenon DEF ViewOK, SetEntry
  <1>2. \A p \in Queries : w[p] = IF p = q THEN e ELSE v[p] BY Zenon DEF ViewOK, SetEntry
  <1>3. /\ DOMAIN NewMeta = {"st", "plan", "fresh", "wasted", "retry"} /\ NewMeta.st \in MvStates
        /\ NewMeta.st # Fresh /\ NewMeta.fresh = Never
    BY Zenon DEF NewMeta, mv_state_initial, State, MvStates, Fresh
  <1>4. ViewOK(w) BY Zenon, <1>1, <1>2, <1>3 DEF ViewOK
  <1> QED BY Zenon, <1>2, <1>4

\* An MV state written under one query; the time of its build goes with Fresh.
LEMMA WriteFacts ==
    ASSUME NEW v, ViewOK(v), NEW q \in Queries, NEW st \in MvStates, st # Fresh, v[q].mv.st # Fresh,
           NEW w, w = SetMv(v, q, st)
    PROVE  /\ ViewOK(w)
           /\ \A p \in Queries : /\ w[p].state = v[p].state
                                 /\ w[p].mv.st = IF p = q THEN st ELSE v[p].mv.st
  <1>1. w = [p \in Queries |-> w[p]] BY Zenon DEF ViewOK, SetMv
  <1>2. \A p \in Queries : p # q => w[p] = v[p] BY Zenon DEF ViewOK, SetMv
  <1>3. /\ DOMAIN w[q] = {"state", "mv"} /\ w[q].state = v[q].state
        /\ DOMAIN w[q].mv = {"st", "plan", "fresh", "wasted", "retry"}
        /\ w[q].mv.st = st /\ w[q].mv.fresh = v[q].mv.fresh
    BY Zenon DEF ViewOK, SetMv
  <1>4. ViewOK(w) BY <1>1, <1>2, <1>3 DEF ViewOK
  <1> QED BY Zenon, <1>2, <1>3, <1>4

\* The claim of a Pending or Scheduled MV: only its name changes.
LEMMA ClaimFacts ==
    ASSUME NEW v, ViewOK(v), NEW q \in Queries, v[q].mv.st.s \in {"Pending", "Scheduled"},
           NEW s \in {"Scheduled", "Building"}, NEW w, w = SetName(v, q, s)
    PROVE  /\ ViewOK(w)
           /\ \A p \in Queries :
                 /\ w[p].state = v[p].state
                 /\ w[p].mv.st = IF p = q THEN State(s, v[q].mv.st.table) ELSE v[p].mv.st
  <1> DEFINE st == State(s, v[q].mv.st.table)
  <1>1. v[q].mv.st \in MvStates BY Zenon DEF ViewOK
  <1>2. [v[q].mv.st EXCEPT !.s = s] = st /\ st \in MvStates BY Zenon, <1>1, StateFacts
  <1>3. v[q].mv.st # Fresh /\ st # Fresh BY Zenon, <1>1, StateFacts DEF State, Fresh
  <1>4. w = SetMv(v, q, st) BY Zenon, <1>2 DEF ViewOK, SetMv, SetName
  <1> HIDE DEF st
  <1>5. /\ ViewOK(w)
        /\ \A p \in Queries : /\ w[p].state = v[p].state
                              /\ w[p].mv.st = IF p = q THEN st ELSE v[p].mv.st
    BY <1>2, <1>3, <1>4, WriteFacts
  <1> QED BY Zenon, <1>5 DEF st

-----------------------------------------------------------------------------
(* What a step leaves alone of a query.                                    *)

\* The completions of q in the channel are among those there were.
CompletesKept(q) ==
    /\ \A i \in DOMAIN internal' : IsComplete(i, q)' =>
          \E j \in DOMAIN internal : IsComplete(j, q) /\ internal'[i] = internal[j]
    /\ \A i, j \in DOMAIN internal' : IsComplete(i, q)' /\ IsComplete(j, q)' /\ i # j =>
          \E k, l \in DOMAIN internal : k # l /\ IsComplete(k, q) /\ IsComplete(l, q)

BuildKept(q) ==
    /\ \A t \in tasks \cup tasks' : t.q = q => t \in tasks /\ t \in tasks'
    /\ q \in inflight' <=> q \in inflight
    /\ CompletesKept(q)

TableKept(q) == (q \in lost' <=> q \in lost) /\ table'[q] = table[q]

LEMMA CompletesSame == ASSUME internal' = internal, NEW q PROVE CompletesKept(q)
  BY Zenon DEF CompletesKept, IsComplete

LEMMA CompletesAppend ==
    ASSUME internal \in Seq(Command), NEW cmd \in Command, internal' = Append(internal, cmd), NEW q,
           cmd.c # "MvBuildComplete" \/ cmd.q # q
    PROVE  CompletesKept(q)
  <1>1. DOMAIN internal = 1..Len(internal) /\ Len(internal) \in Nat OBVIOUS
  <1>2. DOMAIN internal' = 1..(Len(internal) + 1) OBVIOUS
  <1>3. internal'[Len(internal) + 1] = cmd OBVIOUS
  <1>4. \A i \in 1..Len(internal) : internal'[i] = internal[i] OBVIOUS
  <1>5. \A i \in DOMAIN internal' : IsComplete(i, q)' => i \in 1..Len(internal) /\ IsComplete(i, q)
    BY <1>1, <1>2, <1>3, <1>4 DEF IsComplete
  <1> QED BY Zenon, <1>1, <1>4, <1>5 DEF CompletesKept

LEMMA CompletesTail ==
    ASSUME internal \in Seq(Command), internal # <<>>, internal' = Tail(internal), NEW q
    PROVE  CompletesKept(q)
  <1>1. /\ DOMAIN internal = 1..Len(internal) /\ Len(internal) \in Nat \ {0}
        /\ DOMAIN internal' = 1..(Len(internal) - 1)
    OBVIOUS
  <1>2. \A i \in DOMAIN internal' : i + 1 \in DOMAIN internal /\ internal'[i] = internal[i + 1]
    BY <1>1
  <1>3. \A i \in DOMAIN internal' : IsComplete(i, q)' => IsComplete(i + 1, q)
    BY Zenon, <1>2 DEF IsComplete
  <1>4. \A i, j \in DOMAIN internal' : i # j => i + 1 # j + 1 BY <1>1
  <1> QED BY Zenon, <1>2, <1>3, <1>4 DEF CompletesKept

LEMMA CompletesConcat ==
    ASSUME internal \in Seq(Command), NEW s \in Seq(Command), internal' = internal \o s, NEW q,
           \A i \in DOMAIN s : s[i].c # "MvBuildComplete"
    PROVE  CompletesKept(q)
  <1>1. /\ DOMAIN internal = 1..Len(internal) /\ Len(internal) \in Nat
        /\ DOMAIN s = 1..Len(s) /\ Len(s) \in Nat
        /\ DOMAIN internal' = 1..(Len(internal) + Len(s))
    OBVIOUS
  <1>2. \A i \in DOMAIN internal' :
            internal'[i] = IF i <= Len(internal) THEN internal[i] ELSE s[i - Len(internal)]
    OBVIOUS
  <1>3. \A i \in DOMAIN internal' : i <= Len(internal) \/ i - Len(internal) \in DOMAIN s BY <1>1
  <1>4. \A i \in DOMAIN internal' :
            IsComplete(i, q)' => i \in DOMAIN internal /\ IsComplete(i, q) /\ internal'[i] = internal[i]
    BY <1>1, <1>2, <1>3 DEF IsComplete
  <1> QED BY Zenon, <1>4 DEF CompletesKept

\* A step that leaves q's build and table alone, and of its MV's state what they
\* depend on.
LEMMA SoftStep ==
    ASSUME NEW q \in Queries, QueryOK(q), BuildKept(q), TableKept(q),
           view'[q].mv.st.table = view[q].mv.st.table,
           InFlightState(view'[q].mv.st) <=> InFlightState(view[q].mv.st),
           view'[q].state = "absent" => view'[q].mv.st = mv_state_initial
    PROVE  QueryOK(q)'
  <1> USE DEF QueryOK, BuildKept, TableKept
  <1>1. OneBuild(q)'
    <2>1. Tasked(q)' <=> Tasked(q) BY Zenon DEF Tasked
    <2>2. \A t, u \in tasks' : t.q = q /\ u.q = q => t = u BY Zenon DEF OneBuild
    <2>3. \A i \in DOMAIN internal' :
              IsComplete(i, q)' => q \in inflight' /\ ~Tasked(q)' /\ internal'[i].o # ""
      BY Zenon, <2>1 DEF OneBuild, CompletesKept
    <2>4. \A i, j \in DOMAIN internal' : IsComplete(i, q)' /\ IsComplete(j, q)' => i = j
      BY Zenon DEF OneBuild, CompletesKept
    <2> QED BY Zenon, <2>1, <2>2, <2>3, <2>4 DEF OneBuild
  <1>2. EntryOK(q)' BY Zenon DEF EntryOK
  <1>3. ASSUME q \in lost' PROVE LostOK(q)' BY Zenon, <1>3 DEF LostOK, CompletesKept
  <1>4. ASSUME q \notin lost' PROVE KnownOK(q)'
    <2>1. Accounted(q)' BY Zenon, <1>4 DEF KnownOK, Accounted, Building
    <2>2. \A t \in tasks' : t.q = q => (t.has_table <=> table'[q] # NoTable) BY Zenon, <1>4 DEF KnownOK
    <2>3. \A i \in DOMAIN internal' : IsComplete(i, q)' =>
            /\ internal'[i].o = "Built" => table'[q] # NoTable
            /\ internal'[i].o = "Failed" => (internal'[i].table <=> table'[q] # NoTable)
            /\ internal'[i].o = "Ineligible" => table'[q] = NoTable
      BY ZenonT(30), <1>4 DEF KnownOK, CompletesKept
    <2> QED BY Zenon, <2>1, <2>2, <2>3 DEF KnownOK
  <1> QED BY Zenon, <1>1, <1>2, <1>3, <1>4

-----------------------------------------------------------------------------
(* MvInv: steps that touch no build and no table.                          *)

LEMMA TasksFrame == TasksOK /\ UNCHANGED <<tasks, idle>> => TasksOK'
  BY Zenon DEF TasksOK, TaskOK, SlotsKept

LEMMA ChannelsFrame == ChannelsOK /\ UNCHANGED <<dispatched, internal>> => ChannelsOK'
  BY Zenon DEF ChannelsOK

LEMMA FrameFrame == FrameOK /\ UNCHANGED <<frame, replayed, flagged, version, table>> => FrameOK'
  BY Zenon DEF FrameOK

\* What a step may do to a query's entry without its build noticing.
SoftEntry(q) ==
    /\ view'[q].mv.st.table = view[q].mv.st.table
    /\ InFlightState(view'[q].mv.st) <=> InFlightState(view[q].mv.st)
    /\ view'[q].state = "absent" => view'[q].mv.st = mv_state_initial

LEMMA SoftSafe ==
    ASSUME MvInv, UNCHANGED <<tasks, idle, inflight, table, lost>>,
           ViewOK(view'), ChannelsOK', FrameOK',
           \A q \in Queries : SoftEntry(q) /\ CompletesKept(q)
    PROVE  MvInv'
  <1> USE DEF MvInv
  <1>1. TasksOK' BY Zenon, TasksFrame
  <1>2. ASSUME NEW q \in Queries PROVE QueryOK(q)'
    <2>1. BuildKept(q) /\ TableKept(q) BY Zenon DEF BuildKept, TableKept
    <2> QED BY Zenon, <2>1, SoftStep DEF SoftEntry
  <1> QED BY Zenon, <1>1, <1>2

\* A step that leaves the channels and the frame alone as well.
LEMMA ViewSafe ==
    ASSUME MvInv, UNCHANGED <<tasks, idle, inflight, table, lost, dispatched, internal,
                              frame, replayed, flagged, version>>,
           ViewOK(view'), \A q \in Queries : SoftEntry(q)
    PROVE  MvInv'
  <1>1. ChannelsOK' BY Zenon, ChannelsFrame DEF MvInv
  <1>2. FrameOK' BY Zenon, FrameFrame DEF MvInv
  <1>3. \A q \in Queries : CompletesKept(q) BY Zenon, CompletesSame
  <1> QED BY Zenon, <1>1, <1>2, <1>3, SoftSafe

\* An entry whose MV keeps its state.
LEMMA SameEntry ==
    ASSUME NEW q \in Queries, view'[q].mv.st = view[q].mv.st,
           view'[q].state = "absent" => view[q].state = "absent", MvInv
    PROVE  SoftEntry(q)
  BY Zenon DEF SoftEntry, MvInv, QueryOK, EntryOK

LEMMA RegisterSafe ==
    ASSUME MvInv, NEW q \in Queries, query_register(q)
    PROVE  MvInv'
  <1> DEFINE e == [state |-> "Loading", mv |-> NewMeta]
  <1>1. /\ view[q].state = "absent" /\ view' = SetEntry(view, q, e)
        /\ UNCHANGED <<tasks, idle, inflight, table, lost, dispatched, internal,
                       frame, replayed, flagged, version>>
    BY Zenon DEF query_register, writerVars, SetEntry
  <1>e. DOMAIN e = {"state", "mv"} /\ e.state = "Loading" /\ e.state \in States /\ e.mv = NewMeta BY Zenon DEF States
  <1> HIDE DEF e
  <1>2. ViewOK(view') /\ \A p \in Queries : view'[p] = IF p = q THEN e ELSE view[p]
    BY <1>1, <1>e, EntryFacts DEF MvInv
  <1>3. ASSUME NEW p \in Queries PROVE SoftEntry(p)
    <2>1. NewMeta.st = mv_state_initial BY Zenon DEF NewMeta
    <2>2. view[q].mv.st = mv_state_initial BY Zenon, <1>1 DEF MvInv, QueryOK, EntryOK
    <2> QED BY Zenon, <1>e, <1>2, <2>1, <2>2, SameEntry
  <1> QED BY Zenon, <1>1, <1>2, <1>3, ViewSafe

\* A state that changes by itself.
LEMMA StateSafe ==
    ASSUME MvInv, NEW q \in Queries, view[q].state # "absent", NEW s \in States \ {"absent"},
           view' = SetState(view, q, s)
    PROVE  ViewOK(view') /\ \A p \in Queries : SoftEntry(p)
  <1>1. /\ ViewOK(view')
        /\ \A p \in Queries : /\ view'[p].state = IF p = q THEN s ELSE view[p].state
                              /\ view'[p].mv = view[p].mv
    BY StateFacts2 DEF MvInv
  <1> QED BY Zenon, <1>1, SameEntry

LEMMA ReadmitSafe ==
    ASSUME MvInv, NEW q \in Queries, register_invalidated(q)
    PROVE  MvInv'
  <1>1. /\ view[q].state # "absent" /\ view' = SetState(view, q, "Loading")
        /\ UNCHANGED <<tasks, idle, inflight, table, lost, dispatched, internal,
                       frame, replayed, flagged, version>>
    BY Zenon DEF register_invalidated, query_readmit, writerVars, SetState
  <1>2. "Loading" \in States \ {"absent"} BY Zenon DEF States
  <1> QED BY Zenon, <1>1, <1>2, StateSafe, ViewSafe

\* Marks: the MVs of some queries are told of a change.
LEMMA MarkedSafe ==
    ASSUME MvInv, NEW q \in Queries, NEW v, NEW qs, v = mv_dirty_mark(view, qs)
    PROVE  /\ v[q].mv.st.table = view[q].mv.st.table
           /\ InFlightState(v[q].mv.st) <=> InFlightState(view[q].mv.st)
           /\ v[q].state = "absent" => v[q].mv.st = mv_state_initial
           /\ q \in qs => v[q].mv.st # Fresh /\ v[q].mv.st.s # "Building"
           /\ q \notin qs => v[q].mv.st = view[q].mv.st
  <1>1. view[q].mv.st \in MvStates BY Zenon DEF MvInv, ViewOK
  <1>2. /\ v[q].state = view[q].state
        /\ v[q].mv.st = IF q \in qs THEN Marked(view[q].mv.st) ELSE view[q].mv.st
    BY MarkFacts DEF MvInv
  <1>3. Marked(mv_state_initial) = mv_state_initial BY Zenon DEF Marked, mv_state_initial, State, Fresh
  <1>4. view[q].state = "absent" => view[q].mv.st = mv_state_initial BY Zenon DEF MvInv, QueryOK, EntryOK
  <1>5. /\ Marked(view[q].mv.st) # Fresh /\ Marked(view[q].mv.st).s # "Building"
        /\ Marked(view[q].mv.st).table = view[q].mv.st.table
        /\ InFlightState(Marked(view[q].mv.st)) <=> InFlightState(view[q].mv.st)
    BY Zenon, <1>1, StateFacts
  <1>6. CASE q \in qs BY Zenon, <1>2, <1>3, <1>4, <1>5, <1>6
  <1>7. CASE q \notin qs BY Zenon, <1>2, <1>4, <1>7
  <1> QED BY Zenon, <1>6, <1>7

LEMMA LimitBumpSafe ==
    ASSUME MvInv, NEW q \in Queries, limit_bump_handle(q)
    PROVE  MvInv'
  <1> DEFINE v == mv_dirty_mark(view, {q})
  <1>1. /\ view' = SetState(v, q, "Loading") /\ view[q].state = "Ready"
        /\ UNCHANGED <<tasks, idle, inflight, table, lost, dispatched, internal,
                       frame, replayed, flagged, version>>
    BY Zenon DEF limit_bump_handle, writerVars, Ready, SetState
  <1>2. ViewOK(v) /\ \A p \in Queries : v[p].state = view[p].state BY MarkFacts DEF MvInv
  <1>3. \A p \in Queries : /\ v[p].mv.st.table = view[p].mv.st.table
                           /\ InFlightState(v[p].mv.st) <=> InFlightState(view[p].mv.st)
                           /\ v[p].state = "absent" => v[p].mv.st = mv_state_initial
    BY Zenon, MarkedSafe
  <1> HIDE DEF v
  <1>4. /\ ViewOK(view')
        /\ \A p \in Queries : /\ view'[p].state = IF p = q THEN "Loading" ELSE v[p].state
                              /\ view'[p].mv = v[p].mv
    <2>1. "Loading" \in States BY Zenon DEF States
    <2> QED BY <1>1, <1>2, <2>1, StateFacts2
  <1>5. \A p \in Queries : SoftEntry(p) BY Zenon, <1>2, <1>3, <1>4 DEF SoftEntry
  <1> QED BY Zenon, <1>1, <1>4, <1>5, ViewSafe

LEMMA BuildCommand == \A q \in Queries : CommandBuild(q) \in Command /\ CommandBuild(q) \in Builds
  BY Zenon DEF CommandBuild, Command, Builds

\* A hit, or the writer for a pinned query, claims a Pending MV.
LEMMA ScheduleSafe ==
    ASSUME MvInv, NEW q \in Queries, mv_schedule(q)
    PROVE  MvInv'
  <1>1. /\ view' = SetName(view, q, "Scheduled") /\ view[q].mv.st.s = "Pending"
        /\ view[q].state = "Ready" /\ dispatched' = Append(dispatched, CommandBuild(q))
        /\ UNCHANGED <<tasks, idle, inflight, table, lost, internal, frame, replayed, flagged, version>>
    BY Zenon DEF mv_schedule, writerVars, Ready, SetName
  <1>2. /\ ViewOK(view')
        /\ \A p \in Queries :
              /\ view'[p].state = view[p].state
              /\ view'[p].mv.st = IF p = q THEN State("Scheduled", view[q].mv.st.table) ELSE view[p].mv.st
    BY <1>1, ClaimFacts DEF MvInv
  <1>3. ASSUME NEW p \in Queries PROVE SoftEntry(p)
    <2>1. CASE p = q
      BY <1>1, <1>2, <2>1 DEF SoftEntry, State, InFlightState
    <2>2. CASE p # q BY Zenon, <1>2, <2>2, SameEntry
    <2> QED BY Zenon, <2>1, <2>2
  <1>4. ChannelsOK' BY <1>1, BuildCommand DEF MvInv, ChannelsOK
  <1>5. FrameOK' BY Zenon, <1>1, FrameFrame DEF MvInv
  <1>6. \A p \in Queries : CompletesKept(p) BY Zenon, <1>1, CompletesSame
  <1> QED BY Zenon, <1>1, <1>2, <1>3, <1>4, <1>5, <1>6, SoftSafe

LEMMA PopulatedSafe ==
    ASSUME MvInv, NEW q \in Queries, query_ready_finalize(q)
    PROVE  MvInv'
  <1> DEFINE v == SetState(view, q, "Ready")
  <1>1. /\ view[q].state = "Loading" /\ FrameIdle /\ version'[q] <= MaxVersion
        /\ version' = version \/ version' = [version EXCEPT ![q] = @ + 1]
        /\ mv_pinned_bootstrap(v, q)
        /\ UNCHANGED <<tasks, idle, inflight, table, lost, dispatched, frame, replayed, flagged>>
    BY Zenon DEF query_ready_finalize, writerVars, SetState
  <1>2. /\ ViewOK(v)
        /\ \A p \in Queries : /\ v[p].state = IF p = q THEN "Ready" ELSE view[p].state
                              /\ v[p].mv = view[p].mv
    BY StateFacts2 DEF MvInv, States
  <1> HIDE DEF v
  <1>3. FrameOK'
    <2>1. version' \in [Queries -> 1 .. MaxVersion]
      <3>1. CASE version' = version BY Zenon, <3>1 DEF MvInv, FrameOK
      <3>2. CASE version' = [version EXCEPT ![q] = @ + 1]
        <4>1. version[q] \in 1 .. MaxVersion /\ version'[q] = version[q] + 1 BY Zenon, <3>2 DEF MvInv, FrameOK
        <4>2. version[q] + 1 \in 1 .. MaxVersion BY <1>1, <4>1, MvAssumption
        <4> QED BY Zenon, <3>2, <4>2 DEF MvInv, FrameOK
      <3> QED BY Zenon, <1>1, <3>1, <3>2
    <2> QED BY <1>1, <2>1 DEF MvInv, FrameOK, FrameIdle
  <1>4. CASE view' = v /\ internal' = internal
    <2>1. \A p \in Queries : SoftEntry(p) BY Zenon, <1>1, <1>2, <1>4, SameEntry
    <2>2. ChannelsOK' BY Zenon, <1>1, <1>4, ChannelsFrame DEF MvInv
    <2>3. \A p \in Queries : CompletesKept(p) BY Zenon, <1>4, CompletesSame
    <2> QED BY Zenon, <1>1, <1>2, <1>3, <1>4, <2>1, <2>2, <2>3, SoftSafe
  <1>5. CASE /\ v[q].mv.st.s = "Pending" /\ view' = SetName(v, q, "Scheduled")
             /\ internal' = Append(internal, CommandBuild(q))
    <2>1. /\ ViewOK(view')
          /\ \A p \in Queries :
                /\ view'[p].state = v[p].state
                /\ view'[p].mv.st = IF p = q THEN State("Scheduled", v[q].mv.st.table) ELSE v[p].mv.st
      BY <1>2, <1>5, ClaimFacts
    <2>2. ASSUME NEW p \in Queries PROVE SoftEntry(p)
      <3>1. CASE p = q
        BY <1>2, <1>5, <2>1, <3>1 DEF SoftEntry, State, InFlightState
      <3>2. CASE p # q BY Zenon, <1>2, <2>1, <3>2, SameEntry
      <3> QED BY Zenon, <3>1, <3>2
    <2>3. ChannelsOK' BY <1>1, <1>5, BuildCommand DEF MvInv, ChannelsOK
    <2>4. CommandBuild(q).c # "MvBuildComplete" BY Zenon DEF CommandBuild
    <2>5. \A p \in Queries : CompletesKept(p)
      BY Zenon, <1>5, <2>4, BuildCommand, CompletesAppend DEF MvInv, ChannelsOK
    <2> QED BY Zenon, <1>1, <1>3, <2>1, <2>2, <2>3, <2>5, SoftSafe
  <1> QED BY Zenon, <1>1, <1>4, <1>5 DEF mv_pinned_bootstrap, SetName

-----------------------------------------------------------------------------
(* The entry that goes: a failed population, an eviction.                  *)

\* An entry that is gone has the state of a new one.
LEMMA GoneFacts ==
    ASSUME MvInv, NEW q \in Queries, view' = SetEntry(view, q, Absent)
    PROVE  /\ ViewOK(view') /\ view'[q].state = "absent" /\ view'[q].mv.st = mv_state_initial
           /\ ~view'[q].mv.st.table /\ ~InFlightState(view'[q].mv.st)
           /\ \A p \in Queries : p # q => SoftEntry(p)
  <1>1. DOMAIN Absent = {"state", "mv"} /\ Absent.state = "absent" /\ Absent.mv = NewMeta BY Zenon DEF Absent
  <1>2. Absent.state \in States BY Zenon, <1>1 DEF States
  <1>3. ViewOK(view') /\ \A p \in Queries : view'[p] = IF p = q THEN Absent ELSE view[p]
    BY <1>1, <1>2, EntryFacts DEF MvInv
  <1>4. NewMeta.st = mv_state_initial /\ ~mv_state_initial.table /\ ~InFlightState(mv_state_initial)
    BY Zenon DEF NewMeta, mv_state_initial, State, InFlightState
  <1> QED BY Zenon, <1>1, <1>3, <1>4, SameEntry

LEMMA CleanupSafe ==
    ASSUME MvInv, NEW q \in Queries, query_failed_cleanup(q)
    PROVE  MvInv'
  <1>1. /\ view' = SetEntry(view, q, Absent)
        /\ lost' = IF view[q].mv.st.table /\ q \notin inflight THEN lost \cup {q} ELSE lost
        /\ UNCHANGED <<tasks, idle, inflight, table, dispatched, internal, frame, replayed, flagged, version>>
    BY Zenon DEF query_failed_cleanup, writerVars, SetEntry
  <1>2. /\ ViewOK(view') /\ view'[q].state = "absent" /\ view'[q].mv.st = mv_state_initial
        /\ ~view'[q].mv.st.table /\ ~InFlightState(view'[q].mv.st)
        /\ \A p \in Queries : p # q => SoftEntry(p)
    BY Zenon, <1>1, GoneFacts
  <1>3. ChannelsOK' BY Zenon, <1>1, ChannelsFrame DEF MvInv
  <1>4. FrameOK' BY Zenon, <1>1, FrameFrame DEF MvInv
  <1>5. TasksOK' BY Zenon, <1>1, TasksFrame DEF MvInv
  <1>6. ASSUME NEW p \in Queries PROVE QueryOK(p)'
    <2>1. CASE p # q
      <3>1. BuildKept(p) /\ TableKept(p) BY Zenon, <1>1, <2>1, CompletesSame DEF BuildKept, TableKept
      <3> QED BY Zenon, <1>2, <2>1, <3>1, SoftStep DEF MvInv, SoftEntry
    <2>2. CASE p = q
      <3>1. QueryOK(q) BY Zenon DEF MvInv
      <3>2. OneBuild(q)' BY Zenon, <1>1, <3>1 DEF QueryOK, OneBuild, Tasked, IsComplete
      <3>3. EntryOK(q)' BY Zenon, <1>1, <1>2, <3>1 DEF QueryOK, EntryOK
      <3>4. ASSUME q \in lost' PROVE LostOK(q)'
        <4>1. CASE q \in lost
          BY Zenon, <1>1, <1>2, <3>1, <4>1 DEF QueryOK, LostOK, IsComplete
        <4>2. CASE q \notin lost
          <5>1. view[q].mv.st.table /\ q \notin inflight BY Zenon, <1>1, <3>4, <4>2
          <5>2. table[q] # NoTable BY Zenon, <3>1, <4>2, <5>1 DEF QueryOK, KnownOK, Accounted, Building
          <5>3. ~Tasked(q) /\ \A i \in DOMAIN internal : ~IsComplete(i, q)
            BY Zenon, <3>1, <5>1 DEF QueryOK, OneBuild
          <5> QED BY Zenon, <1>1, <1>2, <5>2, <5>3 DEF LostOK, Tasked, IsComplete
        <4> QED BY Zenon, <4>1, <4>2
      <3>5. ASSUME q \notin lost' PROVE KnownOK(q)'
        <4>1. q \notin lost /\ (view[q].mv.st.table => q \in inflight) BY Zenon, <1>1, <3>5
        <4> QED BY Zenon, <1>1, <1>2, <3>1, <4>1 DEF QueryOK, KnownOK, Accounted, Building, IsComplete
      <3> QED BY Zenon, <2>2, <3>2, <3>3, <3>4, <3>5 DEF QueryOK
    <2> QED BY Zenon, <2>1, <2>2
  <1> QED BY Zenon, <1>2, <1>3, <1>4, <1>5, <1>6 DEF MvInv

LEMMA EvictSafe ==
    ASSUME MvInv, NEW q \in Queries, cache_query_evict(q)
    PROVE  MvInv'
  <1>1. /\ view' = SetEntry(view, q, Absent)
        /\ table' = IF ~InFlightState(view[q].mv.st) /\ view[q].mv.st.table
                    THEN [table EXCEPT ![q] = NoTable] ELSE table
        /\ UNCHANGED <<tasks, idle, inflight, lost, dispatched, internal, frame, replayed, flagged, version>>
    BY Zenon DEF cache_query_evict, writerVars, SetEntry, mv_drop
  <1>2. /\ ViewOK(view') /\ view'[q].state = "absent" /\ view'[q].mv.st = mv_state_initial
        /\ ~view'[q].mv.st.table /\ ~InFlightState(view'[q].mv.st)
        /\ \A p \in Queries : p # q => SoftEntry(p)
    BY Zenon, <1>1, GoneFacts
  <1>3. ChannelsOK' BY Zenon, <1>1, ChannelsFrame DEF MvInv
  <1>4. /\ table' \in [Queries -> {NoTable, Truncated} \cup 1 .. MaxVersion]
        /\ \A p \in Queries : table'[p] =
              IF p = q /\ ~InFlightState(view[q].mv.st) /\ view[q].mv.st.table THEN NoTable ELSE table[p]
    BY Zenon, <1>1 DEF MvInv, FrameOK
  <1>5. FrameOK' BY Zenon, <1>1, <1>4 DEF MvInv, FrameOK
  <1>6. TasksOK' BY Zenon, <1>1, TasksFrame DEF MvInv
  <1>7. ASSUME NEW p \in Queries PROVE QueryOK(p)'
    <2>1. CASE p # q
      <3>1. BuildKept(p) /\ TableKept(p) BY Zenon, <1>1, <1>4, <2>1, CompletesSame DEF BuildKept, TableKept
      <3> QED BY Zenon, <1>2, <2>1, <3>1, SoftStep DEF MvInv, SoftEntry
    <2>2. CASE p = q
      <3>1. QueryOK(q) BY Zenon DEF MvInv
      <3>2. OneBuild(q)' BY Zenon, <1>1, <3>1 DEF QueryOK, OneBuild, Tasked, IsComplete
      <3>3. EntryOK(q)' BY Zenon, <1>1, <1>2, <3>1 DEF QueryOK, EntryOK
      <3>4. CASE ~InFlightState(view[q].mv.st) /\ view[q].mv.st.table
        <4>1. q \notin inflight /\ q \notin lost BY Zenon, <3>1, <3>4 DEF QueryOK, EntryOK, LostOK
        <4>2. ~Tasked(q) /\ \A i \in DOMAIN internal : ~IsComplete(i, q)
          BY Zenon, <3>1, <4>1 DEF QueryOK, OneBuild
        <4>3. KnownOK(q)'
          BY Zenon, <1>1, <1>2, <1>4, <3>4, <4>2 DEF KnownOK, Accounted, Tasked, IsComplete
        <4> QED BY Zenon, <1>1, <2>2, <3>2, <3>3, <4>1, <4>3 DEF QueryOK
      <3>5. CASE ~(~InFlightState(view[q].mv.st) /\ view[q].mv.st.table)
        <4>1. table'[q] = table[q] BY Zenon, <1>4, <3>5
        <4>2. view[q].mv.st.table => q \in inflight BY Zenon, <3>1, <3>5 DEF QueryOK, EntryOK
        <4>3. q \in lost => LostOK(q)' BY Zenon, <1>1, <1>2, <3>1, <4>1 DEF QueryOK, LostOK, IsComplete
        <4>4. q \notin lost => KnownOK(q)'
          BY Zenon, <1>1, <1>2, <3>1, <4>1, <4>2 DEF QueryOK, KnownOK, Accounted, Building, IsComplete
        <4> QED BY Zenon, <1>1, <2>2, <3>2, <3>3, <4>3, <4>4 DEF QueryOK
      <3> QED BY Zenon, <3>4, <3>5
    <2> QED BY Zenon, <2>1, <2>2
  <1> QED BY Zenon, <1>2, <1>3, <1>5, <1>6, <1>7 DEF MvInv

-----------------------------------------------------------------------------
(* The frame.                                                              *)

LEMMA ReplayFacts ==
    ASSUME MvInv, NEW events \in Seq(Events), NEW r, r = Replay(events)
    PROVE  /\ r.flagged \subseteq Queries /\ r.changed \subseteq Queries
           /\ r.view = mv_dirty_mark(view, r.changed)
           /\ \A q \in r.changed : \E i \in DOMAIN events : events[i].q = q
  <1>1. \A i \in DOMAIN events : events[i].q \in Queries BY DEF Events
  <1> QED BY Zenon, <1>1 DEF Replay, MvInv, FrameOK

LEMMA EventFacts ==
    ASSUME NEW e \in Events, frame \in Seq(Events), NEW events, events = Append(frame, e)
    PROVE  /\ events \in Seq(Events)
           /\ \A i \in DOMAIN events : events[i] = e \/ \E j \in DOMAIN frame : events[i] = frame[j]
  <1>1. events \in Seq(Events) /\ DOMAIN events = 1..(Len(frame) + 1) /\ Len(frame) \in Nat OBVIOUS
  <1>2. \A i \in 1..Len(frame) : events[i] = frame[i] /\ i \in DOMAIN frame OBVIOUS
  <1>3. events[Len(frame) + 1] = e OBVIOUS
  <1> QED BY <1>1, <1>2, <1>3

LEMMA RowEventSafe ==
    ASSUME MvInv, NEW e \in Events, row_event(e)
    PROVE  MvInv'
  <1> DEFINE events == Append(frame, e)
             r == Replay(events)
  <1>1. /\ Inserted(e, events)
        /\ \/ frame' = <<>> /\ view' = r.view /\ flagged' = r.flagged /\ replayed' = replayed \cup r.changed
           \/ frame' = events /\ UNCHANGED <<view, flagged, replayed>>
        /\ UNCHANGED <<tasks, idle, inflight, table, lost, dispatched, internal, version>>
    BY Zenon DEF row_event
  <1>2. version[e.q] < MaxVersion BY Zenon, <1>1 DEF Inserted
  <1>3. /\ events \in Seq(Events)
        /\ \A i \in DOMAIN events : events[i] = e \/ \E j \in DOMAIN frame : events[i] = frame[j]
    BY EventFacts DEF MvInv, FrameOK
  <1>4. \A i \in DOMAIN events : version[events[i].q] < MaxVersion BY Zenon, <1>2, <1>3 DEF MvInv, FrameOK
  <1>5. /\ r.flagged \subseteq Queries /\ r.changed \subseteq Queries
        /\ r.view = mv_dirty_mark(view, r.changed)
        /\ \A q \in r.changed : \E i \in DOMAIN events : events[i].q = q
    BY ZenonT(30), <1>3, ReplayFacts
  <1> HIDE DEF events, r
  <1>6. ChannelsOK' BY Zenon, <1>1, ChannelsFrame DEF MvInv
  <1>7. \A q \in Queries : CompletesKept(q) BY Zenon, <1>1, CompletesSame
  <1>8. CASE /\ frame' = <<>> /\ view' = r.view /\ flagged' = r.flagged
             /\ replayed' = replayed \cup r.changed
    <2>1. \A q \in r.changed : version[q] < MaxVersion BY Zenon, <1>4, <1>5
    <2>2. FrameOK' BY <1>1, <1>5, <1>8, <2>1 DEF MvInv, FrameOK
    <2>3. view' = mv_dirty_mark(view, r.changed) BY Zenon, <1>5, <1>8
    <2>4. ViewOK(view') BY Zenon, <2>3, MarkFacts DEF MvInv
    <2>5. \A q \in Queries : SoftEntry(q) BY Zenon, <2>3, MarkedSafe DEF SoftEntry
    <2> QED BY Zenon, <1>1, <1>6, <1>7, <2>2, <2>4, <2>5, SoftSafe
  <1>9. CASE frame' = events /\ UNCHANGED <<view, flagged, replayed>>
    <2>1. FrameOK' BY Zenon, <1>1, <1>3, <1>4, <1>9 DEF MvInv, FrameOK
    <2>2. ViewOK(view') BY Zenon, <1>9 DEF MvInv
    <2>3. \A q \in Queries : SoftEntry(q) BY Zenon, <1>9, SameEntry
    <2> QED BY Zenon, <1>1, <1>6, <1>7, <2>1, <2>2, <2>3, SoftSafe
  <1> QED BY Zenon, <1>1, <1>8, <1>9

LEMMA InvalidatedFacts ==
    ASSUME NEW v, ViewOK(v), NEW qs, NEW w, w = query_invalidated_mark(v, qs)
    PROVE  /\ ViewOK(w)
           /\ \A q \in Queries :
                 /\ w[q].state = IF q \in qs /\ v[q].state # "absent" THEN "Invalidated" ELSE v[q].state
                 /\ w[q].mv.st = IF q \in qs /\ v[q].state # "absent" THEN Marked(v[q].mv.st) ELSE v[q].mv.st
  <1> DEFINE dirty == mv_dirty_mark(v, qs)
  <1>1. w = [q \in Queries |-> IF q \in qs /\ v[q].state # "absent"
                               THEN [dirty[q] EXCEPT !.state = "Invalidated"] ELSE v[q]]
    BY Zenon DEF query_invalidated_mark
  <1>2. ViewOK(dirty) /\ \A q \in Queries : q \in qs => dirty[q].mv.st = Marked(v[q].mv.st) BY Zenon, MarkFacts
  <1> HIDE DEF dirty
  <1>3. ASSUME NEW q \in Queries
        PROVE  /\ DOMAIN w[q] = {"state", "mv"}
               /\ DOMAIN w[q].mv = {"st", "plan", "fresh", "wasted", "retry"}
               /\ w[q].state \in States /\ w[q].mv.st \in MvStates
               /\ w[q].mv.st = Fresh <=> w[q].mv.fresh # Never
               /\ w[q].state = IF q \in qs /\ v[q].state # "absent" THEN "Invalidated" ELSE v[q].state
               /\ w[q].mv.st = IF q \in qs /\ v[q].state # "absent" THEN Marked(v[q].mv.st) ELSE v[q].mv.st
    <2>1. CASE q \in qs /\ v[q].state # "absent"
      <3>1. w[q] = [dirty[q] EXCEPT !.state = "Invalidated"] BY Zenon, <1>1, <2>1
      <3>2. w[q].state = "Invalidated" /\ w[q].mv = dirty[q].mv /\ DOMAIN w[q] = {"state", "mv"}
        BY Zenon, <1>2, <3>1 DEF ViewOK
      <3> QED BY Zenon, <1>2, <2>1, <3>2 DEF ViewOK, States
    <2>2. CASE ~(q \in qs /\ v[q].state # "absent")
      <3>1. w[q] = v[q] BY Zenon, <1>1, <2>2
      <3> QED BY Zenon, <2>2, <3>1 DEF ViewOK
    <2> QED BY Zenon, <2>1, <2>2
  <1>4. w = [q \in Queries |-> w[q]] BY Zenon, <1>1
  <1> QED BY Zenon, <1>3, <1>4 DEF ViewOK

-----------------------------------------------------------------------------
(* Reads, time and the sweep.                                              *)

LEMMA ReadsSafe ==
    ASSUME MvInv, UNCHANGED <<view, version, table, tasks, idle, dispatched, internal, lost, writerVars>>
    PROVE  MvInv'
  <1>1. \A q \in Queries : SoftEntry(q) BY Zenon, SameEntry
  <1> QED BY Zenon, <1>1, ViewSafe DEF MvInv, writerVars

\* Time moves only the ages.
LEMMA TickFacts ==
    ASSUME MvInv, Tick, NEW q \in Queries
    PROVE  /\ DOMAIN view'[q] = {"state", "mv"} /\ view'[q].state = view[q].state
           /\ DOMAIN view'[q].mv = {"st", "plan", "fresh", "wasted", "retry"}
           /\ view'[q].mv.st = view[q].mv.st
           /\ view'[q].mv.fresh = Never <=> view[q].mv.fresh = Never
  <1> DEFINE a == IF view[q].mv.fresh \in 0 .. MV_PAYOFF_WINDOW - 1 THEN view[q].mv.fresh + 1 ELSE view[q].mv.fresh
             b == IF view[q].mv.retry > 0 THEN view[q].mv.retry - 1 ELSE view[q].mv.retry
  <1>1. view'[q] = [view[q] EXCEPT !.mv.fresh = a, !.mv.retry = b] BY Zenon DEF Tick, MvInv, ViewOK
  <1>2. a = Never <=> view[q].mv.fresh = Never BY MvAssumption DEF Never
  <1>3. DOMAIN view[q] = {"state", "mv"} /\ DOMAIN view[q].mv = {"st", "plan", "fresh", "wasted", "retry"}
    BY Zenon DEF MvInv, ViewOK
  <1> HIDE DEF a, b
  <1> DEFINE x == [view[q] EXCEPT !.mv.fresh = a]
  <1>4. /\ DOMAIN x = {"state", "mv"} /\ x.state = view[q].state
        /\ DOMAIN x.mv = {"st", "plan", "fresh", "wasted", "retry"}
        /\ x.mv.st = view[q].mv.st /\ x.mv.fresh = a
    BY Zenon, <1>3
  <1>5. view'[q] = [x EXCEPT !.mv.retry = b] BY Zenon, <1>1
  <1> HIDE DEF x
  <1> QED BY Zenon, <1>2, <1>4, <1>5

LEMMA TickSafe ==
    ASSUME MvInv, Tick
    PROVE  MvInv'
  <1>1. UNCHANGED <<version, table, tasks, idle, dispatched, internal, lost, frame, replayed, flagged, inflight>>
    BY Zenon DEF Tick, writerVars
  <1>2. ASSUME NEW q \in Queries
        PROVE  /\ DOMAIN view'[q] = {"state", "mv"} /\ view'[q].state = view[q].state
               /\ DOMAIN view'[q].mv = {"st", "plan", "fresh", "wasted", "retry"}
               /\ view'[q].mv.st = view[q].mv.st
               /\ view'[q].mv.fresh = Never <=> view[q].mv.fresh = Never
    BY Zenon, TickFacts
  <1>3. view' = [q \in Queries |-> view'[q]] BY Zenon DEF Tick
  <1>4. ViewOK(view') BY Zenon, <1>2, <1>3 DEF MvInv, ViewOK
  <1>5. \A q \in Queries : SoftEntry(q) BY Zenon, <1>2, SameEntry
  <1> QED BY Zenon, <1>1, <1>4, <1>5, ViewSafe

LEMMA SweepSafe ==
    ASSUME MvInv, mv_dirty_sweep
    PROVE  MvInv'
  <1>1. UNCHANGED <<view, version, tasks, idle, dispatched, internal, lost, frame, replayed, flagged, inflight>>
    BY Zenon DEF mv_dirty_sweep, writerVars
  <1>2. table' = [q \in Queries |-> IF view[q].mv.st = State("Pending", TRUE) /\ table[q] # NoTable
                                    THEN Truncated ELSE table[q]]
    BY Zenon DEF mv_dirty_sweep
  <1>3. FrameOK'
    <2>1. table \in [Queries -> {NoTable, Truncated} \cup 1 .. MaxVersion] BY Zenon DEF MvInv, FrameOK
    <2>2. table' \in [Queries -> {NoTable, Truncated} \cup 1 .. MaxVersion] BY Zenon, <1>2, <2>1
    <2> QED BY Zenon, <1>1, <2>2 DEF MvInv, FrameOK
  <1>4. ChannelsOK' BY Zenon, <1>1, ChannelsFrame DEF MvInv
  <1>5. TasksOK' BY Zenon, <1>1, TasksFrame DEF MvInv
  <1>6. ASSUME NEW q \in Queries PROVE QueryOK(q)'
    <2>1. QueryOK(q) BY Zenon DEF MvInv
    <2>2. table'[q] # NoTable <=> table[q] # NoTable
      <3>1. (table'[q] = Truncated /\ table[q] # NoTable) \/ table'[q] = table[q] BY ZenonT(30), <1>2
      <3>2. Truncated # NoTable BY DEF NoTable, Truncated
      <3> QED BY Zenon, <3>1, <3>2
    <2>3. OneBuild(q)' BY Zenon, <1>1, <2>1 DEF QueryOK, OneBuild, Tasked, IsComplete
    <2>4. EntryOK(q)' BY Zenon, <1>1, <2>1 DEF QueryOK, EntryOK
    <2>5. q \in lost => LostOK(q)' BY Zenon, <1>1, <2>1, <2>2 DEF QueryOK, LostOK, IsComplete
    <2>6. q \notin lost => KnownOK(q)'
      BY Zenon, <1>1, <2>1, <2>2 DEF QueryOK, KnownOK, Accounted, Building, IsComplete
    <2> QED BY Zenon, <1>1, <2>3, <2>4, <2>5, <2>6 DEF QueryOK
  <1> QED BY Zenon, <1>1, <1>3, <1>4, <1>5, <1>6 DEF MvInv

-----------------------------------------------------------------------------
(* A query with a task.                                                    *)

\* The entry, the flag and the knowledge of the table, for a query with a task.
LEMMA TaskFacts ==
    ASSUME MvInv, NEW t \in tasks
    PROVE  /\ t.q \in Queries /\ TaskOK(t) /\ QueryOK(t.q)
           /\ t.q \in inflight /\ \A u \in tasks : u.q = t.q => u = t
           /\ \A i \in DOMAIN internal : ~IsComplete(i, t.q)
           /\ ~t.has_table => ~view[t.q].mv.st.table
           /\ t.q \in lost => /\ table[t.q] # NoTable /\ ~view[t.q].mv.st.table
                              /\ ~t.has_table /\ t.step # "running"
           /\ t.q \notin lost => (t.has_table <=> table[t.q] # NoTable)
  <1>1. t.q \in Queries /\ TaskOK(t) BY Zenon DEF MvInv, TasksOK, TaskOK
  <1>2. QueryOK(t.q) BY Zenon, <1>1 DEF MvInv
  <1>3. Tasked(t.q) BY Zenon DEF Tasked
  <1>4. /\ t.q \in inflight /\ \A u \in tasks : u.q = t.q => u = t
        /\ \A i \in DOMAIN internal : ~IsComplete(i, t.q)
    BY Zenon, <1>2, <1>3 DEF QueryOK, OneBuild
  <1>5. ~t.has_table => ~view[t.q].mv.st.table BY Zenon, <1>2, <1>4 DEF QueryOK, EntryOK
  <1>6. t.q \in lost => /\ table[t.q] # NoTable /\ ~view[t.q].mv.st.table
                        /\ ~t.has_table /\ t.step # "running"
    BY Zenon, <1>2 DEF QueryOK, LostOK
  <1>7. t.q \notin lost => (t.has_table <=> table[t.q] # NoTable) BY Zenon, <1>2 DEF QueryOK, KnownOK
  <1> QED BY Zenon, <1>1, <1>2, <1>4, <1>5, <1>6, <1>7
=============================================================================
