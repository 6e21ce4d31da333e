------------------------ MODULE PopulationMergeIntake ------------------------
(***************************************************************************)
(* SafeInv is inductive, first part: facts about the log and the frames, the*)
(* steps of the origin and of the CDC intake, and those of a population that*)
(* has its copies in hand.                                                 *)
(***************************************************************************)
EXTENDS PopulationMergeInv, TLAPS

-----------------------------------------------------------------------------
(* Operators.                                                              *)

\* What each kind of log record carries.
LEMMA OpFields ==
    ASSUME NEW o \in Op
    PROVE  /\ o.last \in BOOLEAN
           /\ o.op \in {"Insert", "Update", "Delete", "Truncate", "Other"}
           /\ o.op = "Insert" => o.key \in Keys /\ o.val \in Vals
           /\ o.op = "Update" => /\ o.key \in Keys /\ o.old \in Keys /\ o.val \in Vals
                                 /\ o.toast \in BOOLEAN
           /\ o.op = "Delete" => o.key \in Keys
  BY Zenon DEF Op

\* The origin's operations map images to images.
LEMMA EffectType ==
    ASSUME NEW im \in Image, NEW o \in Op
    PROVE  Effect(im, o) \in Image
  BY Zenon, OpFields DEF Effect, Image, Row, NoRows

\* Every position of the log up to its end has an image.
LEMMA OriginAtType ==
    ASSUME TypeOK, History, NEW n \in 0..Len(wal)
    PROVE  OriginAt(n) \in Image
  BY DEF TypeOK, History, OriginAt

-----------------------------------------------------------------------------
(* The parts of SafeInv that a step leaves alone.                          *)

\* What each conjunct of SafeInv reads: a step that leaves it alone keeps the
\* conjunct.  The log ...
LEMMA HistoryFrame == History /\ UNCHANGED origin => History'
  <1> SUFFICES ASSUME History, wal' = wal, image' = image PROVE History' BY Zenon DEF origin
  <1>1. \A i, j : Quiet(i, j)' <=> Quiet(i, j) BY Zenon DEF Quiet
  <1>2. \A i : OriginAt(i)' = OriginAt(i) BY Zenon DEF OriginAt
  <1> QED BY Zenon, <1>1, <1>2 DEF History

\* ... the writer's positions ...
LEMMA PositionsFrame ==
    PositionsOrdered /\ UNCHANGED <<wal, received, stamped, replayed, delivered, marked>>
        => PositionsOrdered'
  BY Zenon DEF PositionsOrdered

\* ... the frame's unstamped keys ...
LEMMA UnstampedFrame ==
    FrameKeysUnstamped
    /\ UNCHANGED <<frame_deleted_keys, frame_toast_stale_keys, frame_truncated,
                   stamped, replayed, frame_state>>
        => FrameKeysUnstamped'
  BY DEF FrameKeysUnstamped

\* ... the set of recording populations ...
LEMMA RecordingFrame == RecordingExact /\ UNCHANGED <<recording, phase>> => RecordingExact'
  BY Zenon DEF RecordingExact

\* ... the deleted-key entry ...
LEMMA EntryFrame ==
    EntryOK /\ UNCHANGED <<entry, stamped, received>> => EntryOK'
  BY DEF EntryOK, entry, is_recording

\* ... the generation counter ...
LEMMA GenerationsFrame ==
    GenerationsOK /\ UNCHANGED <<phase, generation_counter, qgen>> => GenerationsOK'
  BY Zenon DEF GenerationsOK

\* ... the populations' reads ...
LEMMA PopulationsFrame ==
    PopulationsOK /\ UNCHANGED <<origin, pops, received>> => PopulationsOK'
  BY DEF PopulationsOK, origin, pops, Held, ResultAt, OriginAt

\* ... a truncation of the open frame ...
LEMMA TruncateFrame ==
    TruncateSeen /\ UNCHANGED <<pops, qgen, invalidated, frame_truncated, replayed>>
        => TruncateSeen'
  BY Zenon DEF TruncateSeen, pops, Held, population_is_current

\* ... the table's rows ...
LEMMA CachedFrame ==
    CachedRowsCurrent /\ UNCHANGED <<image, cache, received>> => CachedRowsCurrent'
  BY Zenon DEF CachedRowsCurrent, OriginAt

\* ... the rows the frame sees ...
LEMMA RowsFrame ==
    FrameRowsCurrent /\ UNCHANGED <<image, img, replayed, frame_state>> => FrameRowsCurrent'
  BY Zenon DEF FrameRowsCurrent, OriginAt

\* ... and the staged copies.
LEMMA StagedFrame ==
    StagedRowsGuarded
    /\ UNCHANGED <<image, img, replayed, frame_state, frame_deleted_keys,
                   frame_toast_stale_keys, entry, pops, qgen, invalidated>>
        => StagedRowsGuarded'
  BY DEF StagedRowsGuarded, OriginAt, entry, pops, Held, population_is_current, Outdated

-----------------------------------------------------------------------------
(* Copies, populations and the frame.                                      *)

\* LSNs that hold no published change do not move the relation.
LEMMA QuietSame ==
    ASSUME TypeOK, History, NEW i \in Nat, NEW j \in Nat, i <= j, j <= Len(wal),
           Quiet(i, j), NEW n \in i..j
    PROVE  OriginAt(i) = OriginAt(n) /\ OriginAt(n) = OriginAt(j)
  <1>1. Quiet(i, n) /\ Quiet(n, j) BY DEF Quiet
  <1>2. i \in 0..Len(wal) /\ n \in 0..Len(wal) /\ j \in 0..Len(wal) /\ i <= n /\ n <= j
    BY DEF TypeOK
  <1> QED BY Zenon, <1>1, <1>2 DEF History

\* Copies read at or before the new position are right when they were guarded at
\* the old one, or were read in between.
LEMMA CopiesAcross ==
    ASSUME SafeInv, NEW i \in Nat, NEW j \in Nat, i <= j, j <= Len(wal), Quiet(i, j),
           received <= i, NEW g \in Gens, Held(g), i < read_at[g], read_at[g] <= j
    PROVE  staged[g] = ResultAt(popq[g], j)
  <1> USE DEF SafeInv
  <1>1. read_at[g] \in i..j BY DEF TypeOK
  <1>2. OriginAt(read_at[g]) = OriginAt(j) BY Zenon, <1>1, QuietSame
  <1>3. staged[g] = ResultAt(popq[g], read_at[g]) BY <1>1 DEF PopulationsOK, TypeOK
  <1> QED BY Zenon, <1>2, <1>3 DEF ResultAt

\* Copies of rows the stream has not reached are exact.
LEMMA StagedReached ==
    ASSUME SafeInv, NEW g \in Gens, Held(g), received < read_at[g],
           NEW k \in Keys, staged[g][k] # Absent
    PROVE  staged[g][k] = OriginAt(read_at[g])[k]
  <1>1. staged[g] = ResultAt(popq[g], read_at[g]) BY Zenon DEF SafeInv, PopulationsOK
  <1> QED BY Zenon, <1>1 DEF ResultAt

\* Evicting every query leaves no population current.
LEMMA InvalidatedNoneCurrent ==
    ASSUME TypeOK, cache_table_invalidate, UNCHANGED popq
    PROVE  /\ \A g \in Gens : ~population_is_current(g)'
           /\ qgen' \in [Queries -> 0..MaxGen]
           /\ \A q \in Queries : qgen'[q] = 0
           /\ invalidated' \in [Queries -> BOOLEAN] /\ started' \in [Queries -> BOOLEAN]
           /\ view' \in [Queries -> {"None", "Loading", "Ready", "Invalidated"}]
           /\ UNCHANGED <<generation_counter, readmits>>
  BY BoundAssumption DEF cache_table_invalidate, population_is_current, TypeOK, Gens

QueriesType ==
    /\ generation_counter \in 0..MaxGen
    /\ qgen \in [Queries -> 0..MaxGen]
    /\ invalidated \in [Queries -> BOOLEAN] /\ started \in [Queries -> BOOLEAN]
    /\ view \in [Queries -> {"None", "Loading", "Ready", "Invalidated"}]
    /\ readmits \subseteq Queries

\* A task that is not closing a batch has no keepalive behind it.
LEMMA FrameKept ==
    ASSUME FrameOK, task \in {"idle", "drain"}, task' \in {"idle", "drain"},
           UNCHANGED <<wal, intake, frame_state, replayed, received, frame_invalidations>>,
           img' = cache' \/ UNCHANGED <<img, cache>>
    PROVE  FrameOK'
  BY Zenon DEF FrameOK, intake, Quiet

-----------------------------------------------------------------------------
(* SafeInv: the origin and the CDC intake.                                 *)

\* An empty cache over an empty log satisfies SafeInv.
LEMMA InitSafe == Init => SafeInv
  <1> SUFFICES ASSUME Init PROVE SafeInv BY Zenon
  <1>1. TypeOK
    <2>1. (CHOOSE q \in Queries : TRUE) \in Queries BY Zenon, DomainAssumption
    <2>2. PICK im \in Image : image = <<im>> BY Zenon DEF Init
    <2>4. wal \in Seq(Op) BY DEF Init
    <2>5. image \in Seq(Image) BY <2>2
    <2>3. NoRows \in Image BY Zenon DEF NoRows, Image, Row
    <2>6. popq \in [Gens -> Queries] BY Zenon, <2>1 DEF Init
    <2>7. 0 \in 0..MaxGen BY BoundAssumption
    <2> QED BY Zenon, <2>3, <2>4, <2>5, <2>6, <2>7 DEF Init, TypeOK
  <1>2. History BY DEF Init, History, OriginAt
  <1>3. PositionsOrdered /\ FrameOK /\ FrameKeysUnstamped
    BY DEF Init, PositionsOrdered, FrameOK, FrameKeysUnstamped
  <1>4. RecordingExact /\ EntryOK /\ GenerationsOK /\ PopulationsOK /\ TruncateSeen
    BY DEF Init, RecordingExact, EntryOK, GenerationsOK, PopulationsOK, TruncateSeen,
           Gens, Held
  <1>5. CachedRowsCurrent /\ FrameRowsCurrent /\ StagedRowsGuarded
    BY Zenon DEF Init, CachedRowsCurrent, FrameRowsCurrent, StagedRowsGuarded, Held, NoRows
  <1> QED BY Zenon, <1>1, <1>2, <1>3, <1>4, <1>5 DEF SafeInv

\* The log grows by one record at its end.
Extended(o) ==
    /\ Len(wal') = Len(wal) + 1 /\ Len(image') = Len(wal) + 2
    /\ \A n \in 1..Len(wal) : wal'[n] = wal[n]
    /\ \A n \in 1..(Len(wal) + 1) : image'[n] = image[n]
    /\ wal'[Len(wal) + 1] = o /\ image'[Len(wal) + 2] = Effect(Current, o)

\* An operation appended to the log leaves the earlier images as they were ...
LEMMA OriginExtends ==
    ASSUME SafeInv, NEW o \in Op, OriginOp(o)
    PROVE  TypeOK' /\ Extended(o)
  <1>1. Current \in Image BY OriginAtType DEF Current, TypeOK, SafeInv
  <1>2. Effect(Current, o) \in Image BY Zenon, <1>1, EffectType
  <1>3. wal' = Append(wal, o) /\ image' = Append(image, Effect(Current, o)) BY Zenon DEF OriginOp
  <1>4. wal \in Seq(Op) /\ image \in Seq(Image) BY Zenon DEF SafeInv, TypeOK
  <1>5. wal' \in Seq(Op) /\ image' \in Seq(Image) BY <1>2, <1>3, <1>4
  <1>6. Extended(o) BY <1>3, <1>4 DEF Extended, SafeInv, History
  <1>7. TypeOK'
    BY ZenonT(30), <1>5 DEF OriginOp, SafeInv, TypeOK, intake, replay, table, entry, queries, pops
  <1> QED BY Zenon, <1>6, <1>7

\* ... and the log leads to its image.
LEMMA HistoryExtends ==
    ASSUME TypeOK, History, NEW o \in Op, Possible(Current, o), Extended(o)
    PROVE  History'
  <1>1. Len(wal) \in Nat BY DEF TypeOK
  <1>2. \A n \in 1..Len(wal') :
          /\ image'[n + 1] = Effect(image'[n], wal'[n])
          /\ wal'[n].op = "Insert" => image'[n][wal'[n].key] = Absent
    <2> SUFFICES ASSUME NEW n \in 1..Len(wal')
                 PROVE  /\ image'[n + 1] = Effect(image'[n], wal'[n])
                        /\ wal'[n].op = "Insert" => image'[n][wal'[n].key] = Absent
      BY Zenon
    <2>1. CASE n \in 1..Len(wal)
      BY <1>1, <2>1 DEF Extended, History
    <2>2. CASE n = Len(wal) + 1
      BY <1>1, <2>2 DEF Extended, History, Possible, Current, OriginAt
    <2> QED BY <1>1, <2>1, <2>2 DEF Extended
  <1>3. ASSUME NEW i \in 0..Len(wal'), NEW j \in 0..Len(wal'), i <= j, Quiet(i, j)'
        PROVE  OriginAt(i)' = OriginAt(j)'
    <2>1. ASSUME NEW n \in 0..Len(wal) PROVE OriginAt(n)' = OriginAt(n)
      BY <1>1 DEF Extended, OriginAt
    <2>2. CASE j <= Len(wal)
      <3>1. i \in 0..Len(wal) /\ j \in 0..Len(wal) BY <1>1, <1>3, <2>2 DEF Extended
      <3>2. Quiet(i, j) BY <1>1, <1>3, <3>1 DEF Quiet, Extended
      <3> QED BY Zenon, <1>3, <2>1, <3>1, <3>2 DEF History
    <2>3. CASE j = Len(wal) + 1 /\ i < j
      <3>1. i \in 0..Len(wal) /\ Len(wal) \in 0..Len(wal) /\ i <= Len(wal)
        BY <1>1, <1>3, <2>3 DEF Extended
      <3>2. o.op = "Other" /\ Quiet(i, Len(wal))
        BY <1>1, <1>3, <2>3, <3>1 DEF Quiet, Extended
      <3>3. OriginAt(i) = Current BY Zenon, <3>1, <3>2 DEF History, Current
      <3>4. Effect(Current, o) = Current BY Zenon, <3>2 DEF Effect
      <3>5. OriginAt(j)' = Current BY <1>1, <2>3, <3>4 DEF Extended, OriginAt
      <3> QED BY Zenon, <2>1, <3>1, <3>3, <3>5
    <2>4. CASE i = j BY Zenon, <2>4
    <2> QED BY <1>1, <1>3, <2>2, <2>3, <2>4 DEF Extended
  <1> QED BY <1>1, <1>2, <1>3 DEF History, Extended

\* A write at the origin: the writer has seen none of it.
LEMMA OriginSafe ==
    ASSUME SafeInv, NEW o \in Op, OriginOp(o)
    PROVE  SafeInv'
  <1> USE DEF SafeInv
  <1>1. TypeOK' /\ Extended(o) BY Zenon, OriginExtends
  <1>2. /\ Possible(Current, o)
        /\ UNCHANGED <<intake, replay, table, entry, queries, pops, task>>
    BY Zenon DEF OriginOp
  <1>3. History' BY Zenon, <1>1, <1>2, HistoryExtends
  <1>4. Len(wal) \in Nat BY DEF TypeOK
  <1>5. PositionsOrdered'
    BY <1>1, <1>2, <1>4 DEF Extended, PositionsOrdered, TypeOK, intake, replay, table
  <1>6. FrameOK'
    <2>1. ASSUME NEW n \in Nat \ {0}, n <= Len(wal) PROVE wal'[n] = wal[n]
      BY <1>1, <1>4, <2>1 DEF Extended
    <2>2. marked \in Nat /\ delivered \in Nat /\ marked <= delivered /\ received \in Nat
          /\ delivered <= Len(wal) /\ keepalive \in Nat
      BY Zenon DEF TypeOK, PositionsOrdered
    <2>3. Quiet(marked, keepalive) /\ keepalive <= Len(wal) => Quiet(marked, keepalive)'
      BY <1>2, <1>4, <2>1, <2>2 DEF Quiet, intake
    <2>4. \A i \in (marked + 1)..(delivered - 1) : ~wal'[i].last
      BY <1>4, <2>1, <2>2 DEF FrameOK
    <2>5. received < marked => wal'[marked] = wal[marked]
      BY <1>4, <2>1, <2>2
    <2>6. keepalive <= Len(wal) => keepalive <= Len(wal') BY <1>1, <1>4, <2>2 DEF Extended
    <2>7. UNCHANGED <<frame_open, delivered, marked, received, replayed, frame_state, img, cache,
                      frame_invalidations, task, keepalive>>
      BY Zenon, <1>2 DEF intake, replay, table
    <2> QED BY Zenon, <2>3, <2>4, <2>5, <2>6, <2>7 DEF FrameOK
  <1>7. ASSUME NEW n \in 0..Len(wal) PROVE OriginAt(n)' = OriginAt(n)
    BY <1>1, <1>4 DEF Extended, OriginAt
  <1>8. PopulationsOK'
    <2> SUFFICES ASSUME NEW g \in Gens, Held(g)
                 PROVE /\ read_at[g] <= Len(wal')
                       /\ read_at[g] # 0 => wal'[read_at[g]].last
                       /\ ResultAt(popq[g], read_at[g])' = ResultAt(popq[g], read_at[g])
      BY Zenon, <1>2 DEF PopulationsOK, Held, pops, table
    <2>1. read_at[g] \in 0..Len(wal) /\ (read_at[g] # 0 => wal[read_at[g]].last)
      BY DEF PopulationsOK, TypeOK
    <2>2. ResultAt(popq[g], read_at[g])' = ResultAt(popq[g], read_at[g])
      BY Zenon, <1>2, <1>7, <2>1 DEF ResultAt, pops
    <2> QED BY <1>1, <1>4, <2>1, <2>2 DEF Extended
  <1>9. received \in 0..Len(wal) /\ replayed \in 0..Len(wal)
    BY <1>4 DEF PositionsOrdered, TypeOK
  <1>10. CachedRowsCurrent' /\ FrameRowsCurrent'
    BY Zenon, <1>2, <1>7, <1>9 DEF CachedRowsCurrent, FrameRowsCurrent, OriginAt, replay, table
  <1>11. StagedRowsGuarded'
    BY Zenon, <1>2, <1>7, <1>9
       DEF StagedRowsGuarded, Held, population_is_current, Outdated, OriginAt, replay,
           entry, queries, pops
  <1> QED BY Zenon, <1>1, <1>2, <1>3, <1>5, <1>6, <1>8, <1>10, <1>11, UnstampedFrame,
             RecordingFrame, EntryFrame, GenerationsFrame, TruncateFrame
          DEF replay, table, entry, queries, pops

\* A Begin message opens the frame.
LEMMA FrameBeginSafe == SafeInv /\ frame_begin_handle => SafeInv'
  <1> SUFFICES ASSUME SafeInv, frame_begin_handle PROVE SafeInv' BY Zenon
  <1> USE DEF SafeInv, frame_begin_handle, table, queries
  <1>1. TypeOK' BY Zenon DEF TypeOK, origin, entry, pops
  <1>2. FrameOK' BY Zenon DEF FrameOK, PositionsOrdered, TypeOK, Quiet, origin
  <1>3. FrameRowsCurrent' /\ FrameKeysUnstamped'
    BY Zenon DEF FrameRowsCurrent, FrameKeysUnstamped, OriginAt, origin
  <1>4. StagedRowsGuarded'
    BY Zenon DEF StagedRowsGuarded, OriginAt, origin, entry, pops, Held, population_is_current,
           Outdated
  <1> QED BY Zenon, <1>1, <1>2, <1>3, <1>4, HistoryFrame, PositionsFrame,
             RecordingFrame, EntryFrame, GenerationsFrame, PopulationsFrame,
             TruncateFrame, CachedFrame DEF origin, entry, pops

\* A row message joins the open frame.
LEMMA RowCommandSafe == SafeInv /\ RowCommand => SafeInv'
  <1> SUFFICES ASSUME SafeInv, RowCommand PROVE SafeInv' BY Zenon
  <1> USE DEF SafeInv, RowCommand, table, queries
  <1>0. Len(wal) \in Nat /\ delivered < Len(wal)
    BY DEF TypeOK
  <1>1. TypeOK' BY DEF TypeOK, origin, entry, pops
  <1>2. PositionsOrdered' BY <1>0 DEF PositionsOrdered, TypeOK, origin
  <1>3. FrameOK'
    BY <1>0 DEF FrameOK, PositionsOrdered, TypeOK, Quiet, origin
  <1>4. FrameKeysUnstamped' BY Zenon DEF FrameKeysUnstamped, PositionsOrdered, TypeOK
  <1>5. TruncateSeen'
    BY Zenon DEF TruncateSeen, Held, population_is_current, pops, FrameKeysUnstamped
  <1>6. FrameRowsCurrent' BY Zenon DEF FrameRowsCurrent, OriginAt, origin
  <1>7. StagedRowsGuarded'
    BY Zenon DEF StagedRowsGuarded, OriginAt, origin, entry, pops, Held, population_is_current,
           Outdated
  <1> QED BY Zenon, <1>1, <1>2, <1>3, <1>4, <1>5, <1>6, <1>7, HistoryFrame, RecordingFrame,
             EntryFrame, GenerationsFrame, PopulationsFrame, CachedFrame
          DEF origin, entry, pops

\* A Commit message closes a transaction of the batch.
LEMMA CommitMarkSafe == SafeInv /\ commit_mark_handle => SafeInv'
  <1> SUFFICES ASSUME SafeInv, commit_mark_handle PROVE SafeInv' BY Zenon
  <1> USE DEF SafeInv, commit_mark_handle, table, queries, replay
  <1>1. TypeOK' BY ZenonT(30) DEF TypeOK, origin, entry, pops
  <1>2. PositionsOrdered' BY DEF PositionsOrdered, TypeOK, origin
  <1>3. FrameOK' BY DEF FrameOK, PositionsOrdered, TypeOK, Quiet, origin
  <1> QED BY Zenon, <1>1, <1>2, <1>3, HistoryFrame, UnstampedFrame, RecordingFrame, EntryFrame,
             GenerationsFrame, PopulationsFrame, TruncateFrame, CachedFrame, RowsFrame,
             StagedFrame
          DEF origin, entry, pops

-----------------------------------------------------------------------------
(* SafeInv: a population on its way to the merge.                          *)

\* A population that moves on to a later phase with its copies in hand.
LEMMA PhaseSafe ==
    ASSUME SafeInv, NEW g \in Gens, Held(g), NEW ph \in {"staged", "pending", "merging"},
           phase' = [phase EXCEPT ![g] = ph], snapshot' \in [Gens -> Nat],
           \A h \in Gens \ {g} : snapshot'[h] = snapshot[h],
           read_at[g] <= snapshot'[g], ph = "merging" => snapshot'[g] <= received,
           UNCHANGED <<origin, intake, replay, table, entry, queries, popq, read_at, staged>>,
           FrameOK', task' \in {"idle", "replay", "flush", "commit", "drain"}
    PROVE  SafeInv'
  <1> USE DEF SafeInv
  <1>1. TypeOK' BY Zenon DEF TypeOK, origin, intake, replay, table, entry, queries
  <1>2. ASSUME NEW h \in Gens
        PROVE  /\ (Held(h)' <=> Held(h)) /\ phase'[h] = IF h = g THEN ph ELSE phase[h]
               /\ (population_is_current(h)' <=> population_is_current(h))
               /\ ResultAt(popq[h], read_at[h])' = ResultAt(popq[h], read_at[h])
    <2>1. phase'[h] = IF h = g THEN ph ELSE phase[h] BY Zenon DEF TypeOK
    <2>2. Held(h)' <=> Held(h) BY Zenon, <2>1 DEF Held
    <2> QED BY Zenon, <2>1, <2>2 DEF population_is_current, queries, ResultAt, OriginAt, origin
  <1>3. RecordingExact' /\ GenerationsOK'
    BY Zenon, <1>2 DEF RecordingExact, GenerationsOK, entry, queries, Held
  <1>4. PopulationsOK' BY <1>2 DEF PopulationsOK, origin, table
  <1>5. TruncateSeen' /\ StagedRowsGuarded'
    BY Zenon, <1>2 DEF TruncateSeen, StagedRowsGuarded, Outdated, OriginAt, origin, replay, entry
  <1> QED BY Zenon, <1>1, <1>3, <1>4, <1>5, HistoryFrame, PositionsFrame, UnstampedFrame,
             EntryFrame, CachedFrame, RowsFrame
          DEF origin, intake, replay, table, entry

\* The worker takes the snapshot LSN after its read.
LEMMA SnapshotSafe ==
    ASSUME SafeInv, NEW g \in Gens, origin_snapshot_lsn(g)
    PROVE  SafeInv'
  <1> USE DEF SafeInv
  <1>1. /\ Held(g) /\ phase' = [phase EXCEPT ![g] = "staged"]
        /\ snapshot' = [snapshot EXCEPT ![g] = Len(wal)]
        /\ UNCHANGED <<origin, intake, replay, table, entry, queries, popq, read_at, staged,
                       task>>
    BY Zenon DEF origin_snapshot_lsn, Held
  <1>2. /\ snapshot' \in [Gens -> Nat] /\ snapshot'[g] = Len(wal)
        /\ \A h \in Gens \ {g} : snapshot'[h] = snapshot[h]
    BY <1>1 DEF TypeOK
  <1>3. read_at[g] <= snapshot'[g] BY Zenon, <1>1, <1>2 DEF PopulationsOK
  <1>4. FrameOK' BY Zenon, <1>1 DEF FrameOK, Quiet, origin, intake, replay, table
  <1>5. task' \in {"idle", "replay", "flush", "commit", "drain"} BY Zenon, <1>1 DEF TypeOK
  <1> QED BY ZenonT(30), <1>1, <1>2, <1>3, <1>4, <1>5, PhaseSafe

\* The population's Merge command reaches the writer.
LEMMA MergeCommandSafe ==
    ASSUME SafeInv, NEW g \in Gens, MergeCommand(g)
    PROVE  SafeInv'
  <1> USE DEF SafeInv
  <1>1. /\ Held(g) /\ phase[g] = "staged" /\ phase' = [phase EXCEPT ![g] = "pending"]
        /\ UNCHANGED <<origin, intake, replay, table, entry, queries, popq, read_at, snapshot,
                       staged>>
        /\ task = "idle" /\ task' \in {"idle", "drain"}
    BY Zenon DEF MergeCommand, Held, LoopEnd
  <1>2. snapshot' \in [Gens -> Nat] /\ (\A h \in Gens \ {g} : snapshot'[h] = snapshot[h])
        /\ read_at[g] <= snapshot'[g]
    BY Zenon, <1>1 DEF TypeOK, PopulationsOK
  <1>3. FrameOK' BY Zenon, <1>1, FrameKept DEF origin, replay, table
  <1> QED BY ZenonT(30), <1>1, <1>2, <1>3, PhaseSafe

\* A merge whose snapshot the stream has passed starts.
LEMMA DrainStartSafe ==
    ASSUME SafeInv, NEW g \in Gens, DrainStart(g)
    PROVE  SafeInv'
  <1> USE DEF SafeInv
  <1>1. /\ Held(g) /\ phase[g] = "pending" /\ phase' = [phase EXCEPT ![g] = "merging"]
        /\ snapshot[g] <= received
        /\ UNCHANGED <<origin, intake, replay, table, entry, queries, popq, read_at, snapshot,
                       staged, task>>
        /\ task = "drain"
    BY Zenon DEF DrainStart, Draining, HeapTop, Held
  <1>2. snapshot' \in [Gens -> Nat] /\ (\A h \in Gens \ {g} : snapshot'[h] = snapshot[h])
        /\ read_at[g] <= snapshot'[g]
    BY Zenon, <1>1 DEF TypeOK, PopulationsOK
  <1>3. FrameOK' BY Zenon, <1>1, FrameKept DEF origin, replay, table
  <1> QED BY ZenonT(30), <1>1, <1>2, <1>3, PhaseSafe

\* The drain task has no merge it may start.
LEMMA DrainStopSafe == SafeInv /\ DrainStop => SafeInv'
  <1> SUFFICES ASSUME SafeInv, DrainStop PROVE SafeInv' BY Zenon
  <1> USE DEF SafeInv
  <1>1. /\ task = "drain" /\ task' = "idle"
        /\ UNCHANGED <<origin, intake, replay, table, entry, queries, pops>>
    BY Zenon DEF DrainStop, Draining
  <1>2. TypeOK' BY Zenon, <1>1 DEF TypeOK, origin, intake, replay, table, entry, queries, pops
  <1>3. FrameOK' BY Zenon, <1>1, FrameKept DEF origin, replay, table
  <1> QED BY Zenon, <1>1, <1>2, <1>3, HistoryFrame, PositionsFrame, UnstampedFrame,
             RecordingFrame, EntryFrame, PopulationsFrame, CachedFrame, RowsFrame,
             GenerationsFrame, TruncateFrame, StagedFrame
          DEF origin, intake, replay, table, entry, queries, pops
=============================================================================
