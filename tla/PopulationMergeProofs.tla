------------------------ MODULE PopulationMergeProofs ------------------------
(***************************************************************************)
(* CachedRowsCurrent is an invariant of Spec for every value of the        *)
(* constants: SafeInv is inductive, last part, and the theorems.           *)
(***************************************************************************)
EXTENDS PopulationMergeReplay, PopulationMergeRegister, FiniteSetTheorems

-----------------------------------------------------------------------------
(* SafeInv: keepalives.                                                    *)

\* BatchFrames counts the commit boundaries of the batch: none in an idle
\* writer, at least one once a frame has closed.
LEMMA BatchFramesCount ==
    ASSUME TypeOK, PositionsOrdered, FrameOK, ~frame_open
    PROVE  BatchFrames > 0 <=> frame_state # "Idle"
  <1>1. IsFiniteSet(Commits(received, marked))
    <2>1. IsFiniteSet((received + 1)..marked)
      BY FS_Interval DEF TypeOK
    <2> QED BY Zenon, <2>1, FS_Subset DEF Commits
  <1>2. CASE frame_state = "Idle"
    <2>1. Commits(received, marked) = {}
      BY <1>2 DEF Commits, FrameOK, PositionsOrdered, TypeOK
    <2> QED BY <1>2, <2>1, FS_EmptySet DEF BatchFrames
  <1>3. CASE frame_state # "Idle"
    <2>1. marked \in Commits(received, marked)
      BY <1>3 DEF Commits, FrameOK, TypeOK
    <2>2. Cardinality(Commits(received, marked)) # 0
      BY Zenon, <2>1, <1>1, FS_EmptySet
    <2>3. Cardinality(Commits(received, marked)) \in Nat
      BY Zenon, <1>1, FS_CardinalityType
    <2> QED BY <1>3, <2>2, <2>3 DEF BatchFrames
  <1> QED BY Zenon, <1>2, <1>3

\* A keepalive moves the writer past records that concern no cached relation.
LEMMA KeepaliveSafe ==
    ASSUME SafeInv, NEW lsn \in (marked + 1)..Len(wal), keepalive_mark_handle(lsn)
    PROVE  SafeInv'
  <1> USE DEF SafeInv, queries
  <1>1. CASE BatchFrames > 0
    <2> USE <1>1 DEF keepalive_mark_handle
    <2>1. TypeOK'
      <3>1. marked \in Nat /\ Len(wal) \in Nat BY DEF TypeOK
      <3>2. lsn \in Nat BY <3>1
      <3> QED BY ZenonT(30), <3>2 DEF TypeOK, origin, entry, pops
    <2>2. FrameOK'
      <3>1. frame_state # "Idle" BY Zenon, BatchFramesCount
      <3> QED BY <3>1 DEF FrameOK, PositionsOrdered, TypeOK, Quiet, origin
    <2> QED BY <2>1, <2>2, HistoryFrame, PositionsFrame, UnstampedFrame, RecordingFrame,
               EntryFrame, GenerationsFrame, PopulationsFrame, TruncateFrame, CachedFrame,
               RowsFrame, StagedFrame
            DEF origin, entry, pops
  <1>2. CASE ~(BatchFrames > 0)
    <2>1. frame_state = "Idle" BY Zenon, <1>2, BatchFramesCount DEF keepalive_mark_handle
    <2>2. /\ delivered' = lsn /\ marked' = lsn /\ replayed' = lsn /\ stamped' = lsn
          /\ received' = lsn
          /\ UNCHANGED <<origin, keepalive, frame_state, phase, frame_open, img,
                         frame_deleted_keys, frame_toast_stale_keys, frame_truncated,
                         frame_invalidations, cache, entry, queries, popq, read_at,
                         snapshot, staged>>
          /\ task' \in {"idle", "drain"}
          /\ task = "idle"
      BY Zenon, <1>2 DEF keepalive_mark_handle, LoopEnd
    <2>3. /\ received \in Nat /\ lsn \in Nat /\ received < lsn /\ lsn <= Len(wal)
          /\ received = marked /\ received = replayed /\ received = stamped
      BY <2>1 DEF FrameOK, PositionsOrdered, TypeOK
    <2>4. Quiet(received, lsn) BY Zenon, <2>3 DEF Quiet, keepalive_mark_handle
    <2>5. OriginAt(received) = OriginAt(lsn) BY <2>3, <2>4, QuietSame
    <2>6. TypeOK' BY Zenon, <2>2, <2>3 DEF TypeOK, origin, entry
    <2>7. PositionsOrdered' BY <2>2, <2>3 DEF PositionsOrdered, origin
    <2>8. FrameOK' BY <2>1, <2>2, <2>3 DEF FrameOK, TypeOK, origin
    <2>9. FrameKeysUnstamped' BY <2>2, <2>3 DEF FrameKeysUnstamped
    <2>10. EntryOK' BY <2>2, <2>3 DEF EntryOK, is_recording, entry, TypeOK
    <2>11. PopulationsOK'
      <3>1. ASSUME NEW g \in Gens PROVE ResultAt(popq[g], read_at[g])' = ResultAt(popq[g], read_at[g])
        BY Zenon, <2>2 DEF ResultAt, OriginAt, origin
      <3> QED BY <2>2, <2>3, <3>1 DEF PopulationsOK, Held, origin, TypeOK
    <2>12. TruncateSeen'
      BY <2>2, <2>3 DEF TruncateSeen, FrameKeysUnstamped
    <2>13. CachedRowsCurrent' /\ FrameRowsCurrent'
      BY <2>1, <2>2, <2>3, <2>5
         DEF CachedRowsCurrent, FrameRowsCurrent, FrameOK, OriginAt, origin
    <2>14. StagedRowsGuarded'
      <3> SUFFICES ASSUME NEW g \in Gens, Held(g), population_is_current(g), read_at[g] <= lsn,
                          NEW k \in Keys, staged[g][k] # Absent
                   PROVE  staged[g][k] = OriginAt(lsn)[k] \/ Outdated(g, k)
        BY Zenon, <2>2 DEF StagedRowsGuarded, Held, population_is_current, Outdated, OriginAt,
                    origin, entry
      <3>0. read_at[g] \in Nat BY Zenon DEF TypeOK
      <3>1. CASE read_at[g] <= received
        BY Zenon, <2>1, <2>3, <2>5, <3>1 DEF StagedRowsGuarded
      <3>2. CASE received < read_at[g]
        <4> HIDE DEF SafeInv
        <4>1. received <= received BY <2>3
        <4>2. staged[g] = ResultAt(popq[g], lsn) BY <2>3, <2>4, <3>2, <4>1, CopiesAcross
        <4> QED BY Zenon, <4>2 DEF ResultAt
      <3> HIDE DEF SafeInv
      <3> QED BY <2>3, <3>0, <3>1, <3>2
    <2> QED BY <2>2, <2>6, <2>7, <2>8, <2>9, <2>10, <2>11, <2>12, <2>13, <2>14,
               HistoryFrame, RecordingFrame, GenerationsFrame
            DEF entry, origin
  <1> QED BY Zenon, <1>1, <1>2

-----------------------------------------------------------------------------
(* SafeInv: merging the rows of a population.                              *)

\* A merge with nothing left to insert marks its query Ready.
LEMMA MergeDoneSafe ==
    ASSUME SafeInv, NEW g \in Gens, merge_done(g)
    PROVE  SafeInv'
  <1> USE DEF SafeInv
  <1>1. /\ deactivate(g) /\ PopDone(g) /\ Held(g)
        /\ started' = [started EXCEPT ![popq[g]] = FALSE]
        /\ view' = [view EXCEPT ![popq[g]] = "Ready"]
        /\ UNCHANGED <<origin, intake, replay, table, generation_counter, qgen,
                       invalidated, readmits>>
        /\ task \in {"idle", "drain"} /\ task' \in {"idle", "drain"}
    BY Zenon DEF merge_done, ChunkDue, Held, LoopEnd
  <1>2. QueriesType' BY Zenon, <1>1 DEF QueriesType, TypeOK
  <1>3. \A q \in Queries : qgen'[q] <= generation_counter' BY Zenon, <1>1 DEF GenerationsOK
  <1>4. \A h \in Gens : population_is_current(h)' => population_is_current(h)
    BY Zenon, <1>1 DEF population_is_current, PopDone
  <1> QED BY Zenon, <1>1, <1>2, <1>3, <1>4, RetireSafe

\* A row a chunk lets into the table is the origin's row.
LEMMA ChunkRowsCurrent ==
    ASSUME SafeInv, NEW g \in Gens, ChunkDue(g), population_is_current(g),
           ~should_abort(g), ~merge_toast_stale_hit(g), NEW k \in Keys,
           staged[g][k] # Absent, cache[k] = Absent, keys[k] = 0
    PROVE  staged[g][k] = OriginAt(received)[k]
  <1> USE DEF SafeInv
  <1>1. Held(g) /\ frame_state = "Idle" /\ phase[g] = "merging" BY Zenon DEF ChunkDue, Held
  <1>2. replayed = received /\ stamped = received /\ img = cache /\ replayed \in Nat
    BY <1>1 DEF FrameOK, PositionsOrdered, TypeOK
  <1>3. read_at[g] <= replayed
    <2>1. read_at[g] \in Nat /\ snapshot[g] \in Nat BY Zenon DEF TypeOK
    <2>2. read_at[g] <= snapshot[g] /\ snapshot[g] <= received BY Zenon, <1>1 DEF PopulationsOK
    <2> QED BY <1>2, <2>1, <2>2
  <1>4. frame_deleted_keys = {} /\ frame_toast_stale_keys = {}
    BY <1>2 DEF FrameKeysUnstamped
  <1>5. ~overflowed BY Zenon DEF should_abort
  <1>6. ~(stale_keys[k] > floor[g]) BY Zenon DEF merge_toast_stale_hit, Remaining
  <1>7. g \in recording BY Zenon, <1>1 DEF RecordingExact
  <1>8. floor[g] \in Nat BY Zenon DEF TypeOK
  <1>9. staged[g][k] = OriginAt(replayed)[k] \/ Outdated(g, k)
    BY Zenon, <1>1, <1>3 DEF StagedRowsGuarded
  <1>10. ~Outdated(g, k) BY <1>2, <1>4, <1>5, <1>6, <1>8 DEF Outdated
  <1> QED BY Zenon, <1>2, <1>9, <1>10

\* A merge chunk inserts rows that are current and neither dead nor stale.
LEMMA ContinueSafe ==
    ASSUME SafeInv, NEW g \in Gens, MergeContinue(g)
    PROVE  SafeInv'
  <1> USE DEF SafeInv
  <1>1. PICK chunk \in SUBSET Remaining(g) : merge_chunk_run(g, chunk) BY Zenon DEF MergeContinue
  <1>2. /\ ChunkDue(g) /\ population_is_current(g)
        /\ ~should_abort(g) /\ ~merge_toast_stale_hit(g)
        /\ UNCHANGED <<origin, intake, replayed, stamped, frame_state, frame_deleted_keys,
                       frame_toast_stale_keys, frame_truncated, frame_invalidations,
                       received, entry, queries, popq, phase, read_at, snapshot>>
        /\ task = "idle" /\ task' \in {"idle", "drain"}
    BY Zenon DEF MergeContinue, ChunkDue, LoopEnd
  <1>3. /\ cache' = [k \in Keys |-> IF k \in chunk /\ cache[k] = Absent /\ keys[k] = 0
                                    THEN staged[g][k] ELSE cache[k]]
        /\ img' = cache'
        /\ staged' = [staged EXCEPT ![g] =
              [k \in Keys |-> IF k \in chunk THEN Absent ELSE staged[g][k]]]
    BY Zenon, <1>1 DEF merge_chunk_run, TypeOK
  <1>4. \A k \in Keys : /\ cache'[k] = IF k \in chunk /\ cache[k] = Absent /\ keys[k] = 0
                                       THEN staged[g][k] ELSE cache[k]
                        /\ k \in chunk => staged[g][k] # Absent
                        /\ staged'[g][k] = IF k \in chunk THEN Absent ELSE staged[g][k]
    BY Zenon, <1>3 DEF Remaining, TypeOK
  <1>5. TypeOK'
    <2>1. \A k \in Keys : cache[k] \in Row /\ staged[g][k] \in Row BY Zenon DEF TypeOK, Image
    <2>2. cache' \in Image BY Zenon, <1>3, <2>1 DEF Image
    <2>3. [k \in Keys |-> IF k \in chunk THEN Absent ELSE staged[g][k]] \in Image
      BY ZenonT(30), <2>1 DEF Image, Row
    <2>4. staged' \in [Gens -> Image] BY <1>3, <2>3 DEF TypeOK
    <2> QED BY ZenonT(30), <1>2, <1>3, <2>2, <2>4 DEF TypeOK, origin, intake, entry, queries
  <1>6. frame_state = "Idle" /\ replayed = received /\ img = cache /\ received \in Nat
    BY <1>2 DEF ChunkDue, FrameOK, PositionsOrdered, TypeOK
  <1>7. FrameOK' BY Zenon, <1>2, <1>3, FrameKept DEF origin
  <1>8. ASSUME NEW k \in Keys, cache'[k] # Absent PROVE cache'[k] = OriginAt(received)[k]
    BY ZenonT(30), <1>2, <1>4, <1>8, ChunkRowsCurrent DEF CachedRowsCurrent
  <1>9. CachedRowsCurrent' /\ FrameRowsCurrent'
    BY ZenonT(30), <1>2, <1>3, <1>6, <1>8 DEF CachedRowsCurrent, FrameRowsCurrent, OriginAt, origin
  <1>10. PopulationsOK'
    <2>1. read_at[g] <= received
      BY <1>2, <1>6 DEF ChunkDue, PopulationsOK, TypeOK, Held
    <2>2. ASSUME NEW h \in Gens, h # g PROVE staged'[h] = staged[h]
      BY Zenon, <1>3, <2>2 DEF TypeOK
    <2>3. ASSUME NEW h \in Gens
          PROVE  ResultAt(popq[h], read_at[h])' = ResultAt(popq[h], read_at[h])
      BY Zenon, <1>2 DEF ResultAt, OriginAt, origin
    <2>4. read_at[g] \in Nat BY Zenon DEF TypeOK
    <2> SUFFICES ASSUME NEW h \in Gens, Held(h)
                 PROVE  /\ read_at[h] <= Len(wal)
                        /\ read_at[h] # 0 => wal[read_at[h]].last
                        /\ phase[h] # "read" => read_at[h] <= snapshot[h]
                        /\ phase[h] = "merging" => snapshot[h] <= received
                        /\ received < read_at[h] => staged'[h] = ResultAt(popq[h], read_at[h])
      BY Zenon, <1>2, <2>3 DEF PopulationsOK, Held, origin
    <2>5. CASE h = g
      <3>1. ~(received < read_at[g]) BY <1>6, <2>1, <2>4
      <3> QED BY Zenon, <2>5, <3>1 DEF PopulationsOK
    <2>6. CASE h # g BY Zenon, <2>2, <2>6 DEF PopulationsOK
    <2> QED BY ZenonT(30), <2>5, <2>6
  <1>11. TruncateSeen'
    BY Zenon, <1>2 DEF TruncateSeen, Held, population_is_current, queries
  <1>12. StagedRowsGuarded'
    <2> SUFFICES ASSUME NEW h \in Gens, Held(h), population_is_current(h),
                        read_at[h] <= replayed, NEW k \in Keys, staged'[h][k] # Absent
                 PROVE  staged'[h][k] = OriginAt(replayed)[k] \/ Outdated(h, k)'
      BY Zenon, <1>2 DEF StagedRowsGuarded, Held, population_is_current, queries, OriginAt, origin
    <2>1. staged'[h][k] = staged[h][k]
      <3>1. CASE h = g BY Zenon, <1>4, <3>1
      <3>2. CASE h # g BY ZenonT(30), <1>3, <3>2 DEF TypeOK
      <3> QED BY Zenon, <3>1, <3>2
    <2>2. staged[h][k] = OriginAt(replayed)[k] \/ Outdated(h, k)
      BY Zenon, <1>6, <2>1 DEF StagedRowsGuarded
    <2>3. img[k] # Absent => img'[k] # Absent BY ZenonT(30), <1>3, <1>4, <1>6
    <2> QED BY Zenon, <1>2, <2>1, <2>2, <2>3 DEF Outdated, entry
  <1> QED BY <1>2, <1>5, <1>7, <1>9, <1>10, <1>11, <1>12, HistoryFrame, PositionsFrame,
             UnstampedFrame, RecordingFrame, EntryFrame, GenerationsFrame
          DEF origin, intake, entry, queries

-----------------------------------------------------------------------------

-----------------------------------------------------------------------------
\* A step that changes nothing.
LEMMA StutterSafe == SafeInv /\ UNCHANGED vars => SafeInv'
  <1> SUFFICES ASSUME SafeInv, UNCHANGED vars PROVE SafeInv' BY Zenon
  <1> USE DEF SafeInv, vars
  <1>1. TypeOK' BY Zenon DEF TypeOK, origin, intake, replay, table, entry, queries, pops
  <1>2. FrameOK' BY Zenon DEF FrameOK, Quiet, origin, intake, replay, table
  <1> QED BY <1>1, <1>2, HistoryFrame, PositionsFrame, UnstampedFrame, RecordingFrame,
             EntryFrame, GenerationsFrame, PopulationsFrame, TruncateFrame, CachedFrame,
             RowsFrame, StagedFrame
          DEF origin, intake, replay, table, entry, queries, pops

\* Every step of the writer, the workers and the origin preserves SafeInv.
LEMMA NextSafe == SafeInv /\ [Next]_vars => SafeInv'
  <1> SUFFICES ASSUME SafeInv, [Next]_vars PROVE SafeInv' BY Zenon
  <1>1. CASE \E o \in Op : OriginOp(o) BY Zenon, <1>1, OriginSafe
  <1>2. CASE Committed /\ (Cdc \/ Replay)
    BY <1>2, FrameBeginSafe, RowCommandSafe, CommitMarkSafe, KeepaliveSafe, BoundarySafe,
       InsertSafe, UpdateSafe, FallbackSafe, DeleteSafe, TruncateSafe, ReplayDoneSafe
       DEF Cdc, Replay
  <1>3. CASE Committed /\ (Flush \/ frame_recover_enter \/ Drain)
    BY ZenonT(30), <1>3, FlushSafe, CommitSafe, RecoverSafe, RecoverEnterSafe, DrainStopSafe, ReapSafe,
       DrainStartSafe DEF Flush, Drain
  <1>4. CASE Committed /\ \E q \in Queries : Register(q) \/ cache_query_evict(q)
    BY Zenon, <1>4, RegisterSafe, ReadmitSafe, EvictSafe DEF Register
  <1>5. CASE Committed /\ \E g \in Gens : \/ Worker(g) \/ MergeCommand(g)
                                          \/ population_failed(g) \/ MergeStep(g)
    BY ZenonT(30), <1>5, StreamSafe, SnapshotSafe, MergeCommandSafe, AbandonSafe, ReapSafe,
       ContinueSafe, MergeDoneSafe DEF Worker, MergeStep
  <1>6. CASE UNCHANGED vars BY Zenon, <1>6, StutterSafe
  <1> QED BY ZenonT(30), <1>1, <1>2, <1>3, <1>4, <1>5, <1>6 DEF Next

\* SafeInv holds in every state of the merge protocol (staging.rs, merge_queue,
\* cdc/apply.rs, cdc/frame.rs), for any keys, row images, queries and bounds.
THEOREM SafeInvariant == Spec => []SafeInv
  BY InitSafe, NextSafe, PTL DEF Spec

\* For any keys, row images, queries, pins and bounds: every row of the shared
\* cache table is the origin's row as of last_received_lsn, whatever the
\* interleaving of CDC frames, deadlock recoveries, populations and merge chunks.
THEOREM CacheNeverStale == Spec => []CachedRowsCurrent
  BY SafeInvariant, PTL DEF SafeInv
=============================================================================
