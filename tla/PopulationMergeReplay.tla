------------------------ MODULE PopulationMergeReplay ------------------------
(***************************************************************************)
(* SafeInv is inductive, second part: the replay of the logged events,     *)
(* transaction boundaries and the close of a batch, by commit or by        *)
(* recovery.                                                               *)
(***************************************************************************)
EXTENDS PopulationMergeIntake

-----------------------------------------------------------------------------
(* SafeInv: replaying the logged events.                                   *)

\* A row that is due is the next record of the log, and runs inside the batch.
LEMMA RowDueFacts ==
    ASSUME SafeInv, NEW op, RowDue(op)
    PROVE  /\ replayed \in Nat /\ replayed' = replayed + 1 /\ replayed < delivered
           /\ replayed + 1 \in 1..Len(wal) /\ replayed \in 0..Len(wal)
           /\ NextOp \in Op /\ NextOp.op = op
           /\ OriginAt(replayed) \in Image
           /\ OriginAt(replayed + 1) = Effect(OriginAt(replayed), NextOp)
           /\ op = "Insert" => OriginAt(replayed)[NextOp.key] = Absent
           /\ frame_state \in {"Active", "TxnOpen"} /\ task \in {"replay", "flush"}
           /\ received \in Nat /\ stamped \in Nat /\ received <= stamped /\ stamped <= replayed
  <1> USE DEF SafeInv
  <1>1. /\ replayed \in Nat /\ replayed' = replayed + 1 /\ replayed < delivered
        /\ replayed + 1 \in 1..Len(wal) /\ replayed \in 0..Len(wal)
        /\ frame_state \in {"Active", "TxnOpen"} /\ task \in {"replay", "flush"}
        /\ received \in Nat /\ stamped \in Nat /\ received <= stamped /\ stamped <= replayed
    BY DEF RowDue, Replaying, PositionsOrdered, TypeOK
  <1>2. NextOp \in Op /\ NextOp.op = op BY <1>1 DEF NextOp, RowDue, TypeOK
  <1>3. OriginAt(replayed) \in Image BY Zenon, <1>1, OriginAtType
  <1>4. /\ OriginAt(replayed + 1) = Effect(OriginAt(replayed), NextOp)
        /\ NextOp.op = "Insert" => OriginAt(replayed)[NextOp.key] = Absent
    BY Zenon, <1>1 DEF History, OriginAt, NextOp
  <1> QED BY Zenon, <1>1, <1>2, <1>3, <1>4

\* What every replayed row leaves in place.
LEMMA RowStepSafe ==
    ASSUME SafeInv, NEW op, RowDue(op), UNCHANGED replay_frame,
           frame_state' \in {"Active", "TxnOpen"}
    PROVE  /\ History' /\ PositionsOrdered' /\ FrameOK' /\ FrameKeysUnstamped'
           /\ PopulationsOK' /\ CachedRowsCurrent'
  <1> USE DEF SafeInv, replay_frame
  <1>1. PositionsOrdered'
    BY RowDueFacts DEF PositionsOrdered, TypeOK, origin, intake, table
  <1>2. FrameOK'
    BY Zenon, RowDueFacts DEF FrameOK, Quiet, origin, intake, table
  <1>3. FrameKeysUnstamped' BY RowDueFacts DEF FrameKeysUnstamped
  <1> QED BY Zenon, <1>1, <1>2, <1>3, HistoryFrame, PopulationsFrame, CachedFrame
          DEF origin, table

\* A population that must have seen the frame's TRUNCATE read past the next row.
LEMMA TruncateRow ==
    ASSUME SafeInv, NEW op, RowDue(op), frame_truncated,
           NEW g \in Gens, Held(g), population_is_current(g)
    PROVE  replayed + 1 <= read_at[g]
  <1> USE DEF SafeInv
  <1>1. replayed <= read_at[g] /\ read_at[g] \in Nat /\ replayed \in Nat
    BY Zenon DEF TruncateSeen, TypeOK
  <1>2. CASE read_at[g] = replayed
    <2>1. stamped < replayed BY Zenon DEF FrameKeysUnstamped
    <2>2. wal[replayed].last BY <1>2, <2>1 DEF PopulationsOK, TypeOK
    <2>3. replayed > marked BY <2>1, <2>2 DEF RowDue, BoundaryDue, TypeOK
    <2>4. marked \in Nat /\ delivered \in Nat BY Zenon DEF TypeOK
    <2>5. replayed < delivered BY Zenon, RowDueFacts
    <2>6. replayed \in (marked + 1)..(delivered - 1) BY <1>1, <2>3, <2>4, <2>5
    <2> QED BY Zenon, <2>2, <2>6 DEF FrameOK
  <1> QED BY <1>1, <1>2

\* A row replayed after a TRUNCATE of the same frame leaves it seen.
LEMMA TruncateRowStep ==
    ASSUME SafeInv, NEW op, RowDue(op), UNCHANGED replay_frame,
           UNCHANGED <<frame_truncated, qgen, invalidated>>
    PROVE  TruncateSeen'
  BY Zenon, TruncateRow, RowDueFacts
     DEF TruncateSeen, Held, population_is_current, replay_frame, pops

\* The copies a replayed row leaves guarded: those read at the new position, and
\* those already overtaken that the row keeps guarded.
LEMMA StagedRowStep ==
    ASSUME SafeInv, NEW op, RowDue(op), UNCHANGED replay_frame,
           \A g \in Gens : (Held(g) /\ population_is_current(g))'
                              => Held(g) /\ population_is_current(g),
           \A g \in Gens : \A k \in Keys :
               /\ Held(g) /\ population_is_current(g) /\ g \in recording
               /\ staged[g][k] # Absent
               /\ staged[g][k] = OriginAt(replayed)[k] \/ Outdated(g, k)
               => staged[g][k] = OriginAt(replayed + 1)[k] \/ Outdated(g, k)'
    PROVE  StagedRowsGuarded'
  <1> USE DEF SafeInv
  <1>1. UNCHANGED <<origin, pops>> /\ replayed' = replayed + 1
    BY Zenon, RowDueFacts DEF replay_frame
  <1> SUFFICES ASSUME NEW g \in Gens, Held(g), population_is_current(g),
                      read_at[g] <= replayed + 1, NEW k \in Keys, staged[g][k] # Absent
               PROVE  staged[g][k] = OriginAt(replayed + 1)[k] \/ Outdated(g, k)'
    BY Zenon, <1>1 DEF StagedRowsGuarded, origin, pops, OriginAt
  <1>2. CASE read_at[g] = replayed + 1
    BY <1>2, StagedReached, RowDueFacts
  <1>3. CASE read_at[g] <= replayed
    <2>1. staged[g][k] = OriginAt(replayed)[k] \/ Outdated(g, k)
      BY Zenon, <1>3, RowDueFacts DEF StagedRowsGuarded
    <2>2. g \in recording BY Zenon DEF Held, RecordingExact
    <2> QED BY Zenon, <2>1, <2>2
  <1> QED BY <1>2, <1>3, RowDueFacts DEF TypeOK

\* handle_insert: the row is written when a query or a recording wants it.
LEMMA InsertSafe == SafeInv /\ handle_insert => SafeInv'
  <1> SUFFICES ASSUME SafeInv, handle_insert PROVE SafeInv' BY Zenon
  <1> USE DEF SafeInv
  <1> DEFINE o == NextOp
             write == Matched(o.val) \/ Tracked(o.key)
  <1>1. /\ RowDue("Insert") /\ UNCHANGED replay_frame
        /\ img' = IF write THEN [img EXCEPT ![o.key] = o.val] ELSE img
        /\ frame_state' = IF write THEN "TxnOpen" ELSE frame_state
        /\ frame_deleted_keys' = frame_deleted_keys \ {o.key}
        /\ keys' = [keys EXCEPT ![o.key] = 0]
        /\ stale_keys' = [stale_keys EXCEPT ![o.key] = 0]
        /\ UNCHANGED <<recording, floor, overflowed, aborted_below, queries,
                       frame_toast_stale_keys, frame_truncated, frame_invalidations>>
    BY Zenon DEF handle_insert, key_cancel
  <1>2. /\ o \in Op /\ o.op = "Insert" /\ o.key \in Keys /\ o.val \in Vals
        /\ OriginAt(replayed) \in Image /\ replayed' = replayed + 1
        /\ OriginAt(replayed + 1) = [OriginAt(replayed) EXCEPT ![o.key] = o.val]
        /\ OriginAt(replayed)[o.key] = Absent
        /\ frame_state \in {"Active", "TxnOpen"}
    <2>1. /\ o \in Op /\ o.op = "Insert" /\ replayed' = replayed + 1
          /\ OriginAt(replayed) \in Image
          /\ OriginAt(replayed + 1) = Effect(OriginAt(replayed), o)
          /\ OriginAt(replayed)[o.key] = Absent
          /\ frame_state \in {"Active", "TxnOpen"}
      BY Zenon, <1>1, RowDueFacts
    <2>2. o.key \in Keys /\ o.val \in Vals BY Zenon, <2>1, OpFields
    <2> HIDE DEF o
    <2>3. Effect(OriginAt(replayed), o) = [OriginAt(replayed) EXCEPT ![o.key] = o.val]
      BY Zenon, <2>1 DEF Effect
    <2> QED BY Zenon, <2>1, <2>2, <2>3
  <1> HIDE DEF o
  <1>3. TypeOK'
    <2>1. img' \in Image BY Zenon, <1>1, <1>2 DEF TypeOK, Image, Row
    <2>2. frame_deleted_keys' \subseteq Keys BY Zenon, <1>1 DEF TypeOK
    <2>3. keys' \in [Keys -> Nat] /\ stale_keys' \in [Keys -> Nat] BY <1>1, <1>2 DEF TypeOK
    <2>4. replayed' \in Nat BY <1>1, RowDueFacts
    <2>5. frame_state' \in {"Idle", "Active", "TxnOpen", "Recovering"} BY Zenon, <1>1 DEF TypeOK
    <2> QED BY ZenonT(30), <1>1, <2>1, <2>2, <2>3, <2>4, <2>5
            DEF TypeOK, replay_frame, origin, intake, table, pops, queries
  <1>4. History' /\ PositionsOrdered' /\ FrameOK' /\ FrameKeysUnstamped' /\ PopulationsOK'
        /\ CachedRowsCurrent'
    BY Zenon, <1>1, <1>2, RowStepSafe
  <1>5. EntryOK'
    BY <1>1, <1>2 DEF EntryOK, is_recording, TypeOK, replay_frame, table
  <1>6. FrameRowsCurrent'
    <2>1. OriginAt(replayed)' = [OriginAt(replayed) EXCEPT ![o.key] = o.val]
      BY Zenon, <1>1, <1>2 DEF OriginAt, replay_frame, origin
    <2> HIDE DEF write
    <2> QED BY ZenonT(30), <1>1, <1>2, <2>1 DEF FrameRowsCurrent, TypeOK, Image
  <1>7. StagedRowsGuarded'
    <2> SUFFICES ASSUME NEW g \in Gens, NEW k \in Keys, staged[g][k] # Absent,
                        staged[g][k] = OriginAt(replayed)[k] \/ Outdated(g, k)
                 PROVE  staged[g][k] = OriginAt(replayed + 1)[k] \/ Outdated(g, k)'
      BY Zenon, <1>1, StagedRowStep DEF population_is_current, Held, replay_frame, pops, queries
    <2>1. CASE k # o.key
      BY Zenon, <1>1, <1>2, <2>1 DEF Outdated, TypeOK, Image
    <2>2. CASE k = o.key
      <3>1. img[k] = Absent
        BY Zenon, <1>2, <2>2 DEF FrameRowsCurrent, TypeOK, Image
      <3>2. \/ overflowed \/ k \in frame_toast_stale_keys
            \/ Tracked(o.key)
        BY <1>2, <2>2, <3>1 DEF Outdated, Tracked, InSet, TypeOK
      <3>3. CASE Tracked(o.key)
        BY <1>1, <1>2, <2>2, <3>3, DomainAssumption DEF Outdated, TypeOK, Image
      <3> QED BY Zenon, <1>1, <3>2, <3>3 DEF Outdated
    <2> QED BY Zenon, <2>1, <2>2
  <1> QED BY Zenon, <1>1, <1>3, <1>4, <1>5, <1>6, <1>7, RecordingFrame, GenerationsFrame,
             TruncateRowStep DEF replay_frame, pops, queries

\* handle_update: the old key is recorded when the row moves or leaves.
LEMMA UpdateSafe == SafeInv /\ handle_update => SafeInv'
  <1> SUFFICES ASSUME SafeInv, handle_update PROVE SafeInv' BY Zenon
  <1> USE DEF SafeInv
  <1> DEFINE o == NextOp
             write == Matched(o.val) \/ is_recording
             moved == [img EXCEPT ![o.key] = IF write THEN o.val ELSE Absent]
  <1>1. /\ RowDue("Update") /\ UNCHANGED replay_frame
        /\ img' = IF o.old = o.key THEN moved ELSE [moved EXCEPT ![o.old] = Absent]
        /\ frame_state' = "TxnOpen"
        /\ frame_deleted_keys' =
              (IF write THEN frame_deleted_keys \ {o.key} ELSE frame_deleted_keys)
              \cup (IF is_recording /\ o.old # o.key THEN {o.old} ELSE {})
        /\ keys' = IF write THEN [keys EXCEPT ![o.key] = 0] ELSE keys
        /\ stale_keys' = IF write THEN [stale_keys EXCEPT ![o.key] = 0] ELSE stale_keys
        /\ UNCHANGED <<recording, floor, overflowed, aborted_below, queries,
                       frame_toast_stale_keys, frame_truncated, frame_invalidations>>
    BY Zenon DEF handle_update
  <1>2. /\ o \in Op /\ o.op = "Update" /\ o.key \in Keys /\ o.old \in Keys /\ o.val \in Vals
        /\ OriginAt(replayed) \in Image /\ replayed' = replayed + 1
        /\ OriginAt(replayed + 1) =
              [[OriginAt(replayed) EXCEPT ![o.old] = Absent] EXCEPT ![o.key] = o.val]
    <2>1. /\ o \in Op /\ o.op = "Update" /\ replayed' = replayed + 1
          /\ OriginAt(replayed) \in Image
          /\ OriginAt(replayed + 1) = Effect(OriginAt(replayed), o)
      BY Zenon, <1>1, RowDueFacts
    <2>2. o.key \in Keys /\ o.old \in Keys /\ o.val \in Vals BY Zenon, <2>1, OpFields
    <2> HIDE DEF o
    <2>3. Effect(OriginAt(replayed), o) =
              [[OriginAt(replayed) EXCEPT ![o.old] = Absent] EXCEPT ![o.key] = o.val]
      BY Zenon, <2>1 DEF Effect
    <2> QED BY Zenon, <2>1, <2>2, <2>3
  <1> HIDE DEF o
  <1>3. TypeOK'
    <2>1. img' \in Image BY Zenon, <1>1, <1>2 DEF TypeOK, Image, Row
    <2>2. frame_deleted_keys' \subseteq Keys BY Zenon, <1>1, <1>2 DEF TypeOK
    <2>3. keys' \in [Keys -> Nat] /\ stale_keys' \in [Keys -> Nat] BY ZenonT(30), <1>1, <1>2 DEF TypeOK
    <2>4. replayed' \in Nat BY <1>1, RowDueFacts
    <2> QED BY ZenonT(30), <1>1, <1>2, <2>1, <2>2, <2>3, <2>4
            DEF TypeOK, replay_frame, origin, intake, table, pops, queries
  <1>4. History' /\ PositionsOrdered' /\ FrameOK' /\ FrameKeysUnstamped' /\ PopulationsOK'
        /\ CachedRowsCurrent'
    BY Zenon, <1>1, <1>2, RowStepSafe
  <1>5. EntryOK'
    <2>1. \A k \in Keys : /\ keys'[k] \in {0, keys[k]}
                          /\ stale_keys'[k] \in {0, stale_keys[k]}
      BY Zenon, <1>1, <1>2 DEF TypeOK
    <2>2. stamped \in Nat BY Zenon DEF TypeOK
    <2> QED BY <1>1, <2>1, <2>2 DEF EntryOK, is_recording, replay_frame, table
  <1>6. FrameRowsCurrent'
    <2>1. OriginAt(replayed)' =
              [[OriginAt(replayed) EXCEPT ![o.old] = Absent] EXCEPT ![o.key] = o.val]
      BY Zenon, <1>1, <1>2 DEF OriginAt, replay_frame, origin
    <2> HIDE DEF write
    <2> QED BY Zenon, <1>1, <1>2, <2>1, RowDueFacts DEF FrameRowsCurrent, TypeOK, Image
  <1>7. StagedRowsGuarded'
    <2> SUFFICES ASSUME NEW g \in Gens, NEW k \in Keys, g \in recording,
                        staged[g][k] # Absent,
                        staged[g][k] = OriginAt(replayed)[k] \/ Outdated(g, k)
                 PROVE  staged[g][k] = OriginAt(replayed + 1)[k] \/ Outdated(g, k)'
      BY Zenon, <1>1, StagedRowStep DEF population_is_current, Held, replay_frame, pops, queries
    <2>1. is_recording /\ write BY Zenon DEF is_recording
    <2>2. CASE k \notin {o.key, o.old}
      BY ZenonT(30), <1>1, <1>2, <2>1, <2>2 DEF Outdated, TypeOK, Image
    <2>3. CASE k = o.key
      <3>1. img'[k] = o.val BY Zenon, <1>1, <1>2, <2>1, <2>3 DEF TypeOK, Image
      <3> QED BY Zenon, <1>2, <3>1, DomainAssumption DEF Outdated
    <2>4. CASE k = o.old /\ k # o.key
      <3>1. k \in frame_deleted_keys' BY Zenon, <1>1, <2>1, <2>4
      <3> QED BY Zenon, <3>1 DEF Outdated
    <2> QED BY Zenon, <2>2, <2>3, <2>4
  <1> QED BY Zenon, <1>1, <1>3, <1>4, <1>5, <1>6, <1>7, RecordingFrame, GenerationsFrame,
             TruncateRowStep DEF replay_frame, pops, queries

\* handle_update_toast_fallback: the row leaves the table and its key turns stale.
LEMMA FallbackSafe == SafeInv /\ handle_update_toast_fallback => SafeInv'
  <1> SUFFICES ASSUME SafeInv, handle_update_toast_fallback PROVE SafeInv' BY Zenon
  <1> USE DEF SafeInv
  <1> DEFINE o == NextOp
  <1>1. /\ RowDue("Update") /\ UNCHANGED replay_frame
        /\ img' = [[img EXCEPT ![o.key] = Absent] EXCEPT ![o.old] = Absent]
        /\ frame_state' = "TxnOpen"
        /\ frame_toast_stale_keys' = frame_toast_stale_keys \cup
              (IF is_recording THEN {o.key} ELSE {})
        /\ frame_deleted_keys' = frame_deleted_keys \cup
              (IF is_recording /\ o.old # o.key THEN {o.old} ELSE {})
        /\ frame_invalidations' \subseteq frame_invalidations \cup Queries
        /\ UNCHANGED <<queries, entry, frame_truncated>>
    BY Zenon DEF handle_update_toast_fallback, Registered
  <1>2. /\ o \in Op /\ o.op = "Update" /\ o.key \in Keys /\ o.old \in Keys
        /\ OriginAt(replayed) \in Image /\ replayed' = replayed + 1
        /\ OriginAt(replayed + 1) =
              [[OriginAt(replayed) EXCEPT ![o.old] = Absent] EXCEPT ![o.key] = o.val]
    <2>1. /\ o \in Op /\ o.op = "Update" /\ replayed' = replayed + 1
          /\ OriginAt(replayed) \in Image
          /\ OriginAt(replayed + 1) = Effect(OriginAt(replayed), o)
      BY Zenon, <1>1, RowDueFacts
    <2>2. o.key \in Keys /\ o.old \in Keys /\ o.val \in Vals BY Zenon, <2>1, OpFields
    <2> HIDE DEF o
    <2>3. Effect(OriginAt(replayed), o) =
              [[OriginAt(replayed) EXCEPT ![o.old] = Absent] EXCEPT ![o.key] = o.val]
      BY Zenon, <2>1 DEF Effect
    <2> QED BY Zenon, <2>1, <2>2, <2>3
  <1> HIDE DEF o
  <1>3. TypeOK'
    <2>1. img' \in Image BY Zenon, <1>1, <1>2 DEF TypeOK, Image, Row
    <2>2. /\ frame_deleted_keys' \subseteq Keys /\ frame_toast_stale_keys' \subseteq Keys
          /\ frame_invalidations' \subseteq Queries
      BY Zenon, <1>1, <1>2 DEF TypeOK
    <2>3. /\ replayed' \in Nat /\ frame_state' = "TxnOpen"
          /\ UNCHANGED <<replay_frame, queries, entry, frame_truncated>>
      BY <1>1, <1>2 DEF TypeOK
    <2> QED BY Zenon, <2>1, <2>2, <2>3
            DEF TypeOK, replay_frame, origin, intake, table, pops, queries, entry
  <1>4. History' /\ PositionsOrdered' /\ FrameOK' /\ FrameKeysUnstamped' /\ PopulationsOK'
        /\ CachedRowsCurrent'
    BY Zenon, <1>1, <1>2, RowStepSafe
  <1>5. FrameRowsCurrent'
    <2>1. OriginAt(replayed)' =
              [[OriginAt(replayed) EXCEPT ![o.old] = Absent] EXCEPT ![o.key] = o.val]
      BY Zenon, <1>1, <1>2 DEF OriginAt, replay_frame, origin
    <2> QED BY Zenon, <1>1, <1>2, <2>1, RowDueFacts DEF FrameRowsCurrent, TypeOK, Image
  <1>6. StagedRowsGuarded'
    <2> SUFFICES ASSUME NEW g \in Gens, NEW k \in Keys, g \in recording,
                        staged[g][k] # Absent,
                        staged[g][k] = OriginAt(replayed)[k] \/ Outdated(g, k)
                 PROVE  staged[g][k] = OriginAt(replayed + 1)[k] \/ Outdated(g, k)'
      BY Zenon, <1>1, StagedRowStep DEF population_is_current, Held, replay_frame, pops, queries
    <2>1. is_recording BY Zenon DEF is_recording
    <2>2. CASE k \notin {o.key, o.old}
      BY Zenon, <1>1, <1>2, <2>1, <2>2 DEF Outdated, TypeOK, Image, entry
    <2>3. CASE k \in {o.key, o.old}
      BY Zenon, <1>1, <1>2, <2>1, <2>3 DEF Outdated
    <2> QED BY Zenon, <2>2, <2>3
  <1> QED BY Zenon, <1>1, <1>3, <1>4, <1>5, <1>6, RecordingFrame, GenerationsFrame, EntryFrame,
             TruncateRowStep DEF replay_frame, pops, queries, entry, table

\* handle_delete: the key is recorded.
LEMMA DeleteSafe == SafeInv /\ handle_delete => SafeInv'
  <1> SUFFICES ASSUME SafeInv, handle_delete PROVE SafeInv' BY Zenon
  <1> USE DEF SafeInv
  <1> DEFINE o == NextOp
  <1>1. /\ RowDue("Delete") /\ UNCHANGED replay_frame
        /\ img' = [img EXCEPT ![o.key] = Absent]
        /\ frame_state' = "TxnOpen"
        /\ frame_deleted_keys' = frame_deleted_keys \cup
              (IF is_recording THEN {o.key} ELSE {})
        /\ UNCHANGED <<queries, entry, frame_toast_stale_keys, frame_truncated,
                       frame_invalidations>>
    BY Zenon DEF handle_delete
  <1>2. /\ o.key \in Keys /\ OriginAt(replayed) \in Image /\ replayed' = replayed + 1
        /\ OriginAt(replayed + 1) = [OriginAt(replayed) EXCEPT ![o.key] = Absent]
    <2>1. /\ o \in Op /\ o.op = "Delete" /\ replayed' = replayed + 1
          /\ OriginAt(replayed) \in Image
          /\ OriginAt(replayed + 1) = Effect(OriginAt(replayed), o)
      BY Zenon, <1>1, RowDueFacts
    <2>2. o.key \in Keys BY Zenon, <2>1, OpFields
    <2> HIDE DEF o
    <2>3. Effect(OriginAt(replayed), o) = [OriginAt(replayed) EXCEPT ![o.key] = Absent]
      BY Zenon, <2>1 DEF Effect
    <2> QED BY Zenon, <2>1, <2>2, <2>3
  <1> HIDE DEF o
  <1>3. TypeOK'
    <2>1. img' \in Image BY Zenon, <1>1, <1>2 DEF TypeOK, Image, Row
    <2>2. frame_deleted_keys' \subseteq Keys BY Zenon, <1>1, <1>2 DEF TypeOK
    <2>3. replayed' \in Nat BY <1>1, RowDueFacts
    <2> QED BY ZenonT(30), <1>1, <2>1, <2>2, <2>3
            DEF TypeOK, replay_frame, origin, intake, table, pops, queries, entry
  <1>4. History' /\ PositionsOrdered' /\ FrameOK' /\ FrameKeysUnstamped' /\ PopulationsOK'
        /\ CachedRowsCurrent'
    BY Zenon, <1>1, <1>2, RowStepSafe
  <1>5. FrameRowsCurrent'
    <2>1. OriginAt(replayed)' = [OriginAt(replayed) EXCEPT ![o.key] = Absent]
      BY Zenon, <1>1, <1>2 DEF OriginAt, replay_frame, origin
    <2> QED BY Zenon, <1>1, <1>2, <2>1, RowDueFacts DEF FrameRowsCurrent, TypeOK, Image
  <1>6. StagedRowsGuarded'
    <2> SUFFICES ASSUME NEW g \in Gens, NEW k \in Keys, g \in recording,
                        staged[g][k] # Absent,
                        staged[g][k] = OriginAt(replayed)[k] \/ Outdated(g, k)
                 PROVE  staged[g][k] = OriginAt(replayed + 1)[k] \/ Outdated(g, k)'
      BY Zenon, <1>1, StagedRowStep DEF population_is_current, Held, replay_frame, pops, queries
    <2>1. is_recording BY Zenon DEF is_recording
    <2>2. CASE k # o.key
      BY ZenonT(30), <1>1, <1>2, <2>1, <2>2 DEF Outdated, TypeOK, Image, entry
    <2>3. CASE k = o.key
      BY Zenon, <1>1, <1>2, <2>1, <2>3 DEF Outdated
    <2> QED BY Zenon, <2>2, <2>3
  <1> QED BY Zenon, <1>1, <1>3, <1>4, <1>5, <1>6, RecordingFrame, GenerationsFrame, EntryFrame,
             TruncateRowStep DEF replay_frame, pops, queries, entry, table

\* handle_truncate: every query over the relation is evicted.
LEMMA TruncateSafe == SafeInv /\ handle_truncate => SafeInv'
  <1> SUFFICES ASSUME SafeInv, handle_truncate PROVE SafeInv' BY Zenon
  <1> USE DEF SafeInv
  <1>1. /\ RowDue("Truncate") /\ UNCHANGED replay_frame
        /\ img' = NoRows /\ frame_state' = "TxnOpen" /\ cache_table_invalidate
        /\ frame_truncated' = TRUE
        /\ UNCHANGED <<entry, frame_deleted_keys, frame_toast_stale_keys,
                       frame_invalidations>>
    BY Zenon DEF handle_truncate
  <1>2. /\ \A g \in Gens : ~population_is_current(g)'
        /\ qgen' \in [Queries -> 0..MaxGen]
        /\ \A q \in Queries : qgen'[q] = 0
        /\ invalidated' \in [Queries -> BOOLEAN] /\ started' \in [Queries -> BOOLEAN]
        /\ view' \in [Queries -> {"None", "Loading", "Ready", "Invalidated"}]
        /\ UNCHANGED <<generation_counter, readmits>>
    BY Zenon, <1>1, InvalidatedNoneCurrent DEF replay_frame, pops
  <1>3. TypeOK'
    <2>1. NoRows \in Image BY Zenon DEF NoRows, Image, Row
    <2>2. replayed' \in Nat /\ task' \in {"idle", "replay", "flush", "commit", "drain"}
      <3>1. replayed \in Nat /\ replayed' = replayed + 1 BY Zenon, <1>1, RowDueFacts
      <3> QED BY <1>1, <3>1 DEF TypeOK, replay_frame
    <2> QED BY Zenon, <1>1, <1>2, <2>1, <2>2
            DEF TypeOK, replay_frame, origin, intake, table, pops, entry
  <1>4. History' /\ PositionsOrdered' /\ FrameOK' /\ FrameKeysUnstamped' /\ PopulationsOK'
        /\ CachedRowsCurrent'
    BY Zenon, <1>1, RowStepSafe
  <1>5. FrameRowsCurrent' BY Zenon, <1>1 DEF FrameRowsCurrent, NoRows
  <1>6. TruncateSeen' /\ StagedRowsGuarded' BY Zenon, <1>2 DEF TruncateSeen, StagedRowsGuarded
  <1>7. GenerationsOK'
    BY <1>1, <1>2 DEF GenerationsOK, TypeOK, replay_frame, pops
  <1> QED BY Zenon, <1>1, <1>3, <1>4, <1>5, <1>6, <1>7, RecordingFrame, EntryFrame
          DEF replay_frame, pops, entry, table

-----------------------------------------------------------------------------
(* SafeInv: stamping the keys at a transaction boundary.                   *)

\* The end of a replay chunk only hands the loop back.
LEMMA ReplayDoneSafe == SafeInv /\ ReplayDone => SafeInv'
  <1> SUFFICES ASSUME SafeInv, ReplayDone PROVE SafeInv' BY Zenon
  <1> USE DEF SafeInv, ReplayDone, table, queries, replay, intake
  <1>1. TypeOK' BY Zenon DEF TypeOK, origin, entry, pops
  <1>2. FrameOK' BY Zenon DEF FrameOK, Quiet, origin
  <1> QED BY Zenon, <1>1, <1>2, HistoryFrame, PositionsFrame, UnstampedFrame, RecordingFrame,
             EntryFrame, GenerationsFrame, PopulationsFrame, TruncateFrame, CachedFrame,
             RowsFrame, StagedFrame
          DEF origin, entry, pops

\* What stamping the frame's keys at a commit boundary leaves in the entry.
Stamping(dead, live, bulk, lsn) ==
    /\ keys' \in [Keys -> Nat] /\ stale_keys' \in [Keys -> Nat]
    /\ overflowed' \in BOOLEAN /\ aborted_below' \in Nat
    /\ UNCHANGED <<recording, floor>>
    /\ ~is_recording \/ overflowed' => \A k \in Keys : keys'[k] = 0 /\ stale_keys'[k] = 0
    /\ \A k \in Keys : keys'[k] <= lsn /\ stale_keys'[k] <= lsn
    /\ is_recording /\ ~overflowed' /\ ~bulk =>
          \A k \in Keys :
             /\ k \in dead \ live => keys'[k] = lsn
             /\ k \in live => stale_keys'[k] = lsn
             /\ k \notin dead \cup live => /\ keys'[k] = keys[k]
                                           /\ stale_keys'[k] = stale_keys[k]
    /\ bulk => \A k \in Keys : keys'[k] = 0
    /\ \A k \in Keys : keys'[k] # 0 => k \notin live /\ (k \in dead \/ keys[k] # 0)
    /\ overflowed => overflowed'

\* keys_stamp records dead keys, cancels live ones, and empties an overflowed entry.
LEMMA StampedEntry ==
    ASSUME TypeOK, EntryOK, NEW dead \in SUBSET Keys, NEW live \in SUBSET Keys,
           NEW bulk \in BOOLEAN, NEW lsn \in Nat, stamped <= lsn,
           keys_stamp(dead, live, bulk, lsn)
    PROVE  Stamping(dead, live, bulk, lsn)
  <1> DEFINE tracking == is_recording /\ ~overflowed
             dead_keys == [k \in Keys |-> IF k \in dead THEN lsn ELSE keys[k]]
             dead_stale == [k \in Keys |-> IF k \in dead THEN 0 ELSE stale_keys[k]]
             new_keys == [k \in Keys |-> IF k \in live THEN 0 ELSE dead_keys[k]]
             new_stale == [k \in Keys |->
                 IF k \in live /\ dead_stale[k] < lsn THEN lsn ELSE dead_stale[k]]
             lost == \/ Cardinality(InSet(dead_keys)) > DeletedKeyCap
                     \/ Cardinality(InSet(new_stale)) > DeletedKeyCap
             Kept(f) == [k \in Keys |->
                 IF lost \/ (bulk /\ f[k] <= lsn) THEN 0 ELSE f[k]]
  <1>1. /\ overflowed' = (overflowed \/ (tracking /\ lost))
        /\ keys' = IF tracking THEN Kept(new_keys) ELSE keys
        /\ stale_keys' = IF tracking THEN Kept(new_stale) ELSE stale_keys
        /\ aborted_below' \in {lsn, aborted_below}
        /\ UNCHANGED <<recording, floor>>
    BY Zenon DEF keys_stamp
  <1> HIDE DEF lost
  <1>2. CASE tracking
    <2>1. ASSUME NEW k \in Keys
          PROVE  /\ keys'[k] = IF lost \/ (bulk /\ new_keys[k] <= lsn) THEN 0 ELSE new_keys[k]
                 /\ stale_keys'[k] = IF lost \/ (bulk /\ new_stale[k] <= lsn)
                                     THEN 0 ELSE new_stale[k]
                 /\ new_keys[k] = IF k \in live THEN 0 ELSE IF k \in dead THEN lsn ELSE keys[k]
                 /\ new_stale[k] = IF k \in live THEN lsn
                                   ELSE IF k \in dead THEN 0 ELSE stale_keys[k]
                 /\ keys[k] \in Nat /\ stale_keys[k] \in Nat
                 /\ keys[k] <= lsn /\ stale_keys[k] <= lsn
      BY <1>1, <1>2 DEF EntryOK, TypeOK
    <2>2. keys' \in [Keys -> Nat] /\ stale_keys' \in [Keys -> Nat]
      BY Zenon, <1>1, <1>2 DEF TypeOK
    <2>3. /\ overflowed' \in BOOLEAN /\ (overflowed' <=> lost) /\ is_recording
          /\ ~overflowed /\ aborted_below' \in Nat
      BY Zenon, <1>1, <1>2 DEF TypeOK
    <2> HIDE DEF new_keys, new_stale, Kept, tracking
    <2>4. ASSUME NEW k \in Keys
          PROVE  /\ overflowed' => keys'[k] = 0 /\ stale_keys'[k] = 0
                 /\ keys'[k] <= lsn /\ stale_keys'[k] <= lsn
                 /\ ~overflowed' /\ ~bulk =>
                       /\ k \in dead \ live => keys'[k] = lsn
                       /\ k \in live => stale_keys'[k] = lsn
                       /\ k \notin dead \cup live => /\ keys'[k] = keys[k]
                                                     /\ stale_keys'[k] = stale_keys[k]
                 /\ bulk => keys'[k] = 0
                 /\ keys'[k] # 0 => k \notin live /\ (k \in dead \/ keys[k] # 0)
      <3>1. /\ keys'[k] = IF lost \/ (bulk /\ new_keys[k] <= lsn) THEN 0 ELSE new_keys[k]
            /\ stale_keys'[k] = IF lost \/ (bulk /\ new_stale[k] <= lsn) THEN 0 ELSE new_stale[k]
            /\ new_keys[k] = IF k \in live THEN 0 ELSE IF k \in dead THEN lsn ELSE keys[k]
            /\ new_stale[k] = IF k \in live THEN lsn ELSE IF k \in dead THEN 0 ELSE stale_keys[k]
            /\ keys[k] \in Nat /\ stale_keys[k] \in Nat
            /\ keys[k] <= lsn /\ stale_keys[k] <= lsn
        BY Zenon, <2>1
      <3> HIDE DEF dead_keys, dead_stale, lost
      <3>2. CASE lost BY <2>3, <3>1, <3>2
      <3>3. CASE ~lost /\ bulk BY <2>3, <3>1, <3>3
      <3>4. CASE ~lost /\ ~bulk BY <2>3, <3>1, <3>4
      <3> QED BY Zenon, <3>2, <3>3, <3>4
    <2> QED BY Zenon, <1>1, <2>2, <2>3, <2>4 DEF Stamping
  <1>3. CASE ~tracking
    BY <1>1, <1>3 DEF EntryOK, TypeOK, Stamping
  <1> QED BY Zenon, <1>2, <1>3

\* A stamping at a position the stream then reaches or passes keeps the entry in order.
LEMMA StampedOK ==
    ASSUME TypeOK, EntryOK, NEW dead, NEW live, NEW bulk, NEW lsn \in Nat, NEW to \in Nat,
           Stamping(dead, live, bulk, lsn), lsn <= to, stamped' = to, received' = to,
           received <= to
    PROVE  EntryOK'
  <1>1. /\ keys' \in [Keys -> Nat] /\ stale_keys' \in [Keys -> Nat]
        /\ UNCHANGED <<recording, floor>>
        /\ ~is_recording \/ overflowed' => \A k \in Keys : keys'[k] = 0 /\ stale_keys'[k] = 0
        /\ \A k \in Keys : keys'[k] <= lsn /\ stale_keys'[k] <= lsn
    BY Zenon DEF Stamping
  <1>2. is_recording' = is_recording BY Zenon, <1>1 DEF is_recording
  <1>3. ASSUME NEW k \in Keys PROVE keys'[k] <= stamped' /\ stale_keys'[k] <= stamped'
    BY <1>1
  <1>4. ASSUME NEW g \in recording' PROVE floor'[g] <= received'
    <2>1. floor[g] <= received /\ floor[g] \in Nat /\ received \in Nat
      BY Zenon, <1>1 DEF EntryOK, TypeOK
    <2> QED BY <1>1, <2>1
  <1> QED BY Zenon, <1>1, <1>2, <1>3, <1>4 DEF EntryOK

\* Guarded copies stay guarded when the frame's keys move into the entry.
LEMMA StampedGuard ==
    ASSUME TypeOK, EntryOK, PositionsOrdered, FrameKeysUnstamped, NEW lsn \in Nat,
           replayed <= lsn, ~frame_truncated,
           keys_stamp(frame_deleted_keys, frame_toast_stale_keys, frame_truncated, lsn),
           UNCHANGED img, NEW g \in recording, NEW k \in Keys, Outdated(g, k)
    PROVE  Outdated(g, k)'
  <1>1. is_recording BY Zenon DEF is_recording
  <1>2. frame_deleted_keys \in SUBSET Keys /\ frame_toast_stale_keys \in SUBSET Keys
        /\ frame_truncated \in BOOLEAN /\ stamped <= lsn
    BY DEF TypeOK, PositionsOrdered
  <1>3. CASE overflowed' BY Zenon, <1>3 DEF Outdated
  <1>4. CASE ~overflowed'
    <2>1. /\ k \in frame_deleted_keys \ frame_toast_stale_keys => keys'[k] = lsn
          /\ k \in frame_toast_stale_keys => stale_keys'[k] = lsn
          /\ k \notin frame_deleted_keys \cup frame_toast_stale_keys =>
                keys'[k] = keys[k] /\ stale_keys'[k] = stale_keys[k]
          /\ UNCHANGED floor /\ ~overflowed
      <3>1. Stamping(frame_deleted_keys, frame_toast_stale_keys, frame_truncated, lsn)
        BY Zenon, <1>2, StampedEntry
      <3> QED BY Zenon, <1>1, <1>4, <3>1 DEF Stamping
    <2>2. floor[g] \in Nat /\ floor[g] <= received BY Zenon DEF EntryOK, TypeOK
    <2>3. k \in frame_deleted_keys \cup frame_toast_stale_keys => floor[g] < lsn
      BY <2>2 DEF FrameKeysUnstamped, PositionsOrdered, TypeOK
    <2> QED BY Zenon, <2>1, <2>3 DEF Outdated
  <1> QED BY Zenon, <1>3, <1>4

\* A transaction boundary inside the frame stamps the keys of the rows before it.
LEMMA BoundarySafe == SafeInv /\ ReplayBoundary => SafeInv'
  <1> SUFFICES ASSUME SafeInv, ReplayBoundary PROVE SafeInv' BY Zenon
  <1> USE DEF SafeInv
  <1>1. /\ Replaying /\ BoundaryDue
        /\ stamped' = replayed
        /\ keys_stamp(frame_deleted_keys, frame_toast_stale_keys, frame_truncated, replayed)
        /\ frame_deleted_keys' = {} /\ frame_toast_stale_keys' = {}
        /\ frame_truncated' = FALSE
        /\ UNCHANGED <<origin, intake, table, pops, task, queries, replayed,
                       frame_state, img, frame_invalidations>>
    BY Zenon DEF ReplayBoundary
  <1>2. /\ frame_deleted_keys \in SUBSET Keys /\ frame_toast_stale_keys \in SUBSET Keys
        /\ frame_truncated \in BOOLEAN /\ stamped <= replayed /\ replayed \in Nat
        /\ stamped < replayed /\ received <= stamped /\ stamped \in Nat /\ received \in Nat
    BY Zenon, <1>1 DEF TypeOK, PositionsOrdered, BoundaryDue
  <1>3. Stamping(frame_deleted_keys, frame_toast_stale_keys, frame_truncated, replayed)
    BY Zenon, <1>1, <1>2, StampedEntry
  <1>4. TypeOK'
    BY Zenon, <1>1, <1>2, <1>3
       DEF Stamping, TypeOK, origin, intake, table, pops, queries
  <1>5. PositionsOrdered'
    BY <1>1, <1>2 DEF PositionsOrdered, BoundaryDue, origin, intake, table
  <1>6. FrameOK' BY Zenon, <1>1 DEF FrameOK, Quiet, origin, intake, table
  <1>7. FrameKeysUnstamped' /\ TruncateSeen' BY Zenon, <1>1 DEF FrameKeysUnstamped, TruncateSeen
  <1>8. EntryOK'
    BY Zenon, <1>1, <1>2, <1>3 DEF Stamping, EntryOK, is_recording, table
  <1>9. RecordingExact' BY Zenon, <1>1, <1>3 DEF Stamping, RecordingExact, pops
  <1>10. StagedRowsGuarded'
    <2> SUFFICES ASSUME NEW g \in Gens, Held(g), population_is_current(g),
                        read_at[g] <= replayed, NEW k \in Keys, staged[g][k] # Absent,
                        frame_state # "Recovering"
                 PROVE  staged[g][k] = OriginAt(replayed)[k] \/ Outdated(g, k)'
      BY Zenon, <1>1 DEF StagedRowsGuarded, Held, population_is_current, OriginAt, origin, pops,
                  queries
    <2>1. CASE frame_truncated
      <3>1. read_at[g] = replayed BY <2>1 DEF TruncateSeen, TypeOK
      <3>2. received < read_at[g] BY <1>2, <3>1
      <3> HIDE DEF SafeInv
      <3> QED BY Zenon, <3>1, <3>2, StagedReached
    <2>2. CASE ~frame_truncated
      <3>1. staged[g][k] = OriginAt(replayed)[k] \/ Outdated(g, k) BY Zenon DEF StagedRowsGuarded
      <3>2. g \in recording BY Zenon DEF RecordingExact, Held
      <3>3. Outdated(g, k) => Outdated(g, k)'
        <4> SUFFICES ASSUME Outdated(g, k) PROVE Outdated(g, k)' BY Zenon
        <4>1. TypeOK /\ EntryOK /\ PositionsOrdered /\ FrameKeysUnstamped BY Zenon
        <4>2. /\ replayed \in Nat /\ replayed <= replayed /\ ~frame_truncated /\ UNCHANGED img
              /\ keys_stamp(frame_deleted_keys, frame_toast_stale_keys, frame_truncated, replayed)
          BY <1>1, <1>2, <2>2
        <4> HIDE DEF SafeInv
        <4> QED BY Zenon, <3>2, <4>1, <4>2, StampedGuard
      <3> QED BY Zenon, <3>1, <3>3
    <2> QED BY Zenon, <2>1, <2>2
  <1> QED BY Zenon, <1>1, <1>4, <1>5, <1>6, <1>7, <1>8, <1>9, <1>10, HistoryFrame,
             GenerationsFrame, PopulationsFrame, CachedFrame, RowsFrame
          DEF origin, table, pops, queries

-----------------------------------------------------------------------------
(* SafeInv: closing a batch.                                               *)

\* frame_invalidations_flush moves no row: copies staged by a flagged query stop
\* being current, the others stay guarded.
LEMMA FlushSafe == SafeInv /\ frame_invalidations_flush => SafeInv'
  <1> SUFFICES ASSUME SafeInv, frame_invalidations_flush PROVE SafeInv' BY Zenon
  <1> USE DEF SafeInv
  <1>1. /\ task = "flush" /\ ~ReplayDue /\ frame_state \in {"Active", "TxnOpen"}
        /\ task' = "commit"
        /\ UNCHANGED <<origin, intake, replay, table, entry, generation_counter, pops>>
    BY Zenon DEF frame_invalidations_flush
  <1>2. /\ readmits' \subseteq Queries
        /\ qgen' \in [Queries -> 0..MaxGen] /\ invalidated' \in [Queries -> BOOLEAN]
        /\ started' \in [Queries -> BOOLEAN]
        /\ view' \in [Queries -> {"None", "Loading", "Ready", "Invalidated"}]
        /\ \A q \in Queries : /\ qgen'[q] \in {0, qgen[q]}
                              /\ invalidated[q] /\ qgen'[q] # 0 => invalidated'[q]
    <2> DEFINE hit == frame_invalidations \cap Registered
               gone == IF Fifo THEN hit \ Pinned ELSE {}
               marks == hit \ (Pinned \cup gone)
    <2>1. /\ readmits' = readmits \cup (hit \cap Pinned)
          /\ qgen' = [q \in Queries |-> IF q \in gone THEN 0 ELSE qgen[q]]
          /\ started' = [q \in Queries |-> IF q \in gone THEN FALSE ELSE started[q]]
          /\ invalidated' = [q \in Queries |-> IF q \in marks THEN TRUE ELSE
                [p \in Queries |-> IF p \in gone THEN FALSE ELSE invalidated[p]][q]]
          /\ view' = [q \in Queries |-> IF q \in marks THEN "Invalidated" ELSE
                [p \in Queries |-> IF p \in gone THEN "None" ELSE view[p]][q]]
      BY Zenon DEF frame_invalidations_flush
    <2>2. readmits' \subseteq Queries BY Zenon, <2>1 DEF TypeOK
    <2> HIDE DEF gone, marks
    <2>3. qgen' \in [Queries -> 0..MaxGen] BY <2>1, BoundAssumption DEF TypeOK
    <2>4. invalidated' \in [Queries -> BOOLEAN] /\ started' \in [Queries -> BOOLEAN]
      BY Zenon, <2>1 DEF TypeOK
    <2>5. view' \in [Queries -> {"None", "Loading", "Ready", "Invalidated"}]
      BY Zenon, <2>1 DEF TypeOK
    <2>6. ASSUME NEW q \in Queries
          PROVE  qgen'[q] \in {0, qgen[q]} /\ (invalidated[q] /\ qgen'[q] # 0 => invalidated'[q])
      BY Zenon, <2>1 DEF TypeOK
    <2> QED BY Zenon, <2>2, <2>3, <2>4, <2>5, <2>6
  <1>3. TypeOK'
    BY Zenon, <1>1, <1>2 DEF TypeOK, origin, intake, replay, table, entry, pops
  <1>4. FrameOK'
    <2>1. replayed = marked BY <1>1 DEF ReplayDue, FrameOK, PositionsOrdered, TypeOK
    <2> QED BY Zenon, <1>1, <2>1 DEF FrameOK, Quiet, origin, intake, replay, table
  <1>5. \A g \in Gens : population_is_current(g)' => population_is_current(g)
    BY <1>1, <1>2 DEF population_is_current, pops, Gens, TypeOK
  <1>6. TruncateSeen' /\ StagedRowsGuarded'
    BY Zenon, <1>1, <1>5 DEF TruncateSeen, StagedRowsGuarded, Held, Outdated, OriginAt, origin,
                      replay, entry, pops
  <1>7. GenerationsOK'
    <2>1. generation_counter' = generation_counter /\ generation_counter \in Nat
          /\ phase' = phase
      BY <1>1, BoundAssumption DEF TypeOK, pops
    <2>2. ASSUME NEW q \in Queries PROVE qgen'[q] <= generation_counter
      <3>1. qgen'[q] = 0 \/ qgen'[q] = qgen[q] BY Zenon, <1>2
      <3> QED BY <2>1, <3>1 DEF GenerationsOK
    <2> QED BY Zenon, <2>1, <2>2 DEF GenerationsOK
  <1> QED BY Zenon, <1>1, <1>3, <1>4, <1>6, <1>7, HistoryFrame, PositionsFrame, UnstampedFrame,
             RecordingFrame, EntryFrame, PopulationsFrame, CachedFrame, RowsFrame
          DEF origin, intake, replay, table, entry, pops

\* Where the flush leaves the positions, whatever it did with the rows.
LEMMA CaughtFacts ==
    ASSUME SafeInv, Caught, task \in {"flush", "commit"}, UNCHANGED <<origin, pops>>,
           UNCHANGED frame_open, img' = cache', task' \in {"idle", "drain"}
    PROVE  /\ FlushedTo \in Nat /\ marked <= FlushedTo /\ FlushedTo <= Len(wal)
           /\ received <= marked /\ stamped <= marked /\ marked \in Nat /\ received \in Nat
           /\ Quiet(marked, FlushedTo) /\ OriginAt(marked) = OriginAt(FlushedTo)
           /\ History' /\ PositionsOrdered' /\ FrameOK' /\ FrameKeysUnstamped'
           /\ TruncateSeen' /\ PopulationsOK'
  <1> USE DEF SafeInv
  <1>1. /\ FlushedTo \in Nat /\ marked <= FlushedTo /\ FlushedTo <= Len(wal)
        /\ received <= marked /\ stamped <= marked /\ marked \in Nat /\ received \in Nat
        /\ Quiet(marked, FlushedTo)
    <2>1. /\ received \in Nat /\ stamped \in Nat /\ marked \in Nat /\ keepalive \in Nat
          /\ delivered \in Nat /\ Len(wal) \in Nat
      BY DEF TypeOK
    <2>2. received <= marked /\ stamped <= marked /\ marked <= Len(wal)
      BY <2>1 DEF PositionsOrdered
    <2>3. CASE keepalive # 0 BY <2>1, <2>2, <2>3 DEF FlushedTo, FrameOK
    <2>4. CASE keepalive = 0
      <3>1. FlushedTo = marked BY Zenon, <2>4 DEF FlushedTo
      <3>2. Quiet(marked, marked) BY <2>1 DEF Quiet
      <3> QED BY <2>1, <2>2, <3>1, <3>2
    <2> QED BY Zenon, <2>3, <2>4
  <1>2. OriginAt(marked) = OriginAt(FlushedTo) BY <1>1, QuietSame
  <1>3. /\ delivered' = FlushedTo /\ marked' = FlushedTo /\ replayed' = FlushedTo
        /\ stamped' = FlushedTo /\ received' = FlushedTo
        /\ keepalive' = 0 /\ frame_state' = "Idle" /\ frame_invalidations' = {}
        /\ frame_deleted_keys' = {} /\ frame_toast_stale_keys' = {}
        /\ frame_truncated' = FALSE
    BY Zenon DEF Caught
  <1> HIDE DEF FlushedTo
  <1>4. PositionsOrdered' BY <1>1, <1>3 DEF PositionsOrdered, origin
  <1>5. FrameOK' BY <1>1, <1>3 DEF FrameOK
  <1>6. FrameKeysUnstamped' /\ TruncateSeen' BY Zenon, <1>3 DEF FrameKeysUnstamped, TruncateSeen
  <1>7. PopulationsOK'
    <2>1. ASSUME NEW g \in Gens
          PROVE  ResultAt(popq[g], read_at[g])' = ResultAt(popq[g], read_at[g])
      BY Zenon DEF ResultAt, OriginAt, origin, pops
    <2> QED BY <1>1, <1>3, <2>1 DEF PopulationsOK, Held, origin, pops, TypeOK
  <1> QED BY Zenon, <1>1, <1>2, <1>4, <1>5, <1>6, <1>7, HistoryFrame

\* The frame's COMMIT makes its rows the table's and stamps the last keys.
LEMMA CommitSafe == SafeInv /\ frame_commit => SafeInv'
  <1> SUFFICES ASSUME SafeInv, frame_commit PROVE SafeInv' BY Zenon
  <1> USE DEF SafeInv
  <1>1. /\ task = "commit" /\ frame_state \in {"Active", "TxnOpen"}
        /\ cache' = img /\ Caught
        /\ keys_stamp(frame_deleted_keys, frame_toast_stale_keys, frame_truncated, marked)
        /\ UNCHANGED <<origin, frame_open, img, queries, pops>>
        /\ task' \in {"idle", "drain"}
    BY Zenon DEF frame_commit, LoopEnd
  <1>2. /\ FlushedTo \in Nat /\ marked <= FlushedTo /\ FlushedTo <= Len(wal)
        /\ received <= marked /\ stamped <= marked /\ marked \in Nat /\ received \in Nat
        /\ Quiet(marked, FlushedTo) /\ OriginAt(marked) = OriginAt(FlushedTo)
    BY Zenon, <1>1, CaughtFacts
  <1>12. /\ History' /\ PositionsOrdered' /\ FrameOK' /\ FrameKeysUnstamped'
         /\ TruncateSeen' /\ PopulationsOK'
    BY Zenon, <1>1, CaughtFacts
  <1>3. /\ delivered' = FlushedTo /\ marked' = FlushedTo /\ replayed' = FlushedTo
        /\ stamped' = FlushedTo /\ received' = FlushedTo
        /\ keepalive' = 0 /\ frame_state' = "Idle" /\ frame_invalidations' = {}
        /\ frame_deleted_keys' = {} /\ frame_toast_stale_keys' = {}
        /\ frame_truncated' = FALSE
    BY Zenon, <1>1 DEF Caught
  <1> HIDE DEF FlushedTo
  <1>4. replayed = marked BY Zenon, <1>1 DEF FrameOK
  <1>5. /\ frame_deleted_keys \in SUBSET Keys /\ frame_toast_stale_keys \in SUBSET Keys
        /\ frame_truncated \in BOOLEAN
    BY Zenon DEF TypeOK
  <1>6. Stamping(frame_deleted_keys, frame_toast_stale_keys, frame_truncated, marked)
    BY Zenon, <1>1, <1>2, <1>5, StampedEntry
  <1>7. TypeOK'
    BY Zenon, <1>1, <1>2, <1>3, <1>6 DEF Stamping, TypeOK, origin, pops, queries
  <1>8. EntryOK'
    <2>1. TypeOK /\ EntryOK BY Zenon
    <2>2. /\ marked \in Nat /\ FlushedTo \in Nat /\ marked <= FlushedTo /\ received <= FlushedTo
          /\ stamped' = FlushedTo /\ received' = FlushedTo
      BY <1>2, <1>3
    <2> HIDE DEF SafeInv
    <2> QED BY Zenon, <1>6, <2>1, <2>2, StampedOK
  <1>9. RecordingExact' BY Zenon, <1>1, <1>6 DEF Stamping, RecordingExact, pops
  <1>10. CachedRowsCurrent' /\ FrameRowsCurrent'
    BY Zenon, <1>1, <1>2, <1>3, <1>4 DEF CachedRowsCurrent, FrameRowsCurrent, OriginAt, origin
  <1>13. /\ UNCHANGED img
         /\ keys_stamp(frame_deleted_keys, frame_toast_stale_keys, frame_truncated, marked)
    BY Zenon, <1>1
  <1>11. StagedRowsGuarded'
    <2> SUFFICES ASSUME NEW g \in Gens, Held(g), population_is_current(g),
                        read_at[g] <= FlushedTo, NEW k \in Keys, staged[g][k] # Absent
                 PROVE  staged[g][k] = OriginAt(marked)[k] \/ Outdated(g, k)'
      BY Zenon, <1>1, <1>2, <1>3 DEF StagedRowsGuarded, Held, population_is_current, OriginAt,
                              origin, pops, queries
    <2>0. read_at[g] \in Nat /\ marked \in Nat BY Zenon DEF TypeOK
    <2>1. CASE marked < read_at[g]
      <3>1. staged[g] = ResultAt(popq[g], FlushedTo) BY Zenon, <1>2, <2>1, CopiesAcross
      <3> QED BY Zenon, <1>2, <3>1 DEF ResultAt
    <2>2. CASE read_at[g] <= marked /\ frame_truncated
      <3>1. read_at[g] = marked
        <4>1. marked <= read_at[g] BY Zenon, <1>4, <2>2 DEF TruncateSeen
        <4> QED BY <2>0, <2>2, <4>1
      <3>2. received < read_at[g]
        BY <1>2, <1>4, <2>2, <3>1 DEF FrameKeysUnstamped, PositionsOrdered, TypeOK
      <3> QED BY Zenon, <3>1, <3>2, StagedReached
    <2>3. CASE read_at[g] <= marked /\ ~frame_truncated
      <3>1. staged[g][k] = OriginAt(marked)[k] \/ Outdated(g, k)
        BY Zenon, <1>1, <1>4, <2>3 DEF StagedRowsGuarded
      <3>2. g \in recording BY Zenon DEF RecordingExact, Held
      <3>3. Outdated(g, k) => Outdated(g, k)'
        <4> SUFFICES ASSUME Outdated(g, k) PROVE Outdated(g, k)' BY Zenon
        <4>1. TypeOK /\ EntryOK /\ PositionsOrdered /\ FrameKeysUnstamped BY Zenon
        <4> HIDE DEF SafeInv
        <4>2. replayed <= marked BY <1>4, <2>0
        <4> QED BY Zenon, <1>13, <2>0, <2>3, <3>2, <4>1, <4>2, StampedGuard
      <3> QED BY Zenon, <3>1, <3>3
    <2>4. marked < read_at[g] \/ read_at[g] <= marked BY <2>0
    <2> QED BY Zenon, <2>1, <2>2, <2>3, <2>4
  <1> QED BY Zenon, <1>1, <1>7, <1>8, <1>9, <1>10, <1>11, <1>12, GenerationsFrame
          DEF pops, queries

\* A statement lost to a deadlock takes the frame's own view of the table with it.
LEMMA RecoverEnterSafe == SafeInv /\ frame_recover_enter => SafeInv'
  <1> SUFFICES ASSUME SafeInv, frame_recover_enter PROVE SafeInv' BY Zenon
  <1> USE DEF SafeInv, frame_recover_enter
  <1>1. TypeOK' BY ZenonT(30) DEF TypeOK, origin, intake, table, entry, queries, pops
  <1>2. PositionsOrdered'
    BY DEF PositionsOrdered, TypeOK, origin, intake, table
  <1>3. FrameOK' BY Zenon DEF FrameOK, Quiet, origin, intake, table
  <1>4. /\ FrameKeysUnstamped' /\ TruncateSeen' /\ FrameRowsCurrent' /\ StagedRowsGuarded'
    BY Zenon DEF FrameKeysUnstamped, TruncateSeen, FrameRowsCurrent, StagedRowsGuarded
  <1>5. EntryOK'
    BY DEF EntryOK, is_recording, PositionsOrdered, TypeOK, entry, table, intake
  <1> QED BY Zenon, <1>1, <1>2, <1>3, <1>4, <1>5, HistoryFrame, RecordingFrame,
             GenerationsFrame, PopulationsFrame, CachedFrame
          DEF origin, table, entry, queries, pops

\* frame_recover empties the relation and outlives every staged copy of it.
LEMMA RecoverSafe == SafeInv /\ frame_recover => SafeInv'
  <1> SUFFICES ASSUME SafeInv, frame_recover PROVE SafeInv' BY Zenon
  <1> USE DEF SafeInv
  <1>1. /\ task \in {"flush", "commit"} /\ cache_table_invalidate
        /\ cache' = NoRows /\ img' = NoRows /\ Caught
        /\ keys_stamp({}, {}, TRUE, marked)
        /\ UNCHANGED <<origin, frame_open, pops>>
        /\ task' \in {"idle", "drain"}
    BY Zenon DEF frame_recover, LoopEnd
  <1>2. /\ FlushedTo \in Nat /\ marked <= FlushedTo /\ FlushedTo <= Len(wal)
        /\ received <= marked /\ stamped <= marked /\ marked \in Nat /\ received \in Nat
        /\ Quiet(marked, FlushedTo) /\ OriginAt(marked) = OriginAt(FlushedTo)
    BY Zenon, <1>1, CaughtFacts
  <1>12. /\ History' /\ PositionsOrdered' /\ FrameOK' /\ FrameKeysUnstamped'
         /\ TruncateSeen' /\ PopulationsOK'
    BY Zenon, <1>1, CaughtFacts
  <1>3. /\ delivered' = FlushedTo /\ marked' = FlushedTo /\ replayed' = FlushedTo
        /\ stamped' = FlushedTo /\ received' = FlushedTo
        /\ keepalive' = 0 /\ frame_state' = "Idle" /\ frame_invalidations' = {}
        /\ frame_deleted_keys' = {} /\ frame_toast_stale_keys' = {}
        /\ frame_truncated' = FALSE
    BY Zenon, <1>1 DEF Caught
  <1> HIDE DEF FlushedTo
  <1>4. /\ \A g \in Gens : ~population_is_current(g)'
        /\ qgen' \in [Queries -> 0..MaxGen]
        /\ \A q \in Queries : qgen'[q] = 0
        /\ invalidated' \in [Queries -> BOOLEAN] /\ started' \in [Queries -> BOOLEAN]
        /\ view' \in [Queries -> {"None", "Loading", "Ready", "Invalidated"}]
        /\ UNCHANGED <<generation_counter, readmits>>
    BY Zenon, <1>1, InvalidatedNoneCurrent DEF pops
  <1>5. Stamping({}, {}, TRUE, marked) BY Zenon, <1>1, <1>2, StampedEntry
  <1>6. TypeOK'
    <2>1. NoRows \in Image BY Zenon DEF NoRows, Image, Row
    <2> QED BY ZenonT(30), <1>1, <1>2, <1>3, <1>4, <1>5, <2>1 DEF Stamping, TypeOK, origin, pops
  <1>7. EntryOK'
    <2>1. TypeOK /\ EntryOK BY Zenon
    <2>2. /\ marked \in Nat /\ FlushedTo \in Nat /\ marked <= FlushedTo /\ received <= FlushedTo
          /\ stamped' = FlushedTo /\ received' = FlushedTo
      BY <1>2, <1>3
    <2> HIDE DEF SafeInv
    <2> QED BY ZenonT(30), <1>5, <2>1, <2>2, StampedOK
  <1>8. RecordingExact' BY Zenon, <1>1, <1>5 DEF Stamping, RecordingExact, pops
  <1>9. CachedRowsCurrent' /\ FrameRowsCurrent'
    BY Zenon, <1>1 DEF CachedRowsCurrent, FrameRowsCurrent, NoRows
  <1>10. StagedRowsGuarded' BY Zenon, <1>4 DEF StagedRowsGuarded
  <1>11. GenerationsOK' BY <1>1, <1>4 DEF GenerationsOK, TypeOK, pops
  <1> QED BY Zenon, <1>6, <1>7, <1>8, <1>9, <1>10, <1>11, <1>12
=============================================================================
