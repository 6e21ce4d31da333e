------------------------ MODULE PopulationMergeRegister ------------------------
(***************************************************************************)
(* SafeInv is inductive, third part: registration, eviction,               *)
(* readmission, the read of a population and its retirement.               *)
(***************************************************************************)
EXTENDS PopulationMergeIntake

-----------------------------------------------------------------------------
(* SafeInv: registration, eviction and population.                         *)

\* cached_queries and the view forget a query: its populations are no longer current.
LEMMA EntryRemoveFacts ==
    ASSUME TypeOK, GenerationsOK, NEW q \in Queries, EntryRemove(q), UNCHANGED popq
    PROVE  /\ QueriesType'
           /\ \A p \in Queries : qgen'[p] <= generation_counter'
           /\ generation_counter' = generation_counter
           /\ \A g \in Gens : population_is_current(g)' => population_is_current(g)
  <1>1. QueriesType' BY BoundAssumption DEF EntryRemove, QueriesType, TypeOK
  <1>2. generation_counter' = generation_counter /\ generation_counter \in Nat
    BY BoundAssumption DEF EntryRemove, TypeOK
  <1>3. \A p \in Queries : qgen'[p] = IF p = q THEN 0 ELSE qgen[p]
    BY Zenon DEF EntryRemove, TypeOK
  <1>4. \A p \in Queries : invalidated'[p] = IF p = q THEN FALSE ELSE invalidated[p]
    BY Zenon DEF EntryRemove, TypeOK
  <1>5. \A p \in Queries : qgen'[p] <= generation_counter'
    BY <1>2, <1>3 DEF GenerationsOK
  <1>6. ASSUME NEW g \in Gens, population_is_current(g)' PROVE population_is_current(g)
    <2>1. popq[g] \in Queries /\ g # 0 BY BoundAssumption DEF TypeOK, Gens
    <2>2. qgen'[popq[g]] = g /\ ~invalidated'[popq[g]] BY Zenon, <1>6 DEF population_is_current
    <2> QED BY Zenon, <1>3, <1>4, <2>1, <2>2 DEF population_is_current
  <1> QED BY Zenon, <1>1, <1>2, <1>5, <1>6

\* An eviction or FIFO invalidation between two commands.
LEMMA EvictSafe ==
    ASSUME SafeInv, NEW q \in Queries, cache_query_evict(q)
    PROVE  SafeInv'
  <1> USE DEF SafeInv
  <1>1. /\ task = "idle" /\ task' \in {"idle", "drain"} /\ EntryRemove(q)
        /\ UNCHANGED <<origin, intake, replay, table, entry, pops>>
    BY Zenon DEF cache_query_evict, LoopEnd
  <1>2. /\ QueriesType'
        /\ \A p \in Queries : qgen'[p] <= generation_counter'
        /\ generation_counter' = generation_counter
        /\ \A g \in Gens : population_is_current(g)' => population_is_current(g)
    BY Zenon, <1>1, EntryRemoveFacts DEF pops
  <1>3. TypeOK'
    BY Zenon, <1>1, <1>2 DEF QueriesType, TypeOK, origin, intake, replay, table, entry, pops
  <1>4. FrameOK' BY Zenon, <1>1, FrameKept DEF origin, replay, table
  <1>5. TruncateSeen' /\ StagedRowsGuarded'
    BY Zenon, <1>1, <1>2 DEF TruncateSeen, StagedRowsGuarded, Held, Outdated, OriginAt, origin,
                      replay, entry, pops
  <1>6. GenerationsOK' BY Zenon, <1>1, <1>2 DEF GenerationsOK, pops
  <1> QED BY Zenon, <1>1, <1>3, <1>4, <1>5, <1>6, HistoryFrame, PositionsFrame, UnstampedFrame,
             RecordingFrame, EntryFrame, PopulationsFrame, CachedFrame, RowsFrame
          DEF origin, intake, replay, table, entry, pops

\* Writing an entry under a new generation makes no older population current.
LEMMA EntryWriteFacts ==
    ASSUME TypeOK, GenerationsOK, NEW q \in Queries, NEW loading \in BOOLEAN,
           EntryWrite(q, loading), readmits' \subseteq Queries
    PROVE  /\ QueriesType'
           /\ \A p \in Queries : qgen'[p] <= generation_counter'
           /\ generation_counter' = generation_counter + 1
           /\ generation_counter \in Nat /\ generation_counter + 1 \in Gens
           /\ \A p \in Queries : qgen'[p] = IF p = q THEN generation_counter + 1 ELSE qgen[p]
           /\ \A p \in Queries : invalidated'[p] = IF p = q THEN FALSE ELSE invalidated[p]
  <1>1. /\ generation_counter \in Nat /\ MaxGen \in Nat
        /\ generation_counter + 1 \in 0..MaxGen /\ generation_counter + 1 \in 1..MaxGen
        /\ generation_counter' = generation_counter + 1
    BY BoundAssumption DEF EntryWrite, TypeOK
  <1>2. /\ qgen' = [qgen EXCEPT ![q] = generation_counter + 1]
        /\ invalidated' = [invalidated EXCEPT ![q] = FALSE]
        /\ started' = [started EXCEPT ![q] = loading]
        /\ view' = [view EXCEPT ![q] = IF loading THEN "Loading" ELSE "Ready"]
    BY Zenon DEF EntryWrite
  <1>3. QueriesType' BY Zenon, <1>1, <1>2 DEF QueriesType, TypeOK
  <1>4. \A p \in Queries : qgen'[p] = IF p = q THEN generation_counter + 1 ELSE qgen[p]
    BY Zenon, <1>2 DEF TypeOK
  <1>5. \A p \in Queries : invalidated'[p] = IF p = q THEN FALSE ELSE invalidated[p]
    BY Zenon, <1>2 DEF TypeOK
  <1>6. ASSUME NEW p \in Queries PROVE qgen'[p] <= generation_counter'
    <2>1. qgen[p] <= generation_counter /\ qgen[p] \in Nat
      BY BoundAssumption DEF GenerationsOK, TypeOK
    <2> QED BY <1>1, <1>4, <2>1
  <1> QED BY Zenon, <1>1, <1>3, <1>4, <1>5, <1>6 DEF Gens

\* Dispatching a population for a fresh generation.
LEMMA StartSafe ==
    ASSUME SafeInv, NEW q \in Queries, task = "idle", task' \in {"idle", "drain"},
           EntryWrite(q, TRUE), population_start(q, generation_counter + 1),
           readmits' \subseteq Queries, UNCHANGED <<origin, intake, replay, table>>
    PROVE  SafeInv'
  <1> USE DEF SafeInv
  <1> DEFINE n == generation_counter + 1
  <1>1. /\ QueriesType'
        /\ \A p \in Queries : qgen'[p] <= generation_counter'
        /\ generation_counter' = n
        /\ generation_counter \in Nat /\ n \in Gens
        /\ \A p \in Queries : qgen'[p] = IF p = q THEN n ELSE qgen[p]
        /\ \A p \in Queries : invalidated'[p] = IF p = q THEN FALSE ELSE invalidated[p]
    BY Zenon, EntryWriteFacts
  <1>2. /\ recording' = recording \cup {n} /\ floor' = [floor EXCEPT ![n] = received]
        /\ popq' = [popq EXCEPT ![n] = q]
        /\ phase' = [phase EXCEPT ![n] = "dispatched"]
        /\ UNCHANGED <<keys, stale_keys, overflowed, aborted_below, read_at, snapshot, staged>>
    BY Zenon DEF population_start, activate
  <1>3. phase[n] = "none" /\ n \notin recording
    BY <1>1 DEF GenerationsOK, RecordingExact
  <1> HIDE DEF n
  <1>4. TypeOK'
    BY Zenon, <1>1, <1>2 DEF QueriesType, TypeOK, origin, intake, replay, table
  <1>5. RecordingExact' BY <1>1, <1>2, <1>3 DEF RecordingExact, TypeOK
  <1>6. EntryOK'
    <2>1. ~is_recording => \A k \in Keys : keys[k] = 0 /\ stale_keys[k] = 0 BY Zenon DEF EntryOK
    <2>2. is_recording' BY Zenon, <1>2 DEF is_recording
    <2>3. \A g \in recording' : floor'[g] <= received
      BY <1>1, <1>2 DEF EntryOK, TypeOK
    <2> QED BY Zenon, <1>2, <2>2, <2>3 DEF EntryOK, replay, table
  <1>7. GenerationsOK'
    <2>1. ASSUME NEW g \in Gens, phase'[g] # "none" PROVE g <= n
      <3>1. CASE g = n BY Zenon, <1>1, <3>1 DEF Gens
      <3>2. CASE g # n
        <4>1. g <= generation_counter BY Zenon, <1>2, <2>1, <3>2 DEF GenerationsOK, TypeOK
        <4> QED BY <1>1, <4>1 DEF n, Gens
      <3> QED BY Zenon, <3>1, <3>2
    <2> QED BY Zenon, <1>1, <2>1 DEF GenerationsOK
  <1>8. ASSUME NEW g \in Gens, Held(g)'
        PROVE  /\ Held(g) /\ g # n /\ popq'[g] = popq[g] /\ floor'[g] = floor[g]
               /\ phase'[g] = phase[g]
               /\ population_is_current(g)' => population_is_current(g)
    <2>1. g # n BY Zenon, <1>2, <1>8 DEF Held, TypeOK
    <2>2. phase'[g] = phase[g] /\ popq'[g] = popq[g] /\ floor'[g] = floor[g]
      BY Zenon, <1>2, <2>1 DEF TypeOK
    <2>3. Held(g) BY Zenon, <1>8, <2>2 DEF Held
    <2>4. population_is_current(g)' => population_is_current(g)
      BY Zenon, <1>1, <2>1, <2>2 DEF population_is_current, TypeOK
    <2> QED BY Zenon, <2>1, <2>2, <2>3, <2>4
  <1>9. PopulationsOK'
    <2>1. ASSUME NEW g \in Gens, Held(g)'
          PROVE  ResultAt(popq[g], read_at[g])' = ResultAt(popq[g], read_at[g])
      BY Zenon, <1>2, <1>8, <2>1 DEF ResultAt, OriginAt, origin
    <2> QED BY Zenon, <1>2, <1>8, <2>1 DEF PopulationsOK, origin, table
  <1>10. TruncateSeen' BY Zenon, <1>2, <1>8 DEF TruncateSeen, replay
  <1>11. StagedRowsGuarded'
    BY Zenon, <1>2, <1>8 DEF StagedRowsGuarded, Outdated, OriginAt, origin, replay
  <1>12. FrameOK' BY Zenon, FrameKept DEF origin, replay, table
  <1> QED BY Zenon, <1>4, <1>5, <1>6, <1>7, <1>9, <1>10, <1>11, <1>12, HistoryFrame,
             PositionsFrame, UnstampedFrame, CachedFrame, RowsFrame
          DEF origin, intake, replay, table

\* A Register, whether subsumed or populated.
LEMMA RegisterSafe ==
    ASSUME SafeInv, NEW q \in Queries, query_register(q)
    PROVE  SafeInv'
  <1> USE DEF SafeInv
  <1>1. /\ task = "idle" /\ task' \in {"idle", "drain"}
        /\ UNCHANGED <<origin, intake, replay, table, readmits>>
        /\ \/ EntryWrite(q, FALSE) /\ UNCHANGED <<entry, pops>>
           \/ EntryWrite(q, TRUE) /\ population_start(q, generation_counter + 1)
    BY Zenon DEF query_register, LoopEnd
  <1>2. readmits' \subseteq Queries BY Zenon, <1>1 DEF TypeOK
  <1>3. CASE EntryWrite(q, TRUE) /\ population_start(q, generation_counter + 1)
    BY Zenon, <1>1, <1>2, <1>3, StartSafe
  <1>4. CASE EntryWrite(q, FALSE) /\ UNCHANGED <<entry, pops>>
    <2> DEFINE n == generation_counter + 1
    <2>1. /\ QueriesType'
          /\ \A p \in Queries : qgen'[p] <= generation_counter'
          /\ generation_counter' = n
          /\ generation_counter \in Nat /\ n \in Gens
          /\ \A p \in Queries : qgen'[p] = IF p = q THEN n ELSE qgen[p]
          /\ \A p \in Queries : invalidated'[p] = IF p = q THEN FALSE ELSE invalidated[p]
      BY ZenonT(30), <1>2, <1>4, EntryWriteFacts
    <2>2. TypeOK'
      BY Zenon, <1>1, <1>4, <2>1
         DEF QueriesType, TypeOK, origin, intake, replay, table, entry, pops
    <2>3. GenerationsOK'
      <3>1. ASSUME NEW g \in Gens, phase'[g] # "none" PROVE g <= n
        <4>1. g <= generation_counter BY Zenon, <1>4, <3>1 DEF GenerationsOK, pops
        <4> QED BY <2>1, <4>1 DEF Gens
      <3> QED BY Zenon, <2>1, <3>1 DEF GenerationsOK
    <2>4. ASSUME NEW g \in Gens, Held(g), population_is_current(g)'
          PROVE  population_is_current(g)
      <3>1. g # n
        <4>1. g <= generation_counter BY Zenon, <2>4 DEF GenerationsOK, Held
        <4> QED BY <2>1, <4>1 DEF Gens
      <3>2. popq[g] \in Queries BY Zenon DEF TypeOK
      <3>3. qgen'[popq[g]] = g /\ ~invalidated'[popq[g]]
        BY Zenon, <1>4, <2>4 DEF population_is_current, pops
      <3> HIDE DEF n
      <3> QED BY ZenonT(30), <2>1, <3>1, <3>2, <3>3 DEF population_is_current
    <2>5. TruncateSeen' /\ StagedRowsGuarded'
      BY Zenon, <1>1, <1>4, <2>4 DEF TruncateSeen, StagedRowsGuarded, Held, Outdated, OriginAt,
                              origin, replay, entry, pops
    <2>6. FrameOK' BY Zenon, <1>1, FrameKept DEF origin, replay, table
    <2> QED BY Zenon, <1>1, <1>4, <2>2, <2>3, <2>5, <2>6, HistoryFrame, PositionsFrame,
               UnstampedFrame, RecordingFrame, EntryFrame, PopulationsFrame, CachedFrame,
               RowsFrame
            DEF origin, intake, replay, table, entry, pops
  <1> QED BY Zenon, <1>1, <1>3, <1>4

\* A Readmit of a pinned query.
LEMMA ReadmitSafe ==
    ASSUME SafeInv, NEW q \in Queries, query_readmit(q)
    PROVE  SafeInv'
  <1> USE DEF SafeInv
  <1>1. /\ task = "idle" /\ task' \in {"idle", "drain"}
        /\ UNCHANGED <<origin, intake, replay, table>>
        /\ \/ EntryWrite(q, TRUE) /\ population_start(q, generation_counter + 1)
           \/ UNCHANGED <<generation_counter, qgen, invalidated, started, view, entry, pops>>
    BY Zenon DEF query_readmit, LoopEnd
  <1>2. readmits' \subseteq Queries BY Zenon DEF query_readmit, TypeOK
  <1>3. CASE EntryWrite(q, TRUE) /\ population_start(q, generation_counter + 1)
    BY Zenon, <1>1, <1>2, <1>3, StartSafe
  <1>4. CASE UNCHANGED <<generation_counter, qgen, invalidated, started, view, entry, pops>>
    <2>1. TypeOK'
      BY Zenon, <1>1, <1>2, <1>4 DEF TypeOK, origin, intake, replay, table, entry, pops
    <2>2. FrameOK' BY Zenon, <1>1, FrameKept DEF origin, replay, table
    <2> QED BY Zenon, <1>1, <1>4, <2>1, <2>2, HistoryFrame, PositionsFrame,
               UnstampedFrame, RecordingFrame, EntryFrame, PopulationsFrame, CachedFrame,
               RowsFrame, GenerationsFrame, TruncateFrame, StagedFrame
            DEF origin, intake, replay, table, entry, pops
  <1> QED BY Zenon, <1>1, <1>3, <1>4

\* A population worker reads the origin at the end of the log.
LEMMA StreamSafe ==
    ASSUME SafeInv, Committed, NEW g \in Gens, population_stream(g)
    PROVE  SafeInv'
  <1> USE DEF SafeInv
  <1>1. /\ phase[g] = "dispatched" /\ phase' = [phase EXCEPT ![g] = "read"]
        /\ read_at' = [read_at EXCEPT ![g] = Len(wal)]
        /\ staged' = [staged EXCEPT ![g] = ResultAt(popq[g], Len(wal))]
        /\ UNCHANGED <<origin, intake, replay, table, entry, queries, popq, snapshot, task>>
    BY Zenon DEF population_stream, ResultAt, Current
  <1>2. Len(wal) \in Nat /\ received \in Nat /\ replayed \in Nat /\ replayed <= Len(wal)
        /\ received <= Len(wal)
    BY DEF TypeOK, PositionsOrdered
  <1>3. OriginAt(Len(wal)) \in Image BY <1>2, OriginAtType
  <1>4. ResultAt(popq[g], Len(wal)) \in Image
    BY Zenon, <1>3 DEF ResultAt, Image, Row
  <1>5. TypeOK'
    BY Zenon, <1>1, <1>2, <1>4 DEF TypeOK, origin, intake, replay, table, entry, queries
  <1>6. FrameOK'
    BY Zenon, <1>1 DEF FrameOK, Quiet, origin, intake, replay, table
  <1>7. RecordingExact' /\ GenerationsOK'
    BY Zenon, <1>1 DEF RecordingExact, GenerationsOK, entry, queries, TypeOK
  <1>8. ASSUME NEW h \in Gens, h # g
        PROVE  /\ (Held(h)' <=> Held(h)) /\ phase'[h] = phase[h] /\ read_at'[h] = read_at[h]
               /\ staged'[h] = staged[h] /\ popq'[h] = popq[h] /\ snapshot'[h] = snapshot[h]
               /\ (population_is_current(h)' <=> population_is_current(h))
               /\ ResultAt(popq[h], read_at[h])' = ResultAt(popq[h], read_at[h])
    BY Zenon, <1>1, <1>8
       DEF Held, TypeOK, population_is_current, queries, ResultAt, OriginAt, origin
  <1>9. /\ phase'[g] = "read" /\ read_at'[g] = Len(wal)
        /\ staged'[g] = ResultAt(popq[g], Len(wal))
        /\ ResultAt(popq[g], read_at[g])' = ResultAt(popq[g], Len(wal))
    BY Zenon, <1>1 DEF TypeOK, ResultAt, OriginAt, origin
  <1>10. wal # <<>> => wal[Len(wal)].last BY Zenon DEF Committed
  <1>11. Len(wal) # 0 => wal # <<>> OBVIOUS
  <1>12. PopulationsOK'
    <2> SUFFICES ASSUME NEW h \in Gens, Held(h)'
                 PROVE  /\ read_at'[h] <= Len(wal)
                        /\ read_at'[h] # 0 => wal[read_at'[h]].last
                        /\ phase'[h] # "read" => read_at'[h] <= snapshot'[h]
                        /\ phase'[h] = "merging" => snapshot'[h] <= received
                        /\ received < read_at'[h] =>
                              staged'[h] = ResultAt(popq[h], read_at[h])'
      BY Zenon, <1>1 DEF PopulationsOK, origin, table
    <2>1. CASE h = g
      <3>1. /\ read_at'[g] = Len(wal) /\ phase'[g] = "read"
            /\ staged'[g] = ResultAt(popq[g], read_at[g])'
        BY Zenon, <1>9
      <3> QED BY <1>2, <1>10, <1>11, <2>1, <3>1
    <2>2. CASE h # g BY Zenon, <1>8, <2>2 DEF PopulationsOK
    <2> QED BY Zenon, <2>1, <2>2
  <1>13. TruncateSeen'
    BY Zenon, <1>1, <1>2, <1>8, <1>9 DEF TruncateSeen, replay
  <1>14. StagedRowsGuarded'
    <2> SUFFICES ASSUME frame_state # "Recovering", NEW h \in Gens, Held(h)',
                        population_is_current(h)', read_at'[h] <= replayed,
                        NEW k \in Keys, staged'[h][k] # Absent
                 PROVE  staged'[h][k] = OriginAt(replayed)[k] \/ Outdated(h, k)'
      BY Zenon, <1>1 DEF StagedRowsGuarded, OriginAt, origin, replay
    <2>1. CASE h = g
      <3>1. replayed = Len(wal)
        <4>1. /\ read_at'[g] = Len(wal) /\ replayed \in Nat /\ Len(wal) \in Nat
              /\ replayed <= Len(wal)
          BY Zenon, <1>2, <1>9
        <4> QED BY <2>1, <4>1
      <3> QED BY Zenon, <1>9, <2>1, <3>1 DEF ResultAt
    <2>2. CASE h # g
      <3>1. staged[h][k] = OriginAt(replayed)[k] \/ Outdated(h, k)
        BY Zenon, <1>8, <2>2 DEF StagedRowsGuarded
      <3> QED BY Zenon, <1>1, <1>8, <2>2, <3>1 DEF Outdated, replay, entry
    <2> QED BY Zenon, <2>1, <2>2
  <1> QED BY Zenon, <1>1, <1>5, <1>6, <1>7, <1>12, <1>13, <1>14, HistoryFrame, PositionsFrame,
             UnstampedFrame, EntryFrame, CachedFrame, RowsFrame
          DEF origin, intake, replay, table, entry

-----------------------------------------------------------------------------
(* SafeInv: retiring a population.                                         *)

\* Dropping one population's floor keeps what the others rely on.
LEMMA DeactivateFacts ==
    ASSUME TypeOK, EntryOK, NEW g \in Gens, deactivate(g), UNCHANGED <<stamped, received>>
    PROVE  /\ recording' = recording \ {g} /\ EntryOK'
           /\ keys' \in [Keys -> Nat] /\ stale_keys' \in [Keys -> Nat]
           /\ overflowed' \in BOOLEAN /\ aborted_below' \in Nat /\ floor' \in [Gens -> Nat]
           /\ \A k \in Keys : keys'[k] \in {0, keys[k]}
           /\ \A h \in recording' : \A k \in Keys :
                 /\ floor'[h] = floor[h] /\ overflowed' = overflowed
                 /\ keys[k] > floor[h] => keys'[k] = keys[k]
                 /\ stale_keys[k] > floor[h] => stale_keys'[k] = stale_keys[k]
  <1> DEFINE rec == recording \ {g}
  <1>1. /\ recording' = rec
        /\ keys' = [k \in Keys |-> IF \E h \in rec : keys[k] > floor[h] THEN keys[k] ELSE 0]
        /\ stale_keys' =
              [k \in Keys |-> IF \E h \in rec : stale_keys[k] > floor[h]
                              THEN stale_keys[k] ELSE 0]
        /\ overflowed' = (overflowed /\ rec # {})
        /\ aborted_below' = IF rec = {} THEN 0 ELSE aborted_below
        /\ floor' = [floor EXCEPT ![g] = 0]
    BY Zenon DEF deactivate, Pruned
  <1>2. \A k \in Keys :
          /\ keys'[k] = IF \E h \in rec : keys[k] > floor[h] THEN keys[k] ELSE 0
          /\ stale_keys'[k] = IF \E h \in rec : stale_keys[k] > floor[h]
                              THEN stale_keys[k] ELSE 0
    BY Zenon, <1>1
  <1>3. keys' \in [Keys -> Nat] /\ stale_keys' \in [Keys -> Nat]
    <2>1. \A k \in Keys : keys[k] \in Nat /\ stale_keys[k] \in Nat BY Zenon DEF TypeOK
    <2> QED BY Zenon, <1>1, <2>1
  <1>4. overflowed' \in BOOLEAN /\ aborted_below' \in Nat /\ floor' \in [Gens -> Nat]
    BY Zenon, <1>1 DEF TypeOK
  <1>5. \A h \in rec : floor'[h] = floor[h] BY Zenon, <1>1 DEF TypeOK
  <1>6. \A h \in rec : overflowed' = overflowed BY Zenon, <1>1 DEF TypeOK
  <1> HIDE DEF rec
  <1>7. EntryOK'
    <2>1. ASSUME NEW k \in Keys, recording' = {} \/ overflowed'
          PROVE  keys'[k] = 0 /\ stale_keys'[k] = 0
      <3>1. CASE rec = {} BY Zenon, <1>2, <3>1
      <3>2. CASE rec # {} /\ overflowed
        BY Zenon, <1>2, <3>2 DEF EntryOK
      <3> QED BY ZenonT(30), <1>1, <2>1, <3>1, <3>2
    <2>2. ASSUME NEW k \in Keys PROVE keys'[k] <= stamped /\ stale_keys'[k] <= stamped
      <3>1. /\ keys'[k] = keys[k] \/ keys'[k] = 0
            /\ stale_keys'[k] = stale_keys[k] \/ stale_keys'[k] = 0
        BY Zenon, <1>2
      <3> QED BY <3>1 DEF EntryOK, TypeOK
    <2>3. \A h \in rec : floor'[h] <= received BY Zenon, <1>5 DEF EntryOK, rec
    <2> QED BY Zenon, <1>1, <2>1, <2>2, <2>3 DEF EntryOK, is_recording
  <1>8. \A h \in rec : \A k \in Keys :
          /\ keys[k] > floor[h] => keys'[k] = keys[k]
          /\ stale_keys[k] > floor[h] => stale_keys'[k] = stale_keys[k]
    BY Zenon, <1>2
  <1>9. \A k \in Keys : keys'[k] \in {0, keys[k]} BY Zenon, <1>2
  <1>10. recording' = recording \ {g} BY Zenon, <1>1 DEF rec
  <1> QED BY Zenon, <1>1, <1>3, <1>4, <1>5, <1>6, <1>7, <1>8, <1>9, <1>10

\* A population that ends, merged or not, takes its floor and its copies along.
LEMMA RetireSafe ==
    ASSUME SafeInv, NEW g \in Gens, deactivate(g), PopDone(g), Held(g) \/ phase[g] = "dispatched",
           UNCHANGED <<origin, intake, replay, table>>,
           QueriesType', \A q \in Queries : qgen'[q] <= generation_counter',
           generation_counter' = generation_counter,
           \A h \in Gens \ {g} : population_is_current(h)' => population_is_current(h),
           task \in {"idle", "drain"}, task' \in {"idle", "drain"}
    PROVE  SafeInv'
  <1> USE DEF SafeInv
  <1>1. /\ phase' = [phase EXCEPT ![g] = "done"]
        /\ staged' = [staged EXCEPT ![g] = NoRows]
        /\ read_at' = [read_at EXCEPT ![g] = 0]
        /\ snapshot' = [snapshot EXCEPT ![g] = 0]
        /\ popq' = popq
    BY Zenon DEF PopDone
  <1>2. /\ recording' = recording \ {g} /\ EntryOK'
        /\ keys' \in [Keys -> Nat] /\ stale_keys' \in [Keys -> Nat]
        /\ overflowed' \in BOOLEAN /\ aborted_below' \in Nat /\ floor' \in [Gens -> Nat]
        /\ \A h \in recording' : \A k \in Keys :
              /\ floor'[h] = floor[h] /\ overflowed' = overflowed
              /\ keys[k] > floor[h] => keys'[k] = keys[k]
              /\ stale_keys[k] > floor[h] => stale_keys'[k] = stale_keys[k]
    BY Zenon, DeactivateFacts DEF replay, table
  <1>3. TypeOK'
    <2>1. NoRows \in Image BY Zenon DEF NoRows, Image, Row
    <2> QED BY Zenon, <1>1, <1>2, <2>1 DEF QueriesType, TypeOK, origin, intake, replay, table
  <1>4. ASSUME NEW h \in Gens
        PROVE  phase'[h] = IF h = g THEN "done" ELSE phase[h]
    BY Zenon, <1>1 DEF TypeOK
  <1>5. RecordingExact' BY Zenon, <1>2, <1>4 DEF RecordingExact
  <1>6. GenerationsOK' BY Zenon, <1>4 DEF GenerationsOK, Held
  <1>7. ASSUME NEW h \in Gens, Held(h)'
        PROVE  /\ h # g /\ Held(h) /\ phase'[h] = phase[h] /\ read_at'[h] = read_at[h]
               /\ staged'[h] = staged[h] /\ popq'[h] = popq[h] /\ snapshot'[h] = snapshot[h]
               /\ ResultAt(popq[h], read_at[h])' = ResultAt(popq[h], read_at[h])
               /\ h \in recording'
    <2>1. h # g /\ Held(h) BY Zenon, <1>4, <1>7 DEF Held
    <2>2. /\ phase'[h] = phase[h] /\ read_at'[h] = read_at[h]
          /\ staged'[h] = staged[h] /\ popq'[h] = popq[h] /\ snapshot'[h] = snapshot[h]
      BY Zenon, <1>1, <2>1 DEF TypeOK
    <2>3. h \in recording' BY Zenon, <1>2, <2>1 DEF RecordingExact, Held
    <2> QED BY Zenon, <2>1, <2>2, <2>3 DEF ResultAt, OriginAt, origin
  <1>8. PopulationsOK' BY Zenon, <1>7 DEF PopulationsOK, origin, table
  <1>9. TruncateSeen' BY Zenon, <1>7 DEF TruncateSeen, replay
  <1>10. StagedRowsGuarded'
    <2> SUFFICES ASSUME frame_state # "Recovering", NEW h \in Gens, Held(h)',
                        population_is_current(h)', read_at'[h] <= replayed,
                        NEW k \in Keys, staged'[h][k] # Absent
                 PROVE  staged'[h][k] = OriginAt(replayed)[k] \/ Outdated(h, k)'
      BY Zenon DEF StagedRowsGuarded, OriginAt, origin, replay
    <2>1. staged[h][k] = OriginAt(replayed)[k] \/ Outdated(h, k)
      BY Zenon, <1>7 DEF StagedRowsGuarded
    <2>2. h \in recording' /\ staged'[h] = staged[h] BY Zenon, <1>7
    <2> QED BY Zenon, <1>2, <2>1, <2>2 DEF Outdated, replay
  <1>11. FrameOK' BY Zenon, FrameKept DEF origin, replay, table
  <1> QED BY Zenon, <1>2, <1>3, <1>5, <1>6, <1>8, <1>9, <1>10, <1>11, HistoryFrame,
             PositionsFrame, UnstampedFrame, CachedFrame, RowsFrame
          DEF origin, intake, replay, table

\* The queries of a superseded population stay as they are.
LEMMA QueriesKept ==
    ASSUME TypeOK, GenerationsOK, UNCHANGED <<queries, popq>>
    PROVE  /\ QueriesType' /\ \A q \in Queries : qgen'[q] <= generation_counter'
           /\ generation_counter' = generation_counter
           /\ \A h \in Gens : population_is_current(h)' => population_is_current(h)
  BY Zenon DEF TypeOK, GenerationsOK, QueriesType, queries, population_is_current

\* A merge that is no longer current is dropped.
LEMMA ReapSafe ==
    ASSUME SafeInv, NEW g \in Gens, DrainReap(g) \/ MergeSuperseded(g)
    PROVE  SafeInv'
  <1> USE DEF SafeInv
  <1>1. /\ deactivate(g) /\ PopDone(g) /\ Held(g)
        /\ UNCHANGED <<origin, intake, replay, table, queries>>
        /\ task \in {"idle", "drain"} /\ task' \in {"idle", "drain"}
    BY Zenon DEF DrainReap, MergeSuperseded, Draining, HeapTop, ChunkDue, Held, LoopEnd
  <1>2. popq' = popq BY Zenon, <1>1 DEF PopDone
  <1> QED BY Zenon, <1>1, <1>2, QueriesKept, RetireSafe

\* A failed or aborted population is dropped.
LEMMA AbandonSafe ==
    ASSUME SafeInv, NEW g \in Gens, population_failed(g) \/ merge_apply_abandon(g)
    PROVE  SafeInv'
  <1> USE DEF SafeInv
  <1>1. /\ deactivate(g) /\ PopDone(g) /\ EntryRemove(popq[g])
        /\ Held(g) \/ phase[g] = "dispatched"
        /\ UNCHANGED <<origin, intake, replay, table>>
        /\ task \in {"idle", "drain"} /\ task' \in {"idle", "drain"}
    BY Zenon DEF population_failed, merge_apply_abandon, ChunkDue, Held, LoopEnd
  <1>2. popq' = popq /\ popq[g] \in Queries BY Zenon, <1>1 DEF PopDone, TypeOK
  <1> QED BY Zenon, <1>1, <1>2, EntryRemoveFacts, RetireSafe
=============================================================================
