------------------------------ MODULE CdcApply ------------------------------
(***************************************************************************)
(* The decide pass over one batch of row events (writer/cdc/apply.rs,      *)
(* membership.rs, frame.rs): every handler maps the writer's state w (see  *)
(* SegmentEval) to the next.  The membership of a row is read before the   *)
(* batch, in w.snapshot; the writes collect in w.cache, which the batch's  *)
(* COMMIT installs.                                                        *)
(***************************************************************************)
EXTENDS SegmentEval

--------------------------------------------------------------------------
(* Row writes (frame.rs).  A key deleted in this batch is remembered until *)
(* it is written again; while a population reads the relation, w.lost and  *)
(* w.stale record the keys its merge must leave out or cannot merge.       *)

frame_cache_upsert(w, t, row) ==
    [w EXCEPT !.cache[t] = (@ \ CachedRow(w.cache, t, row)) \cup {row},
              !.deleted = @ \ {KeyOf(t, row)}]
frame_cache_delete_unrecorded(w, t, row) ==
    [w EXCEPT !.cache[t] = @ \ CachedRow(w.cache, t, row),
              !.deleted = @ \cup {KeyOf(t, row)}]
is_recording(w, t) == t \in w.recording
frame_cache_delete(w, t, row) ==
    [frame_cache_delete_unrecorded(w, t, row) EXCEPT
        !.lost = IF is_recording(w, t) THEN @ \cup {KeyOf(t, row)} ELSE @]
population_deleted_key_cancel(w, t, row) == [w EXCEPT !.lost = @ \ {KeyOf(t, row)}]
toast_stale_key_record(w, t, row) == [w EXCEPT !.stale = @ \cup {KeyOf(t, row)}]

eval_candidates(w, t, row) == candidates_point(w.uqs[t].eval_index, row)
memo_frame_accumulate(w, fps) == [w EXCEPT !.memos = @ \cup fps]
mv_dirty_mark(w, fps) == [w EXCEPT !.dirtyable = @ \ fps]
frame_invalidate(w, fps) == [w EXCEPT !.invalidations = @ \cup fps]

--------------------------------------------------------------------------
(* Membership (membership.rs): [w, matched].  Local predicates are decided *)
(* on the row; the others from the segment's batch, or one by one.  Every  *)
(* match marks its MV dirty, except that a query with no MV to dirty is    *)
(* asked only while nothing has matched.                                   *)

Executed(w, early, rest_match) == [w |-> mv_dirty_mark(w, early), matched |-> early # {} \/ rest_match]
update_queries_execute(w, t, row, candidates, batch, i) ==
    LET uqs == w.uqs[t].queries
        maintained == (candidates \ w.invalidations) \cap DOMAIN uqs
        local == {fp \in maintained : uqs[fp].eval_strategy = "LocalEval"
                                        /\ update_query_matches_locally(uqs[fp], row)}
        pg == {fp \in maintained : uqs[fp].eval_strategy = "PgEval"}
        viewed == {fp \in pg : covers(batch, i, fp)}
        hit == {fp \in viewed : <<i, fp>> \in batch.hits}
        one(fp) == pg_eval_matches(uqs[fp], t, row, w.snapshot)
        fresh == {fp \in (pg \ viewed) \cap w.dirtyable : one(fp)}
        rest == (pg \ viewed) \ w.dirtyable
    IN  Executed(w, local \cup hit \cup fresh, \E fp \in rest : one(fp))

--------------------------------------------------------------------------
(* The handlers (apply.rs).  m is the segment's matrix, i the event's      *)
(* number in it.                                                           *)

insert_cache_write(w, t, row, matched) ==
    LET alive == population_deleted_key_cancel(w, t, row)
    IN  IF matched \/ KeyOf(t, row) \in w.lost THEN frame_cache_upsert(alive, t, row) ELSE alive
insert_finish(event, candidates, done) ==
    insert_cache_write(memo_frame_accumulate(done.w, candidates), event.t, event.row, done.matched)
handle_insert(w, event, m, i) ==
    LET t == event.t
        candidates == eval_candidates(w, t, event.row)
        inv == update_queries_check_invalidate(w.uqs[t], t, RowEvent("Upsert", event.row, "none", <<>>), candidates)
    IN  insert_finish(event, candidates,
                      update_queries_execute(frame_invalidate(w, inv), t, event.row, candidates, m.batches[t], i))

KeyOnly(t, row) == [c \in DOMAIN Columns[t] |-> IF c = Key[t] THEN row[c] ELSE NULL]

(* The image the row had before: the batch's own, the key tuple under FULL *)
(* identity, else the key alone.                                           *)
old_image_probe(t, event, image) ==
    IF Some(image) THEN image[1]
    ELSE IF t \in Full /\ Some(event.key) THEN event.key
    ELSE KeyOnly(t, IF Some(event.key) THEN event.key ELSE event.row)

update_row_changes(w, t, row) ==
    IF KeyOf(t, row) \in w.deleted THEN <<>> ELSE query_row_changes(w, t, row)

(* An UPDATE out of every predicate leaves the cache, but not while a      *)
(* population may be about to bring back the old version.                  *)
update_cache_write(w, t, row, matched) ==
    IF matched \/ is_recording(w, t)
    THEN frame_cache_upsert(population_deleted_key_cancel(w, t, row), t, row)
    ELSE frame_cache_delete(w, t, row)

pk_changed(t, event) == update_pk_changed(t \in Full, t, event.key, event.row)

key_delete(w, t, event) == IF pk_changed(t, event) THEN frame_cache_delete(w, t, event.key) ELSE w

update_finish(event, removed, done) ==
    key_delete(mv_dirty_mark(update_cache_write(done.w, event.t, event.row, done.matched), removed), event.t, event)
handle_update(w, event, m, i) ==
    LET t == event.t
        row == event.row
        uqs == w.uqs[t]
        candidates == eval_candidates(w, t, row)
        removed == eval_candidates(w, t, old_image_probe(t, event, OldImage(m, i)))
        key == IF Some(event.key) THEN "sent" ELSE "unchanged"
        inv == IF needs_change_eval(uqs)
               THEN update_queries_check_invalidate(uqs, t,
                        RowEvent("Upsert", row, key, update_row_changes(w, t, row)), candidates)
               ELSE {}
    IN  update_finish(event, removed,
            update_queries_execute(memo_frame_accumulate(frame_invalidate(w, inv), candidates \cup removed),
                                   t, row, candidates, m.batches[t], i))

(* An UPDATE whose unsent columns could not be repaired: every query it    *)
(* may match is invalidated, and the row leaves the cache.                 *)
toast_cache_delete(w, t, row) ==
    IF is_recording(w, t) THEN frame_cache_delete_unrecorded(toast_stale_key_record(w, t, row), t, row)
    ELSE frame_cache_delete(w, t, row)
handle_update_toast_fallback(w, event) ==
    LET t == event.t
        row == event.row
        uqs == w.uqs[t].queries
        key == IF Some(event.key) THEN "sent" ELSE "unchanged"
        hits(uq) == \/ toast_fallback_structural_invalidate(uq, t, RowEvent("Upsert", row, key, <<>>), event.toasted)
                    \/ uq.eval_strategy = "LocalEval" /\ update_query_matches_locally(uq, row)
                    \/ uq.eval_strategy = "PgEval" /\ pg_eval_matches(uq, t, row, w.snapshot)
        candidates == eval_candidates(w, t, old_image_probe(t, event, <<>>))
    IN  key_delete(toast_cache_delete(
            mv_dirty_mark(frame_invalidate(w, {fp \in DOMAIN uqs : hits(uqs[fp])}), candidates), t, row), t, event)

(* The invalidation check sees the tuple as it was sent.                   *)
handle_delete(w, event, m, i) ==
    LET t == event.t
        image == OldImage(m, i)
        candidates == eval_candidates(w, t, IF Some(image) THEN image[1] ELSE event.row)
        inv == update_queries_check_invalidate(w.uqs[t], t, RowEvent("Delete", event.row, "none", <<>>), {})
        gone == frame_cache_delete(w, t, event.row)
    IN  frame_invalidate(mv_dirty_mark(memo_frame_accumulate(gone, candidates), candidates), inv)

--------------------------------------------------------------------------
(* A truncated relation evicts every query over it, from every relation.   *)

update_queries_remove_fingerprint(uqs, fp) ==
    [query_remove(uqs, fp) EXCEPT !.eval_index = index_remove(@, fp), !.subsumption = index_remove(@, fp)]
cache_table_invalidate(w, t) ==
    LET over == DOMAIN w.uqs[t].queries
    IN  [w EXCEPT !.uqs = [r \in DOMAIN @ |-> FoldLeft(update_queries_remove_fingerprint, @[r], SetToSeq(over))],
                  !.evicted = @ \cup over, !.dirtyable = @ \ over]
handle_truncate(w, t) ==
    [cache_table_invalidate(w, t) EXCEPT !.cache[t] = {}]

event_replay(w, event, m, i) ==
    CASE event.k = "insert" -> handle_insert(w, event, m, i)
      [] event.k = "update" -> handle_update(w, event, m, i)
      [] event.k = "toast" -> handle_update_toast_fallback(w, event)
      [] event.k = "delete" -> handle_delete(w, event, m, i)
      [] event.k = "truncate" -> handle_truncate(w, event.t)

matrix_replay(m, events) ==
    LET step(acc, i) == event_replay(acc, events[i], m, i)
    IN  FoldLeft(step, m.w, [i \in DOMAIN events |-> i])
segment_replay(w, events) == matrix_replay(segment_eval(w, events), events)

--------------------------------------------------------------------------
(* TOAST repair (toast_repair.rs): a column not sent takes its value from  *)
(* the row's last image in the batch, else from the cached row; a          *)
(* truncated relation has no image to trust.                               *)

ToastSource(w, t, pair) ==
    IF pair \in DOMAIN w.images THEN w.images[pair]
    ELSE LET found == {r \in w.snapshot[t] : r[Key[t]] = pair[2]}
         IN  IF t \in w.guards \/ found = {} THEN <<>> ELSE <<CHOOSE r \in found : TRUE>>
toast_repair_event(acc, event) ==
    LET t == event.t
        moved == Some(event.key) /\ pk_changed(t, event)
        source == ToastSource(acc.w, t, KeyOf(t, IF Some(event.key) THEN event.key ELSE event.row))
        row == IF event.toasted = {} \/ ~Some(source) THEN event.row
               ELSE [c \in DOMAIN event.row |-> IF c \in event.toasted THEN source[1][c] ELSE event.row[c]]
        failed == event.toasted # {} /\ ~Some(source)
        repaired == IF event.k = "update" /\ failed THEN [event EXCEPT !.k = "toast"]
                    ELSE [event EXCEPT !.row = row, !.toasted = {}]
        vacated == IF moved THEN (KeyOf(t, event.key) :> <<>>) @@ acc.w.images ELSE acc.w.images
        images == CASE event.k = "delete" \/ failed -> (KeyOf(t, event.row) :> <<>>) @@ vacated
                    [] event.k \in {"insert", "update"} /\ ~failed -> (KeyOf(t, row) :> <<row>>) @@ vacated
    IN  IF event.k = "truncate"
        THEN [w |-> [acc.w EXCEPT !.images = RelationDropped(@, t), !.guards = @ \cup {t}],
              events |-> Append(acc.events, event)]
        ELSE [w |-> [acc.w EXCEPT !.images = images], events |-> Append(acc.events, repaired)]
toast_repair_events(w, events) == FoldLeft(toast_repair_event, [w |-> w, events |-> <<>>], events)

(* A segment ends with a TRUNCATE, or with the batch.                      *)
RECURSIVE segments_replay(_, _)
segments_replay(w, events) ==
    LET cuts == {i \in DOMAIN events : events[i].k = "truncate"}
        cut == IF cuts = {} THEN Len(events) ELSE CHOOSE i \in cuts : \A j \in cuts : i <= j
    IN  IF events = <<>> THEN w
        ELSE segments_replay(segment_replay(w, SubSeq(events, 1, cut)), SubSeq(events, cut + 1, Len(events)))

frame_rows_replay(w, events) ==
    LET repaired == toast_repair_events(w, events)
    IN  segments_replay(repaired.w, repaired.events)

(* The writer's state when a batch begins.                                 *)
BatchBegin(cache, uqs, dirtyable, recording, lost, stale) ==
    [snapshot |-> cache, cache |-> cache, uqs |-> uqs, dirtyable |-> dirtyable,
     recording |-> recording, lost |-> lost, stale |-> stale,
     invalidations |-> {}, evicted |-> {}, memos |-> {}, deleted |-> {},
     overlay |-> <<>>, images |-> <<>>, guards |-> {}, stamps |-> <<>>]
=============================================================================
