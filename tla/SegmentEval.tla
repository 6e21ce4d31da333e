---------------------------- MODULE SegmentEval ----------------------------
(***************************************************************************)
(* What the writer asks the cache database before it decides a segment of  *)
(* row events: which queries each new row belongs to, with the row in the  *)
(* place of its table (transform/values.rs), which columns an UPDATE       *)
(* changed, and the image a row had before (writer/cdc/segment_eval).      *)
(*                                                                         *)
(* An event is [k, t, row, key, toasted]: k insert, update, delete, toast  *)
(* (an UPDATE with columns that could not be repaired) or truncate; key is *)
(* the key tuple, <<>> when none was sent.  The writer's state w holds     *)
(*   snapshot, cache  the tables before the batch, and with its writes;    *)
(*   uqs              the update queries of each relation;                 *)
(*   dirtyable        the queries whose MV is Fresh or being built;        *)
(*   invalidations, memos  the queries to invalidate, the memos to evict;  *)
(*   deleted          the keys the batch deleted, <<relation, key>>;       *)
(*   overlay, guards, stamps  the old images of the batch: by key, the     *)
(*                    relations barred from the lookup, the epochs.        *)
(***************************************************************************)
EXTENDS UpdateQueries

CONSTANT Full     \* the relations with REPLICA IDENTITY FULL

KeyOf(t, row) == <<t, row[Key[t]]>>

--------------------------------------------------------------------------
(* The row standing in for its table (values.rs).                          *)

table_occurrences_find(select, t) ==
    LET of(node) == node.t = t
    IN  SelectSeq(Each(direct_table_nodes, select.from), of)

RECURSIVE source_replace(_, _, _)
source_replace(src, occurrence, rows) ==
    CASE src.f = "table" -> IF src = occurrence THEN ValuesSource(src.t, src.a, rows) ELSE src
      [] src.f = "join" -> [src EXCEPT !.l = source_replace(src.l, occurrence, rows),
                                       !.r = source_replace(src.r, occurrence, rows)]
      [] src.f = "derived" -> src
resolved_select_node_table_replace_with_values(select, occurrence, rows) ==
    LET replace(src) == source_replace(src, occurrence, rows)
    IN  [select EXCEPT !.from = [i \in DOMAIN select.from |-> replace(select.from[i])]]

(* Some occurrence makes the branch true.                                  *)
pg_eval_matches(uq, t, row, db) ==
    LET occurrences == table_occurrences_find(uq.select, t)
    IN  \E i \in DOMAIN occurrences :
            Rows(Query(resolved_select_node_table_replace_with_values(uq.select, occurrences[i], <<row>>)),
                 <<>>, db) # {}

(* The numbers of the rows that match, all asked in one statement.         *)
values_batch_matches(uq, t, rows, db) ==
    LET occurrence == table_occurrences_find(uq.select, t)[1]
        idx == <<Output(Column(t, occurrence.a, "__pgc_idx"), "idx")>>
        batch == resolved_select_node_table_replace_with_values(uq.select, occurrence, rows)
    IN  {r["idx"].n : r \in {x \in Rows(Query([batch EXCEPT !.columns = idx]), <<>>, db) : x["idx"].k # "null"}}

--------------------------------------------------------------------------
(* Batched membership (segment_eval/membership.rs).                        *)

NoBatch == [fresh |-> {}, rest |-> {}, covered |-> {}, rest_covered |-> {}, hits |-> {}]

local_eval_match_any(w, uqs, row) ==
    \E fp \in DOMAIN uqs.queries \ w.invalidations :
        uqs.queries[fp].eval_strategy = "LocalEval" /\ update_query_matches_locally(uqs.queries[fp], row)

event_membership_row(event) == event.k \in {"insert", "update"}

membership_chunks_eval(w, events, t, fps, idxs) ==
    UNION {{<<i, fp>> : i \in values_batch_matches(w.uqs[t].queries[fp], t,
                                  [i \in idxs |-> events[i].row], w.snapshot)} : fp \in fps}
(* The rest is asked only for rows nothing has matched yet.                *)
rest_membership_eval(w, events, t, fresh, rest, rows, fresh_hits) ==
    LET unmatched(i) == /\ ~\E fp \in fresh : <<i, fp>> \in fresh_hits
                        /\ ~local_eval_match_any(w, w.uqs[t], events[i].row)
        rest_rows == IF rest = {} THEN {} ELSE {i \in rows : unmatched(i)}
    IN  [fresh |-> fresh, rest |-> rest, covered |-> rows, rest_covered |-> rest_rows,
         hits |-> fresh_hits \cup membership_chunks_eval(w, events, t, rest, rest_rows)]
relation_membership_eval(w, events, t) ==
    LET batchable == {fp \in DOMAIN w.uqs[t].queries : w.uqs[t].queries[fp].pg_batchable}
        rows == {i \in DOMAIN events : events[i].t = t /\ event_membership_row(events[i])}
        fresh == batchable \cap w.dirtyable
    IN  IF batchable = {} \/ rows = {} THEN NoBatch
        ELSE rest_membership_eval(w, events, t, fresh, batchable \ fresh, rows,
                                  membership_chunks_eval(w, events, t, fresh, rows))

--------------------------------------------------------------------------
(* What an UPDATE changed (row_changes.rs, lookup.rs): an option.          *)

CachedRow(db, t, row) == {r \in db[t] : r[Key[t]] = row[Key[t]]}
RowChange(uqs, t, cached, row) ==
    [c \in DOMAIN row |->
        LET ordered == c \in DOMAIN uqs.limit_order_columns
            value(r) == CellValue(Columns[t][c], r[c])
        IN  [changed |-> cached[c] # row[c], old_null |-> ordered /\ cached[c] = NULL,
             less |-> IF ordered THEN Compare("<", value(cached), value(row)) ELSE "U"]]
query_row_changes(w, t, row) ==
    LET found == CachedRow(w.snapshot, t, row)
    IN  IF found = {} THEN <<>> ELSE <<RowChange(w.uqs[t], t, CHOOSE r \in found : TRUE, row)>>

--------------------------------------------------------------------------
(* Old images (segment_eval/old_image.rs).  Walking the segment in order,  *)
(* an event resolves its row's previous image from the overlay, else asks  *)
(* the tables before the batch, and then records its own.                  *)

old_image_text_stable(type) == type \in {"int4", "numeric", "text", "bool"}
index_columns(uqs) == UNION DOMAIN uqs.eval_index.classes
fetch_columns(w, t) == {c \in index_columns(w.uqs[t]) : old_image_text_stable(Columns[t][c])}
tracks_old_images(w, t) == index_columns(w.uqs[t]) # {} /\ t \notin Full
lookup_allowed(w, t) == fetch_columns(w, t) # {} /\ t \notin w.guards

(* Only the kept columns carry values; the others are wildcards.           *)
old_image_expand(t, row, kept) == [c \in DOMAIN Columns[t] |-> IF c \in kept THEN row[c] ELSE NULL]

RelationDropped(overlay, t) == [p \in {q \in DOMAIN overlay : q[1] # t} |-> overlay[p]]
(* Entries recorded under another set of queries are not to be trusted.    *)
old_image_overlay_epoch_reconcile(w, t) ==
    IF t \notin DOMAIN w.stamps THEN [w EXCEPT !.stamps = (t :> w.uqs[t].epoch) @@ @]
    ELSE IF w.stamps[t] = w.uqs[t].epoch THEN w
    ELSE [w EXCEPT !.stamps[t] = w.uqs[t].epoch, !.guards = @ \cup {t},
                   !.overlay = RelationDropped(@, t)]

Deleted == <<>>
overlay_record_write(w, t, row) ==
    [w EXCEPT !.overlay = (KeyOf(t, row) :> <<old_image_expand(t, row, index_columns(w.uqs[t]))>>) @@ @]
overlay_record_delete(w, t, row) == [w EXCEPT !.overlay = (KeyOf(t, row) :> Deleted) @@ @]

(* The old image of the row at pair: from the overlay, or, where lookup    *)
(* says so, from the tables before the batch.  An option.                  *)
overlay_resolve(w, t, pair, lookup) ==
    IF pair \in DOMAIN w.overlay THEN w.overlay[pair]
    ELSE LET found == {r \in w.snapshot[t] : r[Key[t]] = pair[2]}
         IN  IF lookup /\ lookup_allowed(w, t) /\ found # {}
             THEN <<old_image_expand(t, CHOOSE r \in found : TRUE, fetch_columns(w, t))>> ELSE <<>>

(* acc is [w, images]: images maps the number of an event to its option.   *)
OldImage_event_record(acc, event, i) ==
    IF event.k = "truncate" \/ ~tracks_old_images(acc.w, event.t) THEN acc
    ELSE LET t == event.t
             w == old_image_overlay_epoch_reconcile(acc.w, t)
             moved == Some(event.key)
             source == KeyOf(t, IF moved THEN event.key ELSE event.row)
             resolved(lookup) == (i :> overlay_resolve(w, t, source, lookup)) @@ acc.images
             vacated == IF moved THEN overlay_record_delete(w, t, event.key) ELSE w
         IN  CASE event.k = "insert" -> [w |-> overlay_record_write(w, t, event.row), images |-> acc.images]
               [] event.k = "update" ->
                     [w |-> overlay_record_write(vacated, t, event.row), images |-> resolved(~moved)]
               [] event.k = "delete" ->
                     [w |-> overlay_record_delete(w, t, event.row), images |-> resolved(TRUE)]
               [] event.k = "toast" ->
                     [w |-> overlay_record_delete(vacated, t, event.row), images |-> acc.images]

OldImagePrepass(w, events) ==
    LET step(acc, i) == OldImage_event_record(acc, events[i], i)
    IN  FoldLeft(step, [w |-> w, images |-> <<>>], [i \in DOMAIN events |-> i])

--------------------------------------------------------------------------
(* The matrix of a segment: [w, batches, images].                          *)
Matrix(batches, old) == [w |-> old.w, batches |-> batches, images |-> old.images]
segment_eval(w, events) ==
    Matrix([t \in DOMAIN Columns |-> relation_membership_eval(w, events, t)], OldImagePrepass(w, events))
OldImage(matrix, i) == IF i \in DOMAIN matrix.images THEN matrix.images[i] ELSE <<>>
covers(batch, i, fp) == (i \in batch.covered /\ fp \in batch.fresh) \/ (i \in batch.rest_covered /\ fp \in batch.rest)
=============================================================================
