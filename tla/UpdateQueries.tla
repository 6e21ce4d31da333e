---------------------------- MODULE UpdateQueries ----------------------------
(***************************************************************************)
(* The update queries of one relation with the indexes and counts kept     *)
(* beside them (cache/update_query.rs), and the checks that decide which   *)
(* of them a row event invalidates (writer/cdc/invalidation.rs).           *)
(*                                                                         *)
(* A row event is [op, row, key, changes]: op Upsert or Delete, key whether*)
(* an UPDATE carried the key tuple, changes an option: what changed        *)
(* against the cached row, none when the row is not cached.                *)
(***************************************************************************)
EXTENDS Admission

NoUpdateQueries ==
    [queries |-> <<>>, subsumption |-> EmptyIndex, eval_index |-> EmptyIndex,
     always_check |-> {}, has_limit_from |-> {},
     limit_predicate_columns |-> <<>>, limit_order_columns |-> <<>>,
     change_dependent_count |-> 0, epoch |-> 0]

--------------------------------------------------------------------------
(* Bookkeeping (update_query.rs).                                          *)

carveout_always(uq) == uq.source \in SubqueryKinds \cup {"OuterJoinOptional"}
carveout_limit_from(uq) == uq.has_limit /\ uq.source = "FromClause"

(* counts + or - one per occurrence, zeros dropped.                        *)
column_refcounts_account(counts, columns, added) ==
    LET had(c) == IF c \in DOMAIN counts THEN counts[c] ELSE 0
        times(c) == Cardinality({i \in DOMAIN columns : columns[i] = c})
        n(c) == IF added THEN had(c) + times(c)
                ELSE IF had(c) > times(c) THEN had(c) - times(c) ELSE 0
        all == DOMAIN counts \cup ToSet(columns)
    IN  [c \in {x \in all : n(x) > 0} |-> n(c)]

With(set, x, added) == IF added THEN set \cup {x} ELSE set \ {x}
carveout_account(uqs, fp, uq, added) ==
    LET limit == carveout_limit_from(uq)
        order_columns == [i \in DOMAIN uq.order_by_keys |-> uq.order_by_keys[i].col]
    IN  [uqs EXCEPT
            !.always_check = IF carveout_always(uq) THEN With(@, fp, added) ELSE @,
            !.has_limit_from = IF limit THEN With(@, fp, added) ELSE @,
            !.limit_predicate_columns =
                IF limit THEN column_refcounts_account(@, SetToSeq(uq.predicate_columns), added) ELSE @,
            !.limit_order_columns = IF limit THEN column_refcounts_account(@, order_columns, added) ELSE @]

change_dependent_account(uqs, uq, added) ==
    IF ~uq.change_dependent THEN uqs
    ELSE [uqs EXCEPT !.change_dependent_count = IF added THEN @ + 1 ELSE IF @ > 0 THEN @ - 1 ELSE 0]

Account(uqs, fp, uq, added) ==
    carveout_account(change_dependent_account(uqs, uq, added), fp, uq, added)

(* A slip: the entry goes and the counts kept beside it stay.              *)
query_remove_counted(uqs, fp) ==
    [uqs EXCEPT !.queries = [f \in DOMAIN uqs.queries \ {fp} |-> uqs.queries[f]]]

query_remove(uqs, fp) ==
    IF fp \notin DOMAIN uqs.queries THEN uqs
    ELSE [Account(uqs, fp, uqs.queries[fp], FALSE) EXCEPT !.epoch = @ + 1,
             !.queries = [f \in DOMAIN uqs.queries \ {fp} |-> uqs.queries[f]]]

(* The replaced entry is taken off the accounts before the new one is      *)
(* added: one fingerprint may bring several update queries to a relation.  *)
query_insert(uqs, fp, uq) ==
    LET bare == IF fp \in DOMAIN uqs.queries THEN Account(uqs, fp, uqs.queries[fp], FALSE) ELSE uqs
    IN  [Account(bare, fp, uq, TRUE) EXCEPT !.epoch = @ + 1, !.queries = (fp :> uq) @@ @]

needs_change_eval(uqs) == uqs.change_dependent_count > 0
limit_predicate_changed(uqs, changes) ==
    \E c \in DOMAIN changes : changes[c].changed /\ c \in DOMAIN uqs.limit_predicate_columns

--------------------------------------------------------------------------
(* Invalidation (invalidation.rs).                                         *)

RowEvent(op, row, key, changes) == [op |-> op, row |-> row, key |-> key, changes |-> changes]

row_relevant(uq, table, event) ==
    IF For(uq.constraints, table) # {} THEN row_constraints_match(uq.constraints, table, event.row)
    ELSE ~join_membership_unchanged(uq, table, event.key)

subquery_change_expands(kind, op) ==
    CASE kind = "Scalar" -> TRUE
      [] kind = "Inclusion" -> op = "Upsert"
      [] kind = "Exclusion" -> op = "Delete"

from_clause_uncached_invalidates(uq, table, event) ==
    IF event.op = "Delete" THEN uq.has_limit
    ELSE ~uq.is_single_table /\ row_relevant(uq, table, event)

row_uncached_invalidates(uq, table, event) ==
    CASE uq.source = "FromClause" -> from_clause_uncached_invalidates(uq, table, event)
      [] uq.source \in SubqueryKinds ->
            row_relevant(uq, table, event) /\ subquery_change_expands(uq.source, event.op)
      [] uq.source = "OuterJoinTerminal" -> FALSE
      [] uq.source = "OuterJoinOptional" -> row_constraints_match(uq.constraints, table, event.row)

columns_changed(columns, changes) == \E c \in columns \cap DOMAIN changes : changes[c].changed

(* A window column changed: the row that should fill the gap is, by        *)
(* definition, not cached; a row that can only rise opens no gap.          *)
limit_window_move_invalidates(uq, table, row, changes) ==
    /\ uq.has_limit /\ uq.source = "FromClause"
    /\ columns_changed(uq.limit_window_columns, changes)
    /\ \/ columns_changed(uq.predicate_columns, changes)
       \/ /\ row_constraints_match(uq.constraints, table, row)
          /\ ~window_move_is_promotion(uq, row, changes)

join_columns_changed(uq, table, changes) ==
    \E c \in table_join_columns(uq.constraints, table) : c \notin DOMAIN changes \/ changes[c].changed


row_cached_invalidates(uq, table, row, changes) ==
    \/ uq.source \in SubqueryKinds \cup {"OuterJoinOptional"}
    \/ limit_window_move_invalidates(uq, table, row, changes)
    \/ join_columns_changed(uq, table, changes) /\ row_constraints_match(uq.constraints, table, row)

query_row_invalidates(uq, table, event) ==
    IF Some(event.changes) THEN row_cached_invalidates(uq, table, event.row, event.changes[1])
    ELSE row_uncached_invalidates(uq, table, event)

narrowed_candidates(uqs, event, candidates) ==
    LET expand_limit == \/ event.op = "Delete"
                        \/ Some(event.changes) /\ limit_predicate_changed(uqs, event.changes[1])
    IN  candidates \cup uqs.always_check \cup (IF expand_limit THEN uqs.has_limit_from ELSE {})

update_queries_check_invalidate(uqs, table, event, candidates) ==
    {fp \in narrowed_candidates(uqs, event, candidates) \cap DOMAIN uqs.queries :
        query_row_invalidates(uqs.queries[fp], table, event)}

(* An UPDATE whose unchanged toasted columns could not be repaired: the    *)
(* row's changes are unknown and it cannot be written.                     *)
toast_fallback_structural_invalidate(uq, table, event, toasted) ==
    \/ uq.predicate_columns \cap toasted # {}
    \/ uq.source \in SubqueryKinds \cup {"OuterJoinOptional"}
    \/ uq.has_limit
    \/ ~uq.is_single_table /\ row_relevant(uq, table, event)
=============================================================================
