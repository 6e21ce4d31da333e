----------------------------- MODULE Admission -----------------------------
(***************************************************************************)
(* What registration derives from a resolved query (cache/admission,       *)
(* cache/mv_shape.rs, registration/resolve.rs): its shape gate, how many   *)
(* rows to populate, and for each table one update query with the way CDC  *)
(* evaluates it, the columns it depends on and the constraints it is       *)
(* indexed by.                                                             *)
(***************************************************************************)
EXTENDS Decorrelate

--------------------------------------------------------------------------
(* Shape gate (mv_shape.rs, analyze.rs).                                   *)

select_has_join(select) == Len(select.from) > 1 \/ \E i \in DOMAIN select.from : select.from[i].f = "join"

RECURSIVE resolved_leftmost_select(_)
resolved_leftmost_select(q) == IF q.b = "setop" THEN resolved_leftmost_select(q.l) ELSE q.s

order_by_serve_viable(q) ==
    \A i \in DOMAIN q.order_by :
        /\ q.b # "values"
        /\ q.order_by[i].col \in OutputNames(resolved_leftmost_select(q))

shape_classify(q) ==
    LET computes(s) ==
            \/ s.distinct \/ Some(s.group_by) \/ Some(s.having) \/ select_has_join(s)
            \/ \E i \in DOMAIN s.columns : has_aggregate(s.columns[i].x)
        gated == CASE q.b = "values" -> FALSE
                   [] q.b = "setop" -> q.op # "union all"
                   [] q.b = "select" -> computes(q.s)
    IN  IF gated /\ order_by_serve_viable(q) THEN "Gated" ELSE "Skip"

(* The decorrelated form, where there is one.                              *)
RewrittenAs(q, d) == IF d.ok /\ d.transformed THEN d.q ELSE q
shape_gate_classify(q, d) == shape_classify(RewrittenAs(q, d))

base_query_prepare(q) ==
    [query |-> [q EXCEPT !.limit = 0], max_limit |-> IF q.b = "setop" THEN 0 ELSE q.limit]
(* A shape that changes the number of rows is populated without a bound;   *)
(* 0 is no bound.                                                          *)
resolution_limits(base, gate) == IF gate = "Gated" THEN 0 ELSE base.max_limit

--------------------------------------------------------------------------
(* Classification of one update query (update_classify.rs).                *)

update_eval_strategy_classify(select, source) ==
    IF /\ source = "FromClause"
       /\ is_single_table(select)
       /\ ~Some(select.group_by) /\ ~Some(select.having)
       /\ Some(select.where) => resolved_where_expr_supported(select.where[1])
    THEN "LocalEval" ELSE "PgEval"

pg_batchable_classify(select, table) ==
    /\ ~Some(select.group_by) /\ ~Some(select.having)
    /\ TableCount(SelectNodes(select), table) <= 1
    /\ \A i \in DOMAIN select.columns : ~has_aggregate(select.columns[i].x)

select_alias_exprs(select, name) ==
    LET named(output) == output.as = name
    IN  SelectSeq(select.columns, named)

limit_window_columns_collect(q, table) ==
    LET sorted(key) == LET exprs == select_alias_exprs(q.s, key.col)
                           nodes(output) == ScalarNodes(output.x)
                       IN  Each(nodes, exprs)
    IN  IF q.b # "select" THEN {}
        ELSE ColumnsOf(Each(sorted, q.order_by) \o Each(WhereNodes, q.s.where) \o Each(WhereNodes, q.s.having), table)

row_level_window(q) ==
    q.order_by # <<>> /\ ~q.s.distinct /\ ~Some(q.s.group_by) /\ ~Some(q.s.having)

order_by_key(column, key) == [col |-> column.col, desc |-> key.desc, nulls_first |-> key.desc]
(* <<>> unless every key is a plain column of the table.                   *)
limit_order_keys_collect(q, table) ==
    LET target(i) == select_alias_exprs(q.s, q.order_by[i].col)[1].x
    IN  IF /\ q.b = "select" /\ row_level_window(q)
           /\ \A i \in DOMAIN q.order_by : target(i).c = "col" /\ target(i).t = table
        THEN [i \in DOMAIN q.order_by |-> order_by_key(target(i), q.order_by[i])]
        ELSE <<>>

predicate_columns_collect(select, table) ==
    ColumnsOf(Each(SourceNodes, select.from) \o Each(WhereNodes, select.where)
                \o select.group_by \o Each(WhereNodes, select.having), table)

(* Whether an UPDATE can ever invalidate the query: the upper bound of the *)
(* checks of Invalidation.                                                 *)
SubqueryKinds == {"Inclusion", "Exclusion", "Scalar"}
update_invalidation_possible(uq, table) ==
    \/ uq.source \in SubqueryKinds \cup {"OuterJoinOptional"}
    \/ uq.source = "FromClause" /\ uq.has_limit /\ uq.limit_window_columns # {}
    \/ table_join_columns(uq.constraints, table) # {}
    \/ uq.source = "FromClause" /\ ~uq.is_single_table

--------------------------------------------------------------------------
(* The analysis (analyze.rs): [ok, tables], one admission per update query.*)

UpdateQuery(q, has_limit, u, constraints, strategy, single) ==
    [select |-> u.select, source |-> u.source, constraints |-> constraints,
     has_limit |-> has_limit, eval_strategy |-> strategy,
     limit_window_columns |-> IF has_limit THEN limit_window_columns_collect(q, u.table) ELSE {},
     order_by_keys |-> IF has_limit /\ single /\ u.source = "FromClause"
                       THEN limit_order_keys_collect(q, u.table) ELSE <<>>,
     pg_batchable |-> strategy = "PgEval" /\ pg_batchable_classify(u.select, u.table),
     predicate_columns |-> predicate_columns_collect(u.select, u.table),
     is_single_table |-> single,
     compiled_where |-> IF strategy = "LocalEval" /\ Some(u.select.where)
                        THEN <<compile(u.select.where[1], u.table)>> ELSE <<>>]
Admitted(uq, table, self_joined) ==
    [table |-> table,
     update_query |-> uq @@ [change_dependent |-> update_invalidation_possible(uq, table)],
     subsumer_eligible |-> ~self_joined /\ ~uq.has_limit /\ uq.constraints.where_analysis_complete,
     index_constraints |-> IF self_joined THEN {} ELSE For(uq.constraints, table)]
admission(q, has_limit, u) ==
    Admitted(UpdateQuery(q, has_limit, u, analyze_query_constraints(u.select),
                         update_eval_strategy_classify(u.select, u.source), SingleTable(u.select)),
             u.table, TableCount(SelectNodes(u.select), u.table) > 1)

tables_analyze(q, has_limit, updates) == [i \in DOMAIN updates |-> admission(q, has_limit, updates[i])]
query_admission_analyze(q, has_limit, d) ==
    IF d.ok THEN tables_analyze(q, has_limit, query_table_update_queries(IF d.transformed THEN d.q ELSE q)) ELSE <<>>
=============================================================================
