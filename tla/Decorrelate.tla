----------------------------- MODULE Decorrelate -----------------------------
(***************************************************************************)
(* Decorrelation (query/decorrelate): correlated EXISTS and IN become      *)
(* inner joins, NOT EXISTS and NOT IN left joins with an IS NULL test,     *)
(* correlated scalar subqueries left joins with a derived table.  The      *)
(* rewritten query yields the update queries and the population branches;  *)
(* the query itself is served as it was written.                           *)
(*                                                                         *)
(* A result carries ok; where it is FALSE the query is not decorrelatable. *)
(***************************************************************************)
EXTENDS QueryShape

where_expr_conjuncts_join(es) ==
    IF es = <<>> THEN <<>>
    ELSE <<FoldLeft(LAMBDA acc, e : Binary("and", acc, e), es[1], Tail(es))>>
RECURSIVE where_expr_conjuncts_split(_)
where_expr_conjuncts_split(e) ==
    IF e.e = "binary" /\ e.op = "and"
    THEN where_expr_conjuncts_split(e.l) \o where_expr_conjuncts_split(e.r)
    ELSE <<e>>

--------------------------------------------------------------------------
(* Correlation (predicate.rs).                                             *)

RECURSIVE scalar_expr_has_correlation(_)
scalar_expr_has_correlation(x) ==
    CASE x.c = "sub" -> OuterRefs(x.q) # {}
      [] x.c = "func" -> \E i \in DOMAIN x.args : scalar_expr_has_correlation(x.args[i])
      [] x.c = "array" -> \E i \in DOMAIN x.elems : scalar_expr_has_correlation(x.elems[i])
      [] x.c = "arith" -> scalar_expr_has_correlation(x.l) \/ scalar_expr_has_correlation(x.r)
      [] x.c = "cast" -> scalar_expr_has_correlation(x.x)
      [] x.c \in {"col", "lit"} -> FALSE
RECURSIVE where_expr_has_correlation(_)
where_expr_has_correlation(e) ==
    CASE e.e = "subquery" -> OuterRefs(e.q) # {}
      [] e.e = "scalar" -> scalar_expr_has_correlation(e.x)
      [] e.e = "unary" -> where_expr_has_correlation(e.x)
      [] e.e = "binary" -> where_expr_has_correlation(e.l) \/ where_expr_has_correlation(e.r)
      [] e.e = "multi" -> \E i \in DOMAIN e.xs : where_expr_has_correlation(e.xs[i])

column_matches_outer_ref(col, outer) == \E o \in outer : o.a = col.a /\ o.col = col.col

RECURSIVE scalar_references_outer_ref(_, _)
scalar_references_outer_ref(x, outer) ==
    CASE x.c = "col" -> column_matches_outer_ref(x, outer)
      [] x.c = "func" -> \E i \in DOMAIN x.args : scalar_references_outer_ref(x.args[i], outer)
      [] x.c = "array" -> \E i \in DOMAIN x.elems : scalar_references_outer_ref(x.elems[i], outer)
      [] x.c = "arith" -> scalar_references_outer_ref(x.l, outer) \/ scalar_references_outer_ref(x.r, outer)
      [] x.c = "cast" -> scalar_references_outer_ref(x.x, outer)
      [] x.c \in {"lit", "sub"} -> FALSE
RECURSIVE conjunct_references_outer_ref(_, _)
conjunct_references_outer_ref(e, outer) ==
    CASE e.e = "scalar" -> scalar_references_outer_ref(e.x, outer)
      [] e.e = "unary" -> conjunct_references_outer_ref(e.x, outer)
      [] e.e = "binary" -> conjunct_references_outer_ref(e.l, outer) \/ conjunct_references_outer_ref(e.r, outer)
      [] e.e = "multi" -> \E i \in DOMAIN e.xs : conjunct_references_outer_ref(e.xs[i], outer)
      [] e.e = "subquery" -> FALSE

EquatesColumns(e) == e.e = "binary" /\ e.op = "=" /\ IsColumn(e.l) /\ IsColumn(e.r)
(* <<[predicates, residual]>>: the equalities between an inner and an      *)
(* outer column, and the other conjuncts; <<>> when there is no such       *)
(* equality or an outer column is used in any other way.                   *)
Partition(linking, residual, outer) ==
    LET left_is_outer(e) == column_matches_outer_ref(e.l.x, outer)
        predicate(e) == IF left_is_outer(e) THEN [outer |-> e.l.x, inner |-> e.r.x]
                        ELSE [outer |-> e.r.x, inner |-> e.l.x]
        uses_outer(e) == ~EquatesColumns(e) /\ conjunct_references_outer_ref(e, outer)
    IN  IF linking = <<>> \/ \E i \in DOMAIN residual : uses_outer(residual[i]) THEN <<>>
        ELSE <<[predicates |-> [i \in DOMAIN linking |-> predicate(linking[i])],
                residual |-> where_expr_conjuncts_join(residual)]>>
where_clause_correlation_partition(where, outer) ==
    LET conjuncts == where_expr_conjuncts_split(where)
        links(e) == /\ EquatesColumns(e)
                    /\ column_matches_outer_ref(e.l.x, outer) # column_matches_outer_ref(e.r.x, outer)
        rest(e) == ~links(e)
    IN  Partition(SelectSeq(conjuncts, links), SelectSeq(conjuncts, rest), outer)

EqualColumns(l, r) == Binary("=", Scalar(l), Scalar(r))
correlation_predicates_to_condition(predicates) ==
    where_expr_conjuncts_join([i \in DOMAIN predicates |-> EqualColumns(predicates[i].inner, predicates[i].outer)])[1]

(* Sources side by side become a chain of cross joins.                     *)
from_sources_to_table_source(from) ==
    FoldLeft(LAMBDA acc, src : Join("inner", acc, src, <<>>), from[1], Tail(from))
merge_where_clauses(outer, inner) == IF Some(inner) THEN Conjoin(outer, inner[1]) ELSE outer

--------------------------------------------------------------------------
(* EXISTS, NOT EXISTS, IN and NOT IN (exists.rs, in_subquery.rs).  A       *)
(* residual condition joins the outer WHERE of a semi-join, the ON of an   *)
(* anti-join.                                                              *)

SemiJoin(select, inner, on, residual) ==
    [select EXCEPT !.distinct = TRUE,
        !.from = <<Join("inner", from_sources_to_table_source(@), from_sources_to_table_source(inner.from), <<on>>)>>,
        !.where = merge_where_clauses(@, residual)]
AntiJoin(select, inner, on, residual, absent) ==
    [select EXCEPT
        !.from = <<Join("left", from_sources_to_table_source(@), from_sources_to_table_source(inner.from),
                        merge_where_clauses(<<on>>, residual))>>,
        !.where = Conjoin(@, Unary("is null", Scalar(absent)))]

subquery_exists_decorrelate(select, inner, p) ==
    SemiJoin(select, inner, correlation_predicates_to_condition(p.predicates), p.residual)
subquery_not_exists_decorrelate(select, inner, p) ==
    AntiJoin(select, inner, correlation_predicates_to_condition(p.predicates), p.residual, p.predicates[1].inner)
InCondition(inner, p, test) ==
    Binary("and", EqualColumns(test, inner.columns[1].x), correlation_predicates_to_condition(p.predicates))
subquery_in_any_decorrelate(select, inner, p, test) ==
    SemiJoin(select, inner, InCondition(inner, p, test), p.residual)
subquery_not_in_all_decorrelate(select, inner, p, test) ==
    AntiJoin(select, inner, InCondition(inner, p, test), p.residual, inner.columns[1].x)

(* A subquery's GROUP BY and HAVING are dropped for a semi-join, and       *)
(* refused for an anti-join.                                               *)
correlated_exists_inner_prepare(inner) == <<[inner EXCEPT !.group_by = <<>>, !.having = <<>>]>>
correlated_not_exists_inner_prepare(inner) ==
    IF Some(inner.group_by) \/ Some(inner.having) THEN <<>> ELSE <<inner>>

in_any_inner_output_column(inner) == Len(inner.columns) = 1 /\ inner.columns[1].x.c = "col"

(* Outcome of one conjunct: applied is FALSE when it is kept as it is.     *)
Kept(select) == [ok |-> TRUE, applied |-> FALSE, select |-> select]
Applied(select) == [ok |-> TRUE, applied |-> TRUE, select |-> select]
NonDecorrelatable(select) == [ok |-> FALSE, applied |-> FALSE, select |-> select]

PartitionJoin(kind, select, inner, test, partition) ==
    IF partition = <<>> THEN NonDecorrelatable(select)
    ELSE Applied(CASE kind = "Exists" -> subquery_exists_decorrelate(select, inner, partition[1])
                   [] kind = "NotExists" -> subquery_not_exists_decorrelate(select, inner, partition[1])
                   [] kind = "InAny" -> subquery_in_any_decorrelate(select, inner, partition[1], test[1])
                   [] kind = "NotInAll" -> subquery_not_in_all_decorrelate(select, inner, partition[1], test[1]))
try_decorrelate(kind, select, q, test) ==
    LET prepared == IF kind \in {"Exists", "InAny"} THEN correlated_exists_inner_prepare(q.s)
                    ELSE correlated_not_exists_inner_prepare(q.s)
        inner == prepared[1]
    IN  IF q.b # "select" THEN Kept(select)
        ELSE IF prepared = <<>> THEN NonDecorrelatable(select)
        ELSE IF ~Some(inner.where) THEN Kept(select)
        ELSE IF kind \in {"InAny", "NotInAll"} /\ ~in_any_inner_output_column(inner) THEN NonDecorrelatable(select)
        ELSE PartitionJoin(kind, select, inner, test, where_clause_correlation_partition(inner.where[1], OuterRefs(q)))

--------------------------------------------------------------------------
(* Scalar subqueries (scalar.rs).                                          *)

DerivedAlias == <<"_dc1", "_dc2", "_dc3">>
ScalarAlias == <<"_ds1", "_ds2", "_ds3">>

scalar_inner_prepare(q) ==
    /\ q.b = "select" /\ Len(q.s.columns) = 1 /\ Some(q.s.where)
    /\ q.limit = 0 \/ has_aggregate(q.s.columns[1].x)

(* <<[derived, on, column]>>: the correlation keys and the value, grouped  *)
(* by the keys when the value aggregates.                                  *)
ScalarDerived(q, n, p, value, alias) ==
    LET key(i) == p.predicates[i].inner
        keys == [i \in DOMAIN p.predicates |-> key(i)]
        columns == [i \in DOMAIN p.predicates |-> Output(key(i), key(i).col)] \o <<Output(value, ScalarAlias[n])>>
        select == [Select(columns, q.s.from, p.residual) EXCEPT !.group_by = IF has_aggregate(value) THEN keys ELSE <<>>]
        equal(i) == EqualColumns(Column(alias, alias, key(i).col), p.predicates[i].outer)
    IN  [derived |-> Derived(Query(select), alias, "Scalar"),
         on |-> where_expr_conjuncts_join([i \in DOMAIN p.predicates |-> equal(i)])[1],
         column |-> Column(alias, alias, ScalarAlias[n])]
ScalarPartition(q, n, partition) ==
    IF partition = <<>> THEN <<>> ELSE <<ScalarDerived(q, n, partition[1], q.s.columns[1].x, DerivedAlias[n])>>
subquery_scalar_decorrelate(q, n) ==
    IF ~scalar_inner_prepare(q) THEN <<>>
    ELSE ScalarPartition(q, n, where_clause_correlation_partition(q.s.where[1], OuterRefs(q)))

left_join_derived(from, result) ==
    <<Join("left", from_sources_to_table_source(from), result.derived, <<result.on>>)>>

(* The WHERE walk: e with its correlated scalar subqueries replaced by     *)
(* columns of the derived tables joined to from.                           *)
ScalarPass(ok, e, from, n, transformed) ==
    [ok |-> ok, e |-> e, from |-> from, n |-> n, transformed |-> transformed]
ScalarJoined(e, from, n, result) ==
    IF result = <<>> THEN ScalarPass(FALSE, e, from, n, FALSE)
    ELSE ScalarPass(TRUE, Scalar(result[1].column), left_join_derived(from, result[1]), n + 1, TRUE)
BothSides(e, l, r) ==
    IF ~l.ok THEN l ELSE ScalarPass(r.ok, Binary(e.op, l.e, r.e), r.from, r.n, l.transformed \/ r.transformed)
Under(e, x) == ScalarPass(x.ok, Unary(e.op, x.e), x.from, x.n, x.transformed)
RECURSIVE conjunct_scalar_decorrelate(_, _, _)
RightSide(e, l) == BothSides(e, l, conjunct_scalar_decorrelate(e.r, l.from, l.n))
conjunct_scalar_decorrelate(e, from, n) ==
    CASE e.e = "subquery" /\ e.link = "expr" /\ OuterRefs(e.q) # {} ->
            ScalarJoined(e, from, n, subquery_scalar_decorrelate(e.q, n))
      [] e.e = "binary" -> RightSide(e, conjunct_scalar_decorrelate(e.l, from, n))
      [] e.e = "unary" -> Under(e, conjunct_scalar_decorrelate(e.x, from, n))
      [] OTHER -> ScalarPass(TRUE, e, from, n, FALSE)

--------------------------------------------------------------------------
(* One SELECT (driver.rs): its columns, then its WHERE conjuncts.          *)

ColumnPass(ok, columns, from, n, transformed) ==
    [ok |-> ok, columns |-> columns, from |-> from, n |-> n, transformed |-> transformed]
ColumnJoined(pass, output, result) ==
    IF result # <<>>
    THEN ColumnPass(TRUE, Append(pass.columns, Output(result[1].column, output.as)),
                    left_join_derived(pass.from, result[1]), pass.n + 1, TRUE)
    ELSE ColumnPass(~scalar_expr_has_correlation(output.x), Append(pass.columns, output),
                    pass.from, pass.n, pass.transformed)
select_column_decorrelate(pass, output) ==
    LET correlated == output.x.c = "sub" /\ OuterRefs(output.x.q) # {}
    IN  IF ~pass.ok THEN pass
        ELSE ColumnJoined(pass, output,
                          IF correlated THEN subquery_scalar_decorrelate(output.x.q, pass.n) ELSE <<>>)

(* Exists, NotExists, InAny or NotInAll for a correlated subquery under at *)
(* most one NOT; "none" leaves the conjunct to the residual path.          *)
conjunct_join_classify(conjunct) ==
    LET negated == conjunct.e = "unary" /\ conjunct.op = "not"
        predicate == IF negated THEN conjunct.x ELSE conjunct
    IN  IF ~(predicate.e = "subquery" /\ OuterRefs(predicate.q) # {}) THEN [kind |-> "none", at |-> predicate]
        ELSE [kind |-> CASE predicate.link = "exists" -> IF negated THEN "NotExists" ELSE "Exists"
                         [] predicate.link = "any" -> IF negated THEN "NotInAll" ELSE "InAny"
                         [] predicate.link = "all" -> IF negated THEN "none" ELSE "NotInAll"
                         [] predicate.link = "expr" -> "none",
              at |-> predicate]

(* Keep, ScalarDecorrelate or Reject: no correlation under OR, nor         *)
(* directly under a NOT that is not a join's.                              *)
residual_classify(conjunct) ==
    IF ~where_expr_has_correlation(conjunct) THEN "Keep"
    ELSE CASE conjunct.e = "binary" /\ conjunct.op = "or" -> "Reject"
           [] conjunct.e = "unary" /\ conjunct.op = "not" -> IF conjunct.x.e = "subquery" THEN "Reject" ELSE "Keep"
           [] OTHER -> "ScalarDecorrelate"

WherePass(ok, select, remaining, n, transformed) ==
    [ok |-> ok, select |-> select, remaining |-> remaining, n |-> n, transformed |-> transformed]
JoinOutcome(pass, conjunct, out) ==
    IF out.applied
    THEN WherePass(TRUE, out.select,
                   IF Some(out.select.where) THEN where_expr_conjuncts_split(out.select.where[1]) ELSE <<>>, pass.n, TRUE)
    ELSE WherePass(out.ok, pass.select, Append(pass.remaining, conjunct), pass.n, pass.transformed)
join_apply(pass, join, conjunct) ==
    JoinOutcome(pass, conjunct,
        try_decorrelate(join.kind, [pass.select EXCEPT !.where = where_expr_conjuncts_join(pass.remaining)],
                        join.at.q, join.at.test))
ScalarOutcome(pass, scalar) ==
    WherePass(scalar.ok, [pass.select EXCEPT !.from = scalar.from],
              Append(pass.remaining, scalar.e), scalar.n, pass.transformed \/ scalar.transformed)
residual_apply(pass, conjunct, class) ==
    IF class = "ScalarDecorrelate"
    THEN ScalarOutcome(pass, conjunct_scalar_decorrelate(conjunct, pass.select.from, pass.n))
    ELSE WherePass(class = "Keep", pass.select, Append(pass.remaining, conjunct), pass.n, pass.transformed)
classified_apply(pass, join, conjunct) ==
    IF join.kind = "none" THEN residual_apply(pass, conjunct, residual_classify(conjunct))
    ELSE join_apply(pass, join, conjunct)
conjunct_apply(pass, conjunct) ==
    IF ~pass.ok THEN pass ELSE classified_apply(pass, conjunct_join_classify(conjunct), conjunct)

WhereStart(select, columns) ==
    WherePass(columns.ok /\ ~(Some(select.having) /\ where_expr_has_correlation(select.having[1])),
              [select EXCEPT !.columns = columns.columns, !.from = columns.from],
              <<>>, columns.n, columns.transformed)
WhereRejoined(pass) == [pass EXCEPT !.select.where = where_expr_conjuncts_join(pass.remaining)]
select_node_decorrelate(select, n) ==
    LET conjuncts == IF Some(select.where) THEN where_expr_conjuncts_split(select.where[1]) ELSE <<>>
    IN  WhereRejoined(FoldLeft(conjunct_apply,
          WhereStart(select, FoldLeft(select_column_decorrelate,
                                      ColumnPass(TRUE, <<>>, select.from, n, FALSE), select.columns)),
          conjuncts))

SelectOutcome(q, s) == [ok |-> s.ok, q |-> [q EXCEPT !.s = s.select], n |-> s.n, transformed |-> s.transformed]
SetOutcome(q, l, r) ==
    [ok |-> l.ok /\ r.ok, q |-> [q EXCEPT !.l = l.q, !.r = r.q], n |-> r.n,
     transformed |-> l.transformed \/ r.transformed]
RECURSIVE query_expr_decorrelate_inner(_, _)
RightBranch(q, l) == SetOutcome(q, l, query_expr_decorrelate_inner(q.r, l.n))
query_expr_decorrelate_inner(q, n) ==
    CASE q.b = "select" -> SelectOutcome(q, select_node_decorrelate(q.s, n))
      [] q.b = "setop" -> RightBranch(q, query_expr_decorrelate_inner(q.l, n))
      [] q.b = "values" -> [ok |-> TRUE, q |-> q, n |-> n, transformed |-> FALSE]
query_expr_decorrelate(q) == query_expr_decorrelate_inner(q, 1)
=============================================================================
