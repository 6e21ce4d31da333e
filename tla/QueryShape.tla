----------------------------- MODULE QueryShape -----------------------------
(***************************************************************************)
(* The shape analyses over a resolved query: the walk over its nodes       *)
(* (resolved/traverse.rs, analysis.rs), its SELECT branches with the role  *)
(* each plays (subquery_collect.rs), the optional sides of outer joins     *)
(* (outer_join.rs) and the per-table update queries (query/update.rs).     *)
(***************************************************************************)
EXTENDS RowMatch

--------------------------------------------------------------------------
(* Every column and table node under a term, in the order of the walk.     *)

RECURSIVE ScalarNodes(_)
RECURSIVE WhereNodes(_)
RECURSIVE SourceNodes(_)
RECURSIVE QueryNodes(_)
Each(nodes(_), terms) == FlattenSeq([i \in DOMAIN terms |-> nodes(terms[i])])

ScalarNodes(x) ==
    CASE x.c = "col" -> <<x>>
      [] x.c = "lit" -> <<>>
      [] x.c = "cast" -> ScalarNodes(x.x)
      [] x.c = "func" -> Each(ScalarNodes, x.args)
      [] x.c = "array" -> Each(ScalarNodes, x.elems)
      [] x.c = "arith" -> ScalarNodes(x.l) \o ScalarNodes(x.r)
      [] x.c = "sub" -> QueryNodes(x.q)
WhereNodes(e) ==
    CASE e.e = "scalar" -> ScalarNodes(e.x)
      [] e.e = "binary" -> WhereNodes(e.l) \o WhereNodes(e.r)
      [] e.e = "unary" -> WhereNodes(e.x)
      [] e.e = "multi" -> Each(WhereNodes, e.xs)
      [] e.e = "subquery" -> QueryNodes(e.q) \o Each(ScalarNodes, e.test)
SourceNodes(src) ==
    CASE src.f = "table" -> <<src>>
      [] src.f = "derived" -> QueryNodes(src.q)
      [] src.f = "join" -> SourceNodes(src.l) \o SourceNodes(src.r) \o Each(WhereNodes, src.on)
SelectNodes(s) ==
    LET output(o) == ScalarNodes(o.x)
    IN  Each(output, s.columns) \o Each(SourceNodes, s.from) \o Each(WhereNodes, s.where)
          \o s.group_by \o Each(WhereNodes, s.having)
QueryNodes(q) ==
    CASE q.b = "select" -> SelectNodes(q.s)
      [] q.b = "setop" -> QueryNodes(q.l) \o QueryNodes(q.r)
      [] q.b = "values" -> <<>>

ColumnNodes(nodes) == {nodes[i] : i \in {j \in DOMAIN nodes : "c" \in DOMAIN nodes[j]}}
TableCount(nodes, t) ==
    Cardinality({i \in DOMAIN nodes : "f" \in DOMAIN nodes[i] /\ nodes[i].t = t})
TableRefs(nodes) == {col.t : col \in ColumnNodes(nodes)}
ColumnsOf(nodes, table) == {col.col : col \in {c \in ColumnNodes(nodes) : c.t = table}}

(* The columns of enclosing queries a subquery refers to: what resolution  *)
(* records as outer_refs, the columns of aliases it does not bind itself.  *)
Aliases(nodes) == {nodes[i].a : i \in {j \in DOMAIN nodes : "f" \in DOMAIN nodes[j]}}
RECURSIVE DerivedAliases(_)
DerivedAliases(src) ==
    CASE src.f = "table" -> {}
      [] src.f = "derived" -> {src.a}
      [] src.f = "join" -> DerivedAliases(src.l) \cup DerivedAliases(src.r)
Unbound(nodes, derived) == {col \in ColumnNodes(nodes) : col.a \notin Aliases(nodes) \cup derived}
OuterRefs(q) ==
    Unbound(QueryNodes(q),
            IF q.b = "select" THEN UNION {DerivedAliases(q.s.from[i]) : i \in DOMAIN q.s.from} ELSE {})

is_single_table(select) == Len(select.from) = 1 /\ select.from[1].f = "table"
SingleTable(select) ==
    LET nodes == SelectNodes(select)
    IN  Cardinality({i \in DOMAIN nodes : "f" \in DOMAIN nodes[i]}) <= 1

RECURSIVE has_aggregate(_)
has_aggregate(x) ==
    CASE x.c = "func" -> x.f \in Aggregates \/ \E i \in DOMAIN x.args : has_aggregate(x.args[i])
      [] x.c = "arith" -> has_aggregate(x.l) \/ has_aggregate(x.r)
      [] x.c = "array" -> \E i \in DOMAIN x.elems : has_aggregate(x.elems[i])
      [] x.c = "cast" -> has_aggregate(x.x)
      [] x.c \in {"col", "lit", "sub"} -> FALSE

(* The tables a branch selects from directly: through joins, not into      *)
(* subqueries.                                                             *)
RECURSIVE direct_table_nodes(_)
direct_table_nodes(src) ==
    CASE src.f = "table" -> <<src>>
      [] src.f = "derived" -> <<>>
      [] src.f = "join" -> direct_table_nodes(src.l) \o direct_table_nodes(src.r)

--------------------------------------------------------------------------
(* SELECT branches with their source: FromClause, or the kind of subquery  *)
(* they sit in.  Negation swaps inclusion and exclusion.                   *)

Branch(select, source) == [select |-> select, source |-> source]
Swapped(kind) == CASE kind = "Inclusion" -> "Exclusion" [] kind = "Exclusion" -> "Inclusion" [] kind = "Scalar" -> "Scalar"

RECURSIVE ScalarBranches(_)
RECURSIVE WhereBranches(_, _)
RECURSIVE SourceBranches(_, _)
RECURSIVE QueryBranches(_, _, _)

ScalarBranches(x) ==
    CASE x.c \in {"col", "lit"} -> <<>>
      [] x.c = "cast" -> ScalarBranches(x.x)
      [] x.c = "func" -> Each(ScalarBranches, x.args)
      [] x.c = "array" -> Each(ScalarBranches, x.elems)
      [] x.c = "arith" -> ScalarBranches(x.l) \o ScalarBranches(x.r)
      [] x.c = "sub" -> QueryBranches(x.q, "Scalar", FALSE)
WhereBranches(e, negated) ==
    LET inner(x) == WhereBranches(x, negated)
        kind == CASE e.link = "all" -> "Exclusion" [] e.link = "expr" -> "Scalar"
                  [] e.link \in {"exists", "any"} -> "Inclusion"
    IN  CASE e.e = "scalar" -> ScalarBranches(e.x)
          [] e.e = "binary" -> inner(e.l) \o inner(e.r)
          [] e.e = "unary" -> WhereBranches(e.x, IF e.op = "not" THEN ~negated ELSE negated)
          [] e.e = "multi" -> Each(inner, e.xs)
          [] e.e = "subquery" ->
                QueryBranches(e.q, IF negated THEN Swapped(kind) ELSE kind, negated)
                  \o Each(ScalarBranches, e.test)
SourceBranches(src, negated) ==
    LET condition(e) == WhereBranches(e, negated)
    IN  CASE src.f = "table" -> <<>>
          [] src.f = "derived" ->
                QueryBranches(src.q, IF negated THEN Swapped(src.kind) ELSE src.kind, negated)
          [] src.f = "join" ->
                SourceBranches(src.l, negated) \o SourceBranches(src.r, negated) \o Each(condition, src.on)
QueryBranches(q, source, negated) ==
    LET from(src) == SourceBranches(src, negated)
        where(e) == WhereBranches(e, negated)
        output(o) == ScalarBranches(o.x)
    IN  CASE q.b = "select" ->
                <<Branch(q.s, source)>> \o Each(from, q.s.from) \o Each(where, q.s.where)
                  \o Each(where, q.s.having) \o Each(output, q.s.columns)
          [] q.b = "setop" -> QueryBranches(q.l, source, negated) \o QueryBranches(q.r, source, negated)
          [] q.b = "values" -> <<>>
select_nodes_with_source(q) == QueryBranches(q, "FromClause", FALSE)

--------------------------------------------------------------------------
(* Optional sides of outer joins.  A table there is terminal when neither  *)
(* WHERE nor an enclosing join's condition refers to it.                   *)

RECURSIVE resolved_join_terminality_walk(_, _)
resolved_join_terminality_walk(src, refs) ==
    IF src.f # "join" THEN [all_optional |-> {}, non_terminal |-> {}]
    ELSE LET side == CASE src.type = "left" -> <<src.r>> [] src.type = "right" -> <<src.l>> [] OTHER -> <<>>
             tables == {t.t : t \in UNION {ToSet(direct_table_nodes(side[i])) : i \in DOMAIN side}}
             child_refs == refs \cup TableRefs(Each(WhereNodes, src.on))
             left == resolved_join_terminality_walk(src.l, child_refs)
             right == resolved_join_terminality_walk(src.r, child_refs)
         IN  [all_optional |-> tables \cup left.all_optional \cup right.all_optional,
              non_terminal |-> (tables \cap refs) \cup left.non_terminal \cup right.non_terminal]
outer_join_optional_tables(select) ==
    IF Len(select.from) # 1 THEN [all_optional |-> {}, non_terminal |-> {}]
    ELSE resolved_join_terminality_walk(select.from[1], TableRefs(Each(WhereNodes, select.where)))

(* One update query per branch and direct table: the branch's own FROM and *)
(* WHERE under SELECT true.                                                *)
SelectTrue == <<Output(Literal(Boolean(TRUE)), "true")>>
resolved_select_node_update_replace(select, columns) == [select EXCEPT !.columns = columns]
query_table_update_queries(q) ==
    LET of(branch) ==
            LET optional == outer_join_optional_tables(branch.select)
                source(t) == IF branch.source # "FromClause" THEN branch.source
                             ELSE IF t \in optional.non_terminal THEN "OuterJoinOptional"
                             ELSE IF t \in optional.all_optional THEN "OuterJoinTerminal"
                             ELSE "FromClause"
                tables == Each(direct_table_nodes, branch.select.from)
            IN  [i \in DOMAIN tables |->
                    [table |-> tables[i].t, source |-> source(tables[i].t),
                     select |-> resolved_select_node_update_replace(branch.select, SelectTrue)]]
    IN  Each(of, select_nodes_with_source(q))
=============================================================================
