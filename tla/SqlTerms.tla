------------------------------ MODULE SqlTerms ------------------------------
(***************************************************************************)
(* The terms of a query, in the shapes of query/resolved/mod.rs, and what  *)
(* PostgreSQL computes for them.  The constructors model the code's types; *)
(* the evaluation (Eval, Output, Answers) is the external reference every  *)
(* rewrite, classification and cached answer is compared with.             *)
(*                                                                         *)
(* A cell of a row is the wire text of a value, or NULL.  Numbers are      *)
(* counted in halves, so that 1, 1.5 and 2 are 2, 3 and 4.  Texts have two *)
(* orders, the bytes' and the collation's, which disagree on "B" and "a".  *)
(***************************************************************************)
EXTENDS Integers, Sequences, FiniteSets, SequencesExt, TLC

CONSTANTS Columns,   \* the columns of each relation: [relation -> [column -> type]]
          Key        \* each relation's single-column primary key

NULL == "NULL"

--------------------------------------------------------------------------
(* Values.                                                                 *)

Bytes == <<"1", "1.5", "2", "3", "B", "a", "f", "t">>
Collation == <<"1", "1.5", "2", "3", "a", "B", "f", "t">>
Rank(order, text) == CHOOSE i \in DOMAIN order : order[i] = text
Number == [t \in {"1", "1.5", "2", "3"} |->
             CASE t = "1" -> 2 [] t = "1.5" -> 3 [] t = "2" -> 4 [] t = "3" -> 6]
ParsesInt(text) == text \in DOMAIN Number /\ Number[text] % 2 = 0
ParsesFloat(text) == text \in DOMAIN Number

LiteralValue(kind, n, s) == [k |-> kind, n |-> n, s |-> s]
Integer(i) == LiteralValue("int", 2 * i, "")
Float(halves) == LiteralValue("float", halves, "")
String(s) == LiteralValue("str", 0, s)
Boolean(b) == LiteralValue("bool", IF b THEN 1 ELSE 0, "")
NullLiteral == LiteralValue("null", 0, "")
Parameter(i) == LiteralValue("param", i, "")

(* A typed value: kind num, txt, bool, unk (an untyped string) or null.    *)
Typed(kind, n, s) == [k |-> kind, n |-> n, s |-> s]
NullValue == Typed("null", 0, "")
Truth(b) == Typed("bool", IF b THEN 1 ELSE 0, "")
CellValue(type, cell) ==
    CASE cell = NULL -> NullValue
      [] cell # NULL /\ type \in {"int4", "numeric"} -> Typed("num", Number[cell], "")
      [] cell # NULL /\ type = "text" -> Typed("txt", Rank(Collation, cell), cell)
      [] cell # NULL /\ type = "bool" -> Truth(cell = "t")
LiteralTyped(v) ==
    CASE v.k \in {"int", "float"} -> Typed("num", v.n, "")
      [] v.k = "str" -> Typed("unk", 0, v.s)
      [] v.k = "bool" -> Typed("bool", v.n, "")
      [] v.k \in {"null", "param"} -> NullValue

(* An untyped string takes the type of what it is compared with.           *)
Coerced(x, y) ==
    CASE x.k = "unk" /\ y.k = "num" -> CellValue("int4", x.s)
      [] x.k = "unk" /\ y.k # "num" -> CellValue("text", x.s)
      [] x.k # "unk" -> x
CompareTyped(op, x, y) ==
    IF x.k = "null" \/ y.k = "null" THEN "U"
    ELSE IF CASE op = "=" -> x.n = y.n [] op = "<>" -> x.n # y.n
              [] op = "<" -> x.n < y.n [] op = "<=" -> x.n <= y.n
              [] op = ">" -> x.n > y.n [] op = ">=" -> x.n >= y.n
         THEN "T" ELSE "F"
Compare(op, x, y) == CompareTyped(op, Coerced(x, y), Coerced(y, x))

And3(a, b) == IF a = "F" \/ b = "F" THEN "F" ELSE IF a = "T" /\ b = "T" THEN "T" ELSE "U"
Not3(a) == CASE a = "T" -> "F" [] a = "F" -> "T" [] a = "U" -> "U"
Or3(a, b) == Not3(And3(Not3(a), Not3(b)))
AllOf3(S) == IF "F" \in S THEN "F" ELSE IF "U" \in S THEN "U" ELSE "T"
AnyOf3(S) == IF "T" \in S THEN "T" ELSE IF "U" \in S THEN "U" ELSE "F"

--------------------------------------------------------------------------
(* Terms.                                                                  *)

(* Scalars: a column under its alias in scope, a literal, a cast, ...      *)
Column(table, alias, column) == [c |-> "col", t |-> table, a |-> alias, col |-> column]
Literal(v) == [c |-> "lit", v |-> v]
TypeCast(x, target) == [c |-> "cast", x |-> x, to |-> target]
Function(f, args) == [c |-> "func", f |-> f, args |-> args]
Arithmetic(op, l, r) == [c |-> "arith", op |-> op, l |-> l, r |-> r]
ArrayOf(elems) == [c |-> "array", elems |-> elems]
ScalarSubquery(q) == [c |-> "sub", q |-> q]

(* Conditions.                                                             *)
Scalar(x) == [e |-> "scalar", x |-> x]
Binary(op, l, r) == [e |-> "binary", op |-> op, l |-> l, r |-> r]
Unary(op, x) == [e |-> "unary", op |-> op, x |-> x]
Multi(op, xs) == [e |-> "multi", op |-> op, xs |-> xs]
Subquery(link, op, q, test) == [e |-> "subquery", link |-> link, op |-> op, q |-> q, test |-> test]

Comparisons == {"=", "<>", "<", "<=", ">", ">="}
op_flip(op) == CASE op = "<" -> ">" [] op = "<=" -> ">=" [] op = ">" -> "<" [] op = ">=" -> "<="
                 [] op \in {"=", "<>"} -> op

(* Sources, SELECT nodes and query expressions; an option is a sequence of *)
(* at most one element.  A VALUES source stands for rows of a table, each  *)
(* numbered by the column __pgc_idx.                                       *)
Table(t, alias) == [f |-> "table", t |-> t, a |-> alias]
Join(type, l, r, on) == [f |-> "join", type |-> type, l |-> l, r |-> r, on |-> on]
Derived(q, alias, kind) == [f |-> "derived", q |-> q, a |-> alias, kind |-> kind]
ValuesSource(t, alias, rows) == [f |-> "values", t |-> t, a |-> alias, rows |-> rows]
Output(x, as) == [x |-> x, as |-> as]
Select(columns, from, where) ==
    [columns |-> columns, from |-> from, where |-> where, group_by |-> <<>>, having |-> <<>>,
     distinct |-> FALSE]
Query(select) == [b |-> "select", s |-> select, order_by |-> <<>>, limit |-> 0]
SetOp(op, l, r) == [b |-> "setop", op |-> op, l |-> l, r |-> r, order_by |-> <<>>, limit |-> 0]
ValuesQuery(rows) == [b |-> "values", rows |-> rows, order_by |-> <<>>, limit |-> 0]

Some(option) == option # <<>>
Conjoin(where, e) == IF Some(where) THEN <<Binary("and", where[1], e)>> ELSE <<e>>

--------------------------------------------------------------------------
(* What PostgreSQL computes (external).  An environment maps each alias in *)
(* scope to a row of typed values.                                         *)

TypedRow(t, row) == [col \in DOMAIN Columns[t] |-> CellValue(Columns[t][col], row[col])]
Numbered(row, idx) == row @@ ("__pgc_idx" :> idx)
OutputNames(select) == {select.columns[i].as : i \in DOMAIN select.columns}

RECURSIVE NullRows(_)
NullRows(src) ==
    CASE src.f = "table" -> src.a :> [col \in DOMAIN Columns[src.t] |-> NullValue]
      [] src.f = "values" -> src.a :> Numbered([col \in DOMAIN Columns[src.t] |-> NullValue], NullValue)
      [] src.f = "derived" ->
            src.a :> [name \in OutputNames(src.q.s) |-> NullValue]
      [] src.f = "join" -> NullRows(src.l) @@ NullRows(src.r)

Aggregates == {"count", "max", "min"}
Aggregating(select) ==
    Some(select.group_by) \/ Some(select.having)
      \/ \E i \in DOMAIN select.columns :
            select.columns[i].x.c = "func" /\ select.columns[i].x.f \in Aggregates

RECURSIVE Value(_, _, _)      \* of a scalar
RECURSIVE Eval(_, _, _)       \* of a condition, in three values
RECURSIVE Environments(_, _, _)
RECURSIVE Rows(_, _, _)       \* the rows a query expression returns

Cast(v, type) ==
    CASE v.k = "null" -> NullValue
      [] v.k \in {"txt", "unk"} -> CellValue(type, v.s)
      [] v.k \notin {"null", "txt", "unk"} -> v
Sum(op, l, r) ==
    IF l.k = "null" \/ r.k = "null" THEN NullValue
    ELSE Typed("num", IF op = "+" THEN l.n + r.n ELSE l.n - r.n, "")
Single(rows, name) == IF rows = {} THEN NullValue ELSE (CHOOSE r \in rows : TRUE)[name]
FirstOutput(q) == q.s.columns[1].as
Value(x, env, db) ==
    CASE x.c = "col" -> env[x.a][x.col]
      [] x.c = "lit" -> LiteralTyped(x.v)
      [] x.c = "cast" -> Cast(Value(x.x, env, db), x.to)
      [] x.c = "arith" -> Sum(x.op, Value(x.l, env, db), Value(x.r, env, db))
      [] x.c = "func" -> Value(x.args[1], env, db)    \* a plain function is the identity
      [] x.c = "sub" -> Single(Rows(x.q, env, db), FirstOutput(x.q))

Operand(e) == IF e.e = "subquery" THEN ScalarSubquery(e.q) ELSE e.x
TruthOf(v) == IF v.k = "null" THEN "U" ELSE IF v.n = 1 THEN "T" ELSE "F"
Is(b) == IF b THEN "T" ELSE "F"
Connective(op, l, r) == IF op = "and" THEN And3(l, r) ELSE Or3(l, r)
Among(vs, others, op) == {Compare(op, vs[1], others[i]) : i \in DOMAIN others}
Between(x, lo, hi) == And3(Compare(">=", x, lo), Compare("<=", x, hi))
MultiTruth(op, vs, elems) ==
    CASE op = "in" -> AnyOf3(Among(vs, Tail(vs), "="))
      [] op = "not in" -> AllOf3(Among(vs, Tail(vs), "<>"))
      [] op = "between" -> Between(vs[1], vs[2], vs[3])
      [] op = "not between" -> Not3(Between(vs[1], vs[2], vs[3]))
      [] op = "between symmetric" -> Or3(Between(vs[1], vs[2], vs[3]), Between(vs[1], vs[3], vs[2]))
      [] op = "= any" -> AnyOf3(Among(vs, elems, "="))
      [] op = "<> all" -> AllOf3(Among(vs, elems, "<>"))
Linked(link, rows, found) ==
    CASE link = "exists" -> Is(rows # {})
      [] link = "any" -> AnyOf3(found)
      [] link = "all" -> AllOf3(found)
LinkedTo(e, rows, test) ==
    Linked(e.link, rows, {Compare(e.op, test, r[FirstOutput(e.q)]) : r \in rows})
Eval(e, env, db) ==
    CASE e.e = "scalar" -> TruthOf(Value(e.x, env, db))
      [] e.e = "binary" /\ e.op \notin Comparisons -> Connective(e.op, Eval(e.l, env, db), Eval(e.r, env, db))
      [] e.e = "binary" /\ e.op \in Comparisons ->
            Compare(e.op, Value(Operand(e.l), env, db), Value(Operand(e.r), env, db))
      [] e.e = "unary" /\ e.op = "not" -> Not3(Eval(e.x, env, db))
      [] e.e = "unary" /\ e.op \in {"is null", "is not null"} ->
            Is((Value(e.x.x, env, db).k = "null") = (e.op = "is null"))
      [] e.e = "unary" /\ e.op \in {"is true", "is not true"} ->
            Is((Eval(e.x, env, db) = "T") = (e.op = "is true"))
      [] e.e = "multi" ->
            MultiTruth(e.op, [i \in DOMAIN e.xs |-> Value(e.xs[i].x, env, db)],
                       [i \in DOMAIN e.xs[2].x.elems |-> Value(e.xs[2].x.elems[i], env, db)])
      [] e.e = "subquery" ->
            LinkedTo(e, Rows(e.q, env, db), Value(e.test[1], env, db))

Padded(src, L, R, matched) ==
    matched
    \cup (IF src.type = "left" THEN {l @@ NullRows(src.r) : l \in {x \in L : ~\E r \in R : x @@ r \in matched}} ELSE {})
    \cup (IF src.type = "right" THEN {NullRows(src.l) @@ r : r \in {x \in R : ~\E l \in L : l @@ x \in matched}} ELSE {})
Joined(src, L, R, outer, db) ==
    Padded(src, L, R, {p[1] @@ p[2] : p \in {x \in L \X R :
                          Some(src.on) => Eval(src.on[1], x[1] @@ x[2] @@ outer, db) = "T"}})
Environments(src, outer, db) ==
    CASE src.f = "table" -> {src.a :> TypedRow(src.t, r) : r \in db[src.t]}
      [] src.f = "values" ->
            {src.a :> Numbered(TypedRow(src.t, src.rows[i]), Typed("num", i, "")) : i \in DOMAIN src.rows}
      [] src.f = "derived" -> {src.a :> r : r \in Rows(src.q, outer, db)}
      [] src.f = "join" -> Joined(src, Environments(src.l, outer, db), Environments(src.r, outer, db), outer, db)

Combined(op, L, R) == CASE op = "union" -> L \cup R [] op = "intersect" -> L \cap R [] op = "except" -> L \ R
Grouped(kept, key) == {{m \in kept : key[m] = key[env]} : env \in kept}
Largest(N) == IF N = {} THEN NullValue ELSE Typed("num", CHOOSE n \in N : \A m \in N : m <= n, "")
OutputOf(select, name) == select.columns[CHOOSE i \in DOMAIN select.columns : select.columns[i].as = name].x
Aggregate(x, G, db) ==
    CASE x.c = "func" /\ x.f = "count" -> Typed("num", 2 * Cardinality(G), "")
      [] x.c = "func" /\ x.f = "max" ->
            Largest({v.n : v \in {w \in {Value(x.args[1], env, db) : env \in G} : w.k # "null"}})
      [] OTHER -> Value(x, CHOOSE env \in G : TRUE, db)
Projected(s, kept, groups, db) ==
    IF Aggregating(s)
    THEN {[name \in OutputNames(s) |-> Aggregate(OutputOf(s, name), G, db)] :
             G \in {H \in groups : Some(s.having) => Aggregate(s.having[1].l.x, H, db).n > s.having[1].r.x.v.n}}
    ELSE {[name \in OutputNames(s) |-> Value(OutputOf(s, name), env, db)] : env \in kept}
Produced(s, kept, db) ==
    Projected(s, kept,
              IF Some(s.group_by)
              THEN Grouped(kept, [env \in kept |-> [i \in DOMAIN s.group_by |-> Value(s.group_by[i], env, db)]])
              ELSE {kept}, db)
Selected(s, all, db) == Produced(s, {env \in all : Some(s.where) => Eval(s.where[1], env, db) = "T"}, db)
Rows(q, outer, db) ==
    CASE q.b = "setop" -> Combined(q.op, Rows(q.l, outer, db), Rows(q.r, outer, db))
      [] q.b = "values" -> ToSet(q.rows)
      [] q.b = "select" ->
            Selected(q.s, {env @@ outer : env \in IF Some(q.s.from) THEN Environments(q.s.from[1], outer, db) ELSE {<<>>}}, db)

(* The answers PostgreSQL may give: all rows, or any choice of the first   *)
(* limit rows in the order of the sort keys, ties broken arbitrarily.      *)
Precedes(r1, r2, keys) ==
    \E i \in DOMAIN keys :
        /\ \A j \in 1..(i - 1) : r1[keys[j].col] = r2[keys[j].col]
        /\ LET x == r1[keys[i].col]
               y == r2[keys[i].col]
               before == \/ x.k # "null" /\ y.k # "null" /\ x.n < y.n
                         \/ x.k # "null" /\ y.k = "null"
               after == \/ x.k # "null" /\ y.k # "null" /\ x.n > y.n
                        \/ x.k = "null" /\ y.k # "null"
           IN  IF keys[i].desc THEN after ELSE before
Answers(q, db) ==
    LET rows == Rows(q, <<>>, db)
    IN  IF q.limit = 0 \/ Cardinality(rows) <= q.limit THEN {rows}
        ELSE {S \in SUBSET rows :
                /\ Cardinality(S) = q.limit
                /\ \A r1 \in S, r2 \in rows \ S : ~Precedes(r2, r1, q.order_by)}
=============================================================================
