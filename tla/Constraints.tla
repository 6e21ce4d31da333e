---------------------------- MODULE Constraints ----------------------------
(***************************************************************************)
(* Constraint extraction and the range algebra over it: query/cast.rs,     *)
(* query/constraints/extract.rs, range.rs and subsume.rs.  A predicate is  *)
(* reduced to per-column constraints; those of a column to a range; a      *)
(* cached query covers a new one on a table when each of its ranges holds  *)
(* the new one's.                                                          *)
(***************************************************************************)
EXTENDS SqlTerms

--------------------------------------------------------------------------
(* Casts (query/cast.rs).                                                  *)

DataType(column) == IF column.t \in DOMAIN Columns THEN Columns[column.t][column.col] ELSE "text"

cast_target_is_identity_on(target, base) ==
    \/ target = "text" /\ base \in {"text", "int4"}
    \/ target \in {"int4", "bool"} /\ base = target
cast_target_is_coercion_supported(target, base) == target \in {"int4", "bool"} /\ base = "text"

resolved_strip_identity_cast(x) ==
    IF x.c = "cast" /\ x.x.c = "col" /\ cast_target_is_identity_on(x.to, DataType(x.x)) THEN x.x ELSE x

(* <<>> for a condition that is not a scalar.                              *)
resolved_where_scalar_leaf(e) ==
    IF e.e = "scalar" THEN <<resolved_strip_identity_cast(e.x)>> ELSE <<>>

(* <<[col, cast, op, v]>> with the column on the left; cast is "" for a    *)
(* bare column.                                                            *)
canonicalize_comparison(binary) ==
    LET l == resolved_where_scalar_leaf(binary.l)
        r == resolved_where_scalar_leaf(binary.r)
        column_target(x) ==
            CASE x.c = "col" -> <<x, "">>
              [] x.c = "cast" /\ x.x.c = "col" -> <<x.x, x.to>>
              [] OTHER -> <<>>
        canonical(x, op, v) == [col |-> x[1], cast |-> x[2], op |-> op, v |-> v]
    IN  IF ~Some(l) \/ ~Some(r) THEN <<>>
        ELSE IF r[1].c = "lit" /\ Some(column_target(l[1]))
             THEN <<canonical(column_target(l[1]), binary.op, r[1].v)>>
        ELSE IF l[1].c = "lit" /\ Some(column_target(r[1]))
             THEN <<canonical(column_target(r[1]), op_flip(binary.op), l[1].v)>>
        ELSE <<>>

--------------------------------------------------------------------------
(* Extraction (extract.rs).                                                *)

literal_value_is_incomparable(v) == v.k \in {"param", "null"}
Comparable(a, b) == a.k = b.k /\ a.k \in {"int", "float"}

ColumnConstraint(kind, column, cast, op, v, vs) ==
    [kind |-> kind, column |-> column, cast |-> cast, op |-> op, v |-> v, vs |-> vs]
Comparison(column, op, v) == ColumnConstraint("cmp", column, "", op, v, {})
InSet(column, vs) == ColumnConstraint("in", column, "", "=", NullLiteral, vs)
CastComparison(column, cast, op, v) == ColumnConstraint("cast", column, cast, op, v, {})

Collected(cs, eqs, complete) == [cs |-> cs, eqs |-> eqs, complete |-> complete]
Nothing == Collected({}, {}, TRUE)
Incomplete == Collected({}, {}, FALSE)
Both(a, b) == Collected(a.cs \cup b.cs, a.eqs \cup b.eqs, a.complete /\ b.complete)

comparison_analyze(binary) ==
    LET found == canonicalize_comparison(binary)
        l == resolved_where_scalar_leaf(binary.l)
        r == resolved_where_scalar_leaf(binary.r)
    IN  IF Some(found)
        THEN LET f == found[1]
             IN  IF f.cast = "" THEN Collected({Comparison(f.col, f.op, f.v)}, {}, TRUE)
                 ELSE IF cast_target_is_coercion_supported(f.cast, DataType(f.col))
                      THEN Collected({CastComparison(f.col, f.cast, f.op, f.v)}, {}, TRUE)
                 ELSE Incomplete
        ELSE IF /\ Some(l) /\ Some(r) /\ binary.op = "="
                /\ l[1].c = "col" /\ r[1].c = "col"
             THEN Collected({}, {[left |-> l[1], right |-> r[1]]}, TRUE)
        ELSE Incomplete

IsColumn(e) == e.e = "scalar" /\ e.x.c = "col"
IsLiteral(e) == e.e = "scalar" /\ e.x.c = "lit"

between_constraints_extract(op, xs) ==
    IF ~(IsColumn(xs[1]) /\ IsLiteral(xs[2]) /\ IsLiteral(xs[3])) THEN Nothing
    ELSE LET a == xs[2].x.v
             b == xs[3].x.v
             swap == op = "between symmetric" /\ a.n > b.n
         IN  IF op = "between symmetric" /\ ~Comparable(a, b) THEN Nothing
             ELSE Collected({Comparison(xs[1].x, ">=", IF swap THEN b ELSE a),
                             Comparison(xs[1].x, "<=", IF swap THEN a ELSE b)}, {}, TRUE)

in_constraints_extract(xs) ==
    IF /\ IsColumn(xs[1])
       /\ \A i \in 2..Len(xs) : IsLiteral(xs[i]) /\ ~literal_value_is_incomparable(xs[i].x.v)
    THEN Collected({InSet(xs[1].x, {xs[i].x.v : i \in 2..Len(xs)})}, {}, TRUE)
    ELSE Nothing

any_eq_array_constraints_extract(xs) ==
    IF /\ IsColumn(xs[1]) /\ xs[2].e = "scalar" /\ xs[2].x.c = "array"
       /\ \A i \in DOMAIN xs[2].x.elems :
             xs[2].x.elems[i].c = "lit" /\ ~literal_value_is_incomparable(xs[2].x.elems[i].v)
    THEN Collected({InSet(xs[1].x, {xs[2].x.elems[i].v : i \in DOMAIN xs[2].x.elems})}, {}, TRUE)
    ELSE Incomplete

(* One exclusion per value, up to the first that is not a plain literal.   *)
not_in_constraints_extract(xs) ==
    LET plain(i) == IsLiteral(xs[i]) /\ ~literal_value_is_incomparable(xs[i].x.v)
        taken == {i \in 2..Len(xs) : \A j \in 2..i : plain(j)}
    IN  IF IsColumn(xs[1])
        THEN Collected({Comparison(xs[1].x, "<>", xs[i].x.v) : i \in taken}, {}, TRUE)
        ELSE Nothing

multi_analyze(multi) ==
    CASE multi.op \in {"between", "between symmetric"} -> between_constraints_extract(multi.op, multi.xs)
      [] multi.op = "in" -> in_constraints_extract(multi.xs)
      [] multi.op = "not in" -> not_in_constraints_extract(multi.xs)
      [] multi.op = "= any" -> any_eq_array_constraints_extract(multi.xs)
      [] OTHER -> Incomplete

RECURSIVE where_analyze(_)
where_analyze(e) ==
    CASE e.e = "binary" /\ e.op \in Comparisons -> comparison_analyze(e)
      [] e.e = "binary" /\ e.op = "and" -> Both(where_analyze(e.l), where_analyze(e.r))
      [] e.e = "multi" -> multi_analyze(e)
      [] OTHER -> Incomplete

RECURSIVE join_source_analyze(_)
join_source_analyze(src) ==
    IF src.f # "join" THEN Nothing
    ELSE Both(IF Some(src.on) THEN where_analyze(src.on[1]) ELSE Nothing,
              Both(join_source_analyze(src.l), join_source_analyze(src.r)))

collect_query_constraints(select) ==
    Both(IF Some(select.where) THEN where_analyze(select.where[1]) ELSE Nothing,
         IF Some(select.from) THEN join_source_analyze(select.from[1]) ELSE Nothing)

(* The constraint carried over to the other column of an equality.         *)
across(c, eq) ==
    IF c.kind = "cast" THEN {}
    ELSE IF c.column = eq.left THEN {[c EXCEPT !.column = eq.right]}
    ELSE IF c.column = eq.right THEN {[c EXCEPT !.column = eq.left]}
    ELSE {}

RECURSIVE propagate_constraints(_, _)
propagate_constraints(cs, eqs) ==
    LET more == cs \cup UNION {across(c, eq) : c \in cs, eq \in eqs}
    IN  IF more = cs THEN cs ELSE propagate_constraints(more, eqs)

table_constraint(c) ==
    [kind |-> c.kind, col |-> c.column.col, cast |-> c.cast, op |-> c.op, v |-> c.v, vs |-> c.vs]
table_constraints_group(cs) ==
    [t \in {c.column.t : c \in cs} |-> {table_constraint(c) : c \in {d \in cs : d.column.t = t}}]
constraints_finish(found) ==
    [equivalences |-> found.eqs,
     table_constraints |-> table_constraints_group(propagate_constraints(found.cs, found.eqs)),
     where_analysis_complete |-> found.complete]
analyze_query_constraints(select) == constraints_finish(collect_query_constraints(select))

For(constraints, table) ==
    IF table \in DOMAIN constraints.table_constraints THEN constraints.table_constraints[table] ELSE {}

is_join(eq) == eq.left.t # eq.right.t \/ eq.left.a # eq.right.a
table_join_columns(constraints, table) ==
    UNION {IF eq.left.t = table THEN {eq.left.col}
           ELSE IF eq.right.t = table THEN {eq.right.col} ELSE {} :
             eq \in {x \in constraints.equivalences : is_join(x)}}

--------------------------------------------------------------------------
(* Ranges (range.rs).  A bound is [v, incl]; lower and upper are options.  *)

ColumnRange(r, vs, lower, upper, not_equal) ==
    [r |-> r, vs |-> vs, lower |-> lower, upper |-> upper, not_equal |-> not_equal]
Plain(r) == ColumnRange(r, {}, <<>>, <<>>, {})
EqualTo(v) == ColumnRange("equal", {v}, <<>>, <<>>, {})
OneOf(vs) == ColumnRange("in", vs, <<>>, <<>>, {})
Point(range) == CHOOSE v \in range.vs : TRUE

Sides == {"lower", "upper"}
orient(side, n) == IF side = "lower" THEN n ELSE 0 - n
admits(side, v, bound) ==
    \/ orient(side, v.n) > orient(side, bound.v.n)
    \/ v.n = bound.v.n /\ bound.incl
value_satisfies(side, v, bound) == Comparable(v, bound.v) /\ admits(side, v, bound)

(* The tightest of the bounds on a side: exclusive wins at equal values;   *)
(* "unknown" when two of them do not compare.                              *)
bound_tighten(side, bounds) ==
    IF bounds = {} THEN <<>>
    ELSE LET best == {b \in bounds : \A x \in bounds : orient(side, b.v.n) >= orient(side, x.v.n)}
         IN  <<CHOOSE b \in best : b.incl => \A x \in best : x.incl>>
bounds_comparable(bounds) == \A a, b \in bounds : a = b \/ Comparable(a.v, b.v)

(* Exclusions count for a value outside the bounds too.                    *)
range_contains_value(range, v) ==
    /\ \A side \in Sides : Some(range[side]) => value_satisfies(side, v, range[side][1])
    /\ v \notin range.not_equal

comparison_range_build(cmps) ==
    LET bounds(strict, incl) == {[v |-> c.v, incl |-> c.op = incl] : c \in {d \in cmps : d.op \in {strict, incl}}}
        lows == bounds(">", ">=")
        highs == bounds("<", "<=")
        lower == bound_tighten("lower", lows)
        upper == bound_tighten("upper", highs)
        equals == {c.v : c \in {d \in cmps : d.op = "="}}
        not_equal == {c.v : c \in {d \in cmps : d.op = "<>"}}
        interval == ColumnRange("range", {}, lower, upper, not_equal)
        outside(v) == \E side \in Sides : Some(interval[side]) /\ ~value_satisfies(side, v, interval[side][1])
    IN  CASE cmps = {} -> Plain("unconstrained")
          [] cmps # {} /\ \E c \in cmps : literal_value_is_incomparable(c.v) -> Plain("unknown")
          [] OTHER ->
             IF ~bounds_comparable(lows) \/ ~bounds_comparable(highs) THEN Plain("unknown")
             ELSE IF Cardinality(equals) > 1 THEN Plain("empty")
             ELSE IF equals # {}
                  THEN LET v == CHOOSE x \in equals : TRUE
                       IN  IF \E side \in Sides : Some(interval[side]) /\ ~Comparable(v, interval[side][1].v)
                           THEN Plain("unknown")
                           ELSE IF outside(v) \/ v \in not_equal THEN Plain("empty") ELSE EqualTo(v)
             ELSE IF Some(lower) /\ Some(upper)
                  THEN IF ~Comparable(lower[1].v, upper[1].v) THEN Plain("unknown")
                       ELSE IF lower[1].v.n > upper[1].v.n THEN Plain("empty")
                       ELSE IF lower[1].v.n < upper[1].v.n THEN interval
                       ELSE IF ~lower[1].incl \/ ~upper[1].incl \/ lower[1].v \in not_equal THEN Plain("empty")
                       ELSE EqualTo(lower[1].v)
             ELSE interval

in_set_range_build(vs, cmps) ==
    LET filter == comparison_range_build(cmps)
        left == {v \in vs : range_contains_value(filter, v)}
    IN  CASE vs = {} -> Plain("empty")
          [] vs # {} /\ \E v \in vs : literal_value_is_incomparable(v) -> Plain("unknown")
          [] OTHER ->
             (CASE filter.r \in {"unknown", "empty"} -> filter
                [] filter.r = "unconstrained" -> OneOf(vs)
                [] filter.r = "equal" -> IF Point(filter) \in vs THEN filter ELSE Plain("empty")
                [] filter.r = "range" ->
                      IF left = {} THEN Plain("empty")
                      ELSE IF Cardinality(left) = 1 THEN EqualTo(CHOOSE v \in left : TRUE)
                      ELSE OneOf(left))

column_range_build(constraints) ==
    LET sets == {c \in constraints : c.kind = "in"}
        cmps == constraints \ sets
    IN  CASE constraints = {} -> Plain("unconstrained")
          [] constraints # {} /\ Cardinality(sets) > 1 -> Plain("unknown")
          [] constraints # {} /\ Cardinality(sets) = 1 -> in_set_range_build((CHOOSE c \in sets : TRUE).vs, cmps)
          [] constraints # {} /\ sets = {} -> comparison_range_build(cmps)

bound_covered(side, cached, new) ==
    Some(cached) =>
        /\ Some(new)
        /\ Comparable(new[1].v, cached[1].v)
        /\ \/ orient(side, new[1].v.n) > orient(side, cached[1].v.n)
           \/ new[1].v.n = cached[1].v.n /\ (~new[1].incl \/ cached[1].incl)

range_subsumes_range(cached, new) ==
    /\ \A side \in Sides : bound_covered(side, cached[side], new[side])
    /\ \A v \in cached.not_equal :
          v \in new.not_equal \/ ~range_contains_value([new EXCEPT !.not_equal = {}], v)

column_range_subsumes(cached, new) ==
    CASE cached.r = "unknown" \/ new.r = "unknown" \/ cached.r = "empty" -> FALSE
      [] OTHER ->
         (CASE new.r = "empty" -> TRUE
            [] new.r # "empty" /\ cached.r = "unconstrained" -> TRUE
            [] new.r # "empty" /\ cached.r # "unconstrained" ->
                 /\ new.r # "unconstrained"
                 /\ CASE cached.r = "equal" -> new.r = "equal" /\ new.vs = cached.vs
                      [] cached.r = "in" -> new.r \in {"equal", "in"} /\ new.vs \subseteq cached.vs
                      [] cached.r = "range" ->
                            IF new.r = "range" THEN range_subsumes_range(cached, new)
                            ELSE \A v \in new.vs : range_contains_value(cached, v))

(* The bare column and each cast of it are buckets of their own.           *)
constraints_group_by_column(constraints) ==
    [b \in {<<c.col, c.cast>> : c \in constraints} |-> {c \in constraints : <<c.col, c.cast>> = b}]

table_constraints_subsumed(new, cached, table) ==
    /\ cached.where_analysis_complete
    /\ \/ For(cached, table) = {}
       \/ /\ For(new, table) # {}
          /\ LET old_by == constraints_group_by_column(For(cached, table))
                 new_by == constraints_group_by_column(For(new, table))
             IN  \A b \in DOMAIN old_by :
                    column_range_subsumes(
                        column_range_build(old_by[b]),
                        column_range_build(IF b \in DOMAIN new_by THEN new_by[b] ELSE {}))
=============================================================================
