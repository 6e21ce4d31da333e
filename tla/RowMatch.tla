------------------------------ MODULE RowMatch ------------------------------
(***************************************************************************)
(* Deciding a predicate on one changed row, from its wire text:            *)
(* query/evaluate.rs, query/predicate.rs and cache/writer/cdc/row_match.rs.*)
(* A row is a function from its columns to cells; the tuple of a DELETE    *)
(* under the default replica identity has NULL outside the key.            *)
(***************************************************************************)
EXTENDS ConstraintIndex

--------------------------------------------------------------------------
(* Comparing a cell with a literal (evaluate.rs).                          *)

ordering_satisfies_op(n, m, op) ==
    CASE op = "=" -> n = m [] op = "<>" -> n # m [] op = "<" -> n < m
      [] op = "<=" -> n <= m [] op = ">" -> n > m [] op = ">=" -> n >= m

(* The literal decides how the text is read: a string by its bytes, an     *)
(* integer only if the text is one, a float if it parses, a boolean for =  *)
(* and <>; NULL and parameters never match.                                *)
where_value_compare_string(v, text, op) ==
    CASE v.k = "str" -> ordering_satisfies_op(Rank(Bytes, text), Rank(Bytes, v.s), op)
      [] v.k = "int" -> ParsesInt(text) /\ ordering_satisfies_op(Number[text], v.n, op)
      [] v.k = "float" -> ParsesFloat(text) /\ ordering_satisfies_op(Number[text], v.n, op)
      [] v.k = "bool" ->
            /\ text \in {"t", "f"} /\ op \in {"=", "<>"}
            /\ ordering_satisfies_op(IF text = "t" THEN 1 ELSE 0, v.n, op)
      [] v.k \in {"null", "param"} -> FALSE

(* The value of a cell under a supported cast; <<>> when it does not parse.*)
cast_target_coerce_text(target, text) ==
    CASE target = "int4" -> IF ParsesInt(text) THEN <<LiteralValue("int", Number[text], "")>> ELSE <<>>
      [] target = "bool" -> IF text \in {"t", "f", "1"} THEN <<Boolean(text # "f")>> ELSE <<>>
      [] OTHER -> <<>>

literal_as_bool(v) ==
    CASE v.k = "bool" -> {v.n = 1}
      [] v.k = "str" /\ v.s \in {"t", "f", "1"} -> {v.s # "f"}
      [] v.k = "int" /\ v.n \in {0, 2} -> {v.n = 2}
      [] OTHER -> {}
literal_compare(l, op, r) ==
    IF literal_as_bool(l) # {} /\ literal_as_bool(r) # {}
    THEN CASE op = "=" -> literal_as_bool(l) = literal_as_bool(r)
           [] op = "<>" -> literal_as_bool(l) # literal_as_bool(r)
           [] OTHER -> FALSE
    ELSE CASE l.k = "int" /\ r.k = "int" -> ordering_satisfies_op(l.n, r.n, op)
           [] l.k = "int" /\ r.k = "str" /\ ParsesInt(r.s) -> ordering_satisfies_op(l.n, Number[r.s], op)
           [] OTHER -> FALSE

expr_comparison_evaluate(binary, row, table) ==
    LET found == canonicalize_comparison(binary)
    IN  /\ Some(found)
        /\ LET f == found[1]
               cell == row[f.col.col]
               coerced == cast_target_coerce_text(f.cast, cell)
           IN  /\ f.col.t = table
               /\ CASE cell = NULL -> f.cast = "" /\ f.op = "=" /\ f.v.k = "null"
                    [] cell # NULL /\ f.cast = "" -> where_value_compare_string(f.v, cell, f.op)
                    [] cell # NULL /\ f.cast # "" -> Some(coerced) /\ literal_compare(coerced[1], f.op, f.v)

(* The tests of a column's cell; anything else has no value.               *)
unary_test(op, e, row, table) ==
    LET cell == IF IsColumn(e) /\ e.x.t = table THEN row[e.x.col] ELSE NULL
    IN  CASE op = "is null" -> cell = NULL
          [] op = "is not null" -> cell # NULL
          [] op = "is true" -> cell = "t"
          [] op = "is not true" -> cell # "t"

RECURSIVE where_expr_evaluate(_, _, _)
where_expr_evaluate(e, row, table) ==
    CASE e.e = "binary" /\ e.op \in Comparisons -> expr_comparison_evaluate(e, row, table)
      [] e.e = "binary" /\ e.op = "and" ->
            where_expr_evaluate(e.l, row, table) /\ where_expr_evaluate(e.r, row, table)
      [] e.e = "binary" /\ e.op = "or" ->
            where_expr_evaluate(e.l, row, table) \/ where_expr_evaluate(e.r, row, table)
      [] e.e = "unary" /\ e.op = "not" -> ~where_expr_evaluate(e.x, row, table)
      [] e.e = "unary" /\ e.op # "not" -> unary_test(e.op, e.x, row, table)
      [] OTHER -> FALSE

(* Registration classifies by these: a plain column or literal counts as   *)
(* supported although the evaluator has no case for it.                    *)
is_simple_comparison(binary) ==
    LET found == canonicalize_comparison(binary)
    IN  /\ Some(found)
        /\ found[1].cast # "" => cast_target_is_coercion_supported(found[1].cast, DataType(found[1].col))

RECURSIVE resolved_where_expr_supported(_)
resolved_where_expr_supported(e) ==
    CASE e.e = "scalar" -> e.x.c \in {"col", "lit"}
      [] e.e = "binary" /\ e.op \in {"and", "or"} ->
            resolved_where_expr_supported(e.l) /\ resolved_where_expr_supported(e.r)
      [] e.e = "binary" /\ e.op \in Comparisons -> is_simple_comparison(e)
      [] e.e = "unary" -> resolved_where_expr_supported(e.x)
      [] OTHER -> FALSE

--------------------------------------------------------------------------
(* The compiled predicate (predicate.rs): comparisons canonicalised and    *)
(* columns located once, at registration.                                  *)

RECURSIVE compile(_, _)
compile(e, table) ==
    CASE e.e = "binary" /\ e.op \in {"and", "or"} ->
            [p |-> e.op, l |-> compile(e.l, table), r |-> compile(e.r, table)]
      [] e.e = "binary" /\ e.op \in Comparisons ->
            LET found == canonicalize_comparison(e)
            IN  IF Some(found)
                THEN [p |-> "compare", in_table |-> found[1].col.t = table, col |-> found[1].col.col,
                      target |-> found[1].cast, op |-> found[1].op, v |-> found[1].v]
                ELSE [p |-> "false"]
      [] e.e = "unary" /\ e.op = "not" -> [p |-> "not", x |-> compile(e.x, table)]
      [] e.e = "unary" /\ e.op # "not" ->
            [p |-> "null_check", op |-> e.op,
             col |-> IF IsColumn(e.x) /\ e.x.x.t = table THEN <<e.x.x.col>> ELSE <<>>]
      [] OTHER -> [p |-> "false"]

RECURSIVE eval(_, _)
eval(p, row) ==
    CASE p.p = "and" -> eval(p.l, row) /\ eval(p.r, row)
      [] p.p = "or" -> eval(p.l, row) \/ eval(p.r, row)
      [] p.p = "not" -> ~eval(p.x, row)
      [] p.p = "null_check" ->
            LET cell == IF Some(p.col) THEN row[p.col[1]] ELSE NULL
            IN (CASE p.op = "is null" -> cell = NULL
                  [] p.op = "is not null" -> cell # NULL
                  [] p.op = "is true" -> cell = "t"
                  [] p.op = "is not true" -> cell # "t")
      [] p.p = "compare" ->
            /\ p.in_table
            /\ LET cell == row[p.col]
                   coerced == cast_target_coerce_text(p.target, cell)
               IN (CASE cell = NULL -> p.target = "" /\ p.op = "=" /\ p.v.k = "null"
                     [] cell # NULL /\ p.target = "" -> where_value_compare_string(p.v, cell, p.op)
                     [] cell # NULL /\ p.target # "" -> Some(coerced) /\ literal_compare(coerced[1], p.op, p.v))
      [] p.p = "false" -> FALSE

--------------------------------------------------------------------------
(* The decide pass's row tests (row_match.rs).                             *)

constraint_value_matches(c, text) ==
    CASE c.kind = "cmp" -> where_value_compare_string(c.v, text, c.op)
      [] c.kind = "in" -> \E v \in c.vs : where_value_compare_string(v, text, "=")
      [] c.kind = "cast" ->
            LET coerced == cast_target_coerce_text(c.cast, text)
            IN  Some(coerced) /\ literal_compare(coerced[1], c.op, c.v)

(* A column the row does not carry is skipped; NULL never matches.         *)
row_constraints_match(constraints, table, row) ==
    \A c \in For(constraints, table) :
        c.col \in DOMAIN row => row[c.col] # NULL /\ constraint_value_matches(c, row[c.col])

(* The key tuple of an UPDATE is sent when the key changed, or always      *)
(* under REPLICA IDENTITY FULL.                                            *)
update_pk_changed(full, table, key_data, new_row) ==
    key_data # <<>> /\ (full => key_data[Key[table]] # new_row[Key[table]])

(* row_changes maps a column to [changed, old_null, less]: less is "T" or  *)
(* "F" for old < new, "U" when a side is NULL.                             *)
sort_key_move_is_forward(key, change, new_null) ==
    CASE change.old_null /\ new_null -> FALSE
      [] change.old_null /\ ~new_null -> ~key.nulls_first
      [] ~change.old_null /\ new_null -> key.nulls_first
      [] ~change.old_null /\ ~new_null ->
            \/ change.less = "T" /\ key.desc
            \/ change.less = "F" /\ ~key.desc

window_changes_are_order_keys(uq, row_changes) ==
    \A col \in uq.limit_window_columns :
        \/ ~(col \in DOMAIN row_changes /\ row_changes[col].changed)
        \/ \E i \in DOMAIN uq.order_by_keys : uq.order_by_keys[i].col = col

(* The first sort key that changed decides; any doubt is not a promotion.  *)
window_move_is_promotion(uq, row, row_changes) ==
    /\ Some(uq.order_by_keys)
    /\ window_changes_are_order_keys(uq, row_changes)
    /\ \E i \in DOMAIN uq.order_by_keys :
          LET key == uq.order_by_keys[i]
              seen(j) == uq.order_by_keys[j].col \in DOMAIN row_changes
          IN  /\ \A j \in 1..(i - 1) : seen(j) /\ ~row_changes[uq.order_by_keys[j].col].changed
              /\ seen(i) /\ row_changes[key.col].changed
              /\ sort_key_move_is_forward(key, row_changes[key.col], row[key.col] = NULL)

update_query_matches_locally(uq, row) == Some(uq.compiled_where) => eval(uq.compiled_where[1], row)

(* An UPDATE that left the key alone, of a table joined on its key alone.  *)
(* key is "none" for an INSERT or DELETE, else "unchanged" or "sent".      *)
join_membership_unchanged(uq, table, key) ==
    LET columns == table_join_columns(uq.constraints, table)
    IN  key = "unchanged" /\ columns # {} /\ columns \subseteq {Key[table]}
=============================================================================
