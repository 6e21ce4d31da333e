--------------------------- MODULE ConstraintIndex ---------------------------
(***************************************************************************)
(* The index from constraints to the queries that carry them               *)
(* (query/constraint_index): entries are grouped by the set of columns     *)
(* they constrain; equality-only entries hash on their value tuple, the    *)
(* others have, per column, a posting in the structure their range's shape *)
(* calls for.  candidates is the region probe of subsumption,              *)
(* candidates_point the probe of a row.  Both may return too much, never   *)
(* too little.                                                             *)
(*                                                                         *)
(* A posting list is a set of postings [in, key, hi, fp]: the structure    *)
(* (eq, inset, range_lower, range_upper, range_both, opaque), its key, the *)
(* upper bound of a two-sided range, and the query.                        *)
(***************************************************************************)
EXTENDS Constraints

--------------------------------------------------------------------------
(* Keys (value_key.rs): integers and floats share one numeric key.         *)

Keyable(v) == v.k \in {"int", "float", "str", "bool"}
NoKey == [k |-> "none", n |-> 0, s |-> ""]
ValueKey(v) ==
    CASE v.k \in {"int", "float"} -> [k |-> "num", n |-> v.n, s |-> ""]
      [] v.k = "str" -> [k |-> "str", n |-> 0, s |-> v.s]
      [] v.k = "bool" -> [k |-> "bool", n |-> v.n, s |-> ""]
KeyRank(key) == CASE key.k = "num" -> 0 [] key.k = "str" -> 1 [] key.k = "bool" -> 2
KeyLeq(a, b) ==
    \/ KeyRank(a) < KeyRank(b)
    \/ /\ a.k = b.k
       /\ IF a.k = "str" THEN Rank(Bytes, a.s) <= Rank(Bytes, b.s) ELSE a.n <= b.n

Posting(in, key, hi, fp) == [in |-> in, key |-> key, hi |-> hi, fp |-> fp]
placement(range, fp) ==
    LET opaque == {Posting("opaque", NoKey, NoKey, fp)}
        bound(side) == range[side][1].v
        keyed(side) == Some(range[side]) /\ Keyable(bound(side))
    IN  CASE range.r = "equal" /\ Keyable(Point(range)) -> {Posting("eq", ValueKey(Point(range)), NoKey, fp)}
          [] range.r = "in" /\ \A v \in range.vs : Keyable(v) ->
                {Posting("inset", ValueKey(v), NoKey, fp) : v \in range.vs}
          [] range.r = "range" /\ keyed("lower") /\ ~Some(range.upper) ->
                {Posting("range_lower", ValueKey(bound("lower")), NoKey, fp)}
          [] range.r = "range" /\ keyed("upper") /\ ~Some(range.lower) ->
                {Posting("range_upper", ValueKey(bound("upper")), NoKey, fp)}
          [] range.r = "range" /\ keyed("lower") /\ keyed("upper") ->
                {Posting("range_both", ValueKey(bound("lower")), ValueKey(bound("upper")), fp)}
          [] OTHER -> opaque

--------------------------------------------------------------------------
(* Classes (classify.rs).                                                  *)

ConstrainedColumns(constraints) == {c.col : c \in constraints}

column_ranges(constraints, columns) ==
    [col \in columns |->
        LET on == {c \in constraints : c.col = col}
        IN  IF \E c \in on : c.kind = "cast" THEN Plain("unknown") ELSE column_range_build(on)]

equality_pure(constraints) ==
    /\ \A c \in constraints : c.kind = "cmp" /\ c.op = "=" /\ Keyable(c.v)
    /\ \A c, d \in constraints : c.col = d.col => c.v = d.v
equality_values(constraints) ==
    [col \in ConstrainedColumns(constraints) |->
        ValueKey((CHOOSE c \in constraints : c.col = col).v)]

--------------------------------------------------------------------------
(* Per-column containment (column_index.rs).                               *)

FpsIn(postings, in) == {p.fp : p \in {x \in postings : x.in = in}}
FpsAt(postings, in, key) == {p.fp : p \in {x \in postings : x.in = in /\ x.key = key}}
lower_covering(postings, v) ==
    IF Keyable(v) THEN {p.fp : p \in {x \in postings : x.in = "range_lower" /\ KeyLeq(x.key, ValueKey(v))}}
    ELSE FpsIn(postings, "range_lower")
upper_covering(postings, v) ==
    IF Keyable(v) THEN {p.fp : p \in {x \in postings : x.in = "range_upper" /\ KeyLeq(ValueKey(v), x.key)}}
    ELSE FpsIn(postings, "range_upper")
two_sided(postings, lo, hi) ==
    IF Keyable(lo) /\ Keyable(hi)
    THEN {p.fp : p \in {x \in postings :
             x.in = "range_both" /\ KeyLeq(x.key, ValueKey(lo)) /\ KeyLeq(ValueKey(hi), x.hi)}}
    ELSE FpsIn(postings, "range_both")

(* A parent's set holds every member of the probe; its range spans them.   *)
containing_inset(postings, vs) ==
    IF \E v \in vs : ~Keyable(v) THEN {p.fp : p \in postings}
    ELSE LET min == CHOOSE v \in vs : \A w \in vs : KeyLeq(ValueKey(v), ValueKey(w))
             max == CHOOSE v \in vs : \A w \in vs : KeyLeq(ValueKey(w), ValueKey(v))
         IN  {fp \in FpsIn(postings, "inset") : \A v \in vs : fp \in FpsAt(postings, "inset", ValueKey(v))}
             \cup (IF Cardinality(vs) = 1 THEN FpsAt(postings, "eq", ValueKey(min)) ELSE {})
             \cup lower_covering(postings, min) \cup upper_covering(postings, max)
             \cup two_sided(postings, min, max)

containing(postings, range) ==
    FpsIn(postings, "opaque") \cup
    (CASE range.r = "equal" /\ Keyable(Point(range)) ->
            LET v == Point(range)
            IN  FpsAt(postings, "eq", ValueKey(v)) \cup FpsAt(postings, "inset", ValueKey(v))
                \cup lower_covering(postings, v) \cup upper_covering(postings, v)
                \cup two_sided(postings, v, v)
       [] range.r = "in" -> containing_inset(postings, range.vs)
       [] range.r = "range" ->
            (IF Some(range.lower) THEN lower_covering(postings, range.lower[1].v) ELSE {})
            \cup (IF Some(range.upper) THEN upper_covering(postings, range.upper[1].v) ELSE {})
            \cup (IF Some(range.lower) /\ Some(range.upper)
                  THEN two_sided(postings, range.lower[1].v, range.upper[1].v) ELSE {})
       [] OTHER -> {p.fp : p \in postings})

(* No column: nothing; otherwise the queries every column admits.          *)
complex_candidates(class, ranges) ==
    IF DOMAIN ranges = {} THEN {}
    ELSE {fp \in UNION {{p.fp : p \in class.complex[col]} : col \in DOMAIN ranges} :
            \A col \in DOMAIN ranges : fp \in containing(class.complex[col], ranges[col])}

--------------------------------------------------------------------------
(* The index (index.rs).                                                   *)

EmptyIndex == [classes |-> <<>>, membership |-> <<>>]
EmptyClass(columns) == [equality |-> {}, complex |-> [col \in columns |-> {}], len |-> 0]

index_remove(index, fp) ==
    IF fp \notin DOMAIN index.membership THEN index
    ELSE LET member == index.membership[fp]
             class == index.classes[member.columns]
             left == IF member.pure
                     THEN [class EXCEPT !.equality = {x \in @ : x.fp # fp}]
                     ELSE [class EXCEPT !.len = @ - 1,
                              !.complex = [col \in member.columns |->
                                             {p \in class.complex[col] : p.fp # fp}]]
             gone == left.equality = {} /\ left.len = 0
         IN  [classes |-> [c \in DOMAIN index.classes \ (IF gone THEN {member.columns} ELSE {}) |->
                             IF c = member.columns THEN left ELSE index.classes[c]],
              membership |-> [f \in DOMAIN index.membership \ {fp} |-> index.membership[f]]]

index_insert(index, fp, constraints) ==
    LET bare == index_remove(index, fp)
        columns == ConstrainedColumns(constraints)
        pure == equality_pure(constraints)
        ranges == column_ranges(constraints, columns)
        class == IF columns \in DOMAIN bare.classes THEN bare.classes[columns] ELSE EmptyClass(columns)
        added == IF pure
                 THEN [class EXCEPT !.equality = @ \cup {[key |-> equality_values(constraints), fp |-> fp]}]
                 ELSE [class EXCEPT !.len = @ + 1,
                          !.complex = [col \in columns |-> class.complex[col] \cup placement(ranges[col], fp)]]
    IN  [classes |-> (columns :> added) @@ bare.classes,
         membership |-> (fp :> [columns |-> columns, pure |-> pure]) @@ bare.membership]

(* One class, probed with a query's ranges on its columns.                 *)
subset_probe(class, ranges) ==
    LET exact == \A col \in DOMAIN ranges : ranges[col].r = "equal" /\ Keyable(Point(ranges[col]))
    IN  (IF exact
         THEN {x.fp : x \in {y \in class.equality :
                        y.key = [col \in DOMAIN ranges |-> ValueKey(Point(ranges[col]))]}}
         ELSE {})
        \cup complex_candidates(class, ranges)

(* Every class over a subset of the constrained columns: the code walks    *)
(* whichever of the subsets and the classes are fewer.                     *)
index_candidates(index, constraints) ==
    UNION {subset_probe(index.classes[c], column_ranges(constraints, c)) :
             c \in {x \in DOMAIN index.classes : x \subseteq ConstrainedColumns(constraints)}}

--------------------------------------------------------------------------
(* The point probe (point.rs).                                             *)

(* The interpretations of a cell; a missing or NULL one is a wildcard.     *)
row_value_forms(row, col) ==
    IF col \notin DOMAIN row \/ row[col] = NULL THEN {Plain("unknown")}
    ELSE {EqualTo(String(row[col]))}
         \cup (IF ParsesFloat(row[col]) THEN {EqualTo(Float(Number[row[col]]))} ELSE {})
         \cup (IF row[col] \in {"t", "f"} THEN {EqualTo(Boolean(row[col] = "t"))} ELSE {})

complex_candidates_point(class, forms) ==
    IF DOMAIN forms = {} THEN {}
    ELSE {fp \in UNION {{p.fp : p \in class.complex[col]} : col \in DOMAIN forms} :
            \A col \in DOMAIN forms : \E form \in forms[col] : fp \in containing(class.complex[col], form)}

candidates_point(index, row) ==
    UNION {LET class == index.classes[columns]
               forms == [col \in columns |-> row_value_forms(row, col)]
               keys(col) == {ValueKey(Point(f)) : f \in {g \in forms[col] : g.r = "equal"}}
               fits(x) == \A col \in columns : keys(col) = {} \/ x.key[col] \in keys(col)
           IN  {x.fp : x \in {y \in class.equality : fits(y)}} \cup complex_candidates_point(class, forms) :
             columns \in DOMAIN index.classes}
=============================================================================
