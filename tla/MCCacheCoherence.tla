-------------------------- MODULE MCCacheCoherence --------------------------
(***************************************************************************)
(* A catalogue of query shapes over t(id, a, b) and u(id, a), and the      *)
(* scenarios in which they are registered and changed.                     *)
(***************************************************************************)
EXTENDS CacheCoherence

CONSTANT Chosen      \* the names of the scenarios to explore

TheColumns == ("t" :> [id |-> "int4", a |-> "int4", b |-> "text"]) @@ ("u" :> [id |-> "int4", a |-> "int4"])
               @@ ("f" :> [id |-> "int4", a |-> "int4"])
MCColumns == LET columns == TheColumns IN columns
MCKey == [t |-> "id", u |-> "id", f |-> "id"]

T == Table("t", "t")
U == Table("u", "u")
tc(c) == Column("t", "t", c)
uc(c) == Column("u", "u", c)
fc(c) == Column("f", "f", c)
Lit(i) == Literal(Integer(i))
Cmp(op, x, y) == Binary(op, Scalar(x), Scalar(y))
Outputs(xs) == [i \in DOMAIN xs |-> Output(xs[i], xs[i].col)]
FromT(where) == Select(Outputs(<<tc("id"), tc("a"), tc("b")>>), <<T>>, where)
OnUa == Cmp("=", tc("a"), uc("a"))
InnerU(where) == Select(Outputs(<<uc("a")>>), <<U>>, where)
JoinU(type, on) == <<Join(type, T, U, <<on>>)>>
Ordered(q, by, n) == [q EXCEPT !.order_by = <<[col |-> by, desc |-> FALSE]>>, !.limit = n]
IdAnd(x) == <<Output(tc("id"), "id"), Output(x, "x")>>

TheQueries ==
    [all_t      |-> Query(FromT(<<>>)),
     equal      |-> Query(FromT(<<Cmp("=", tc("a"), Lit(1))>>)),
     range      |-> Query(FromT(<<Cmp(">=", tc("a"), Lit(1))>>)),
     among      |-> Query(FromT(<<Multi("in", <<Scalar(tc("a")), Scalar(Lit(1)), Scalar(Lit(2))>>)>>)),
     either     |-> Query(FromT(<<Binary("or", Cmp("=", tc("a"), Lit(1)), Unary("is null", Scalar(tc("a"))))>>)),
     text_cast  |-> Query(FromT(<<Cmp("=", TypeCast(tc("b"), "int4"), Lit(1))>>)),
     plain_b    |-> Query(FromT(<<Cmp("=", tc("b"), Literal(String("B")))>>)),
     full_equal |-> Query(Select(Outputs(<<fc("id"), fc("a")>>), <<Table("f", "f")>>, <<Cmp("=", fc("a"), Lit(1))>>)),
     full_first |-> Ordered(Query(Select(Outputs(<<fc("id"), fc("a")>>), <<Table("f", "f")>>, <<>>)), "a", 1),
     left_opt   |-> Query(Select(IdAnd(uc("id")), JoinU("left", OnUa),
                        <<Binary("or", Cmp("=", uc("a"), Lit(1)), Cmp("=", tc("a"), Lit(2)))>>)),
     inner_join |-> Query(Select(IdAnd(uc("id")), JoinU("inner", OnUa), <<Cmp("=", tc("a"), Lit(1))>>)),
     key_join   |-> Query(Select(IdAnd(uc("a")), JoinU("inner", Cmp("=", tc("a"), uc("id"))), <<>>)),
     left_join  |-> Query(Select(IdAnd(uc("id")), JoinU("left", OnUa), <<>>)),
     left_where |-> Query(Select(IdAnd(uc("id")), JoinU("left", OnUa), <<Unary("is null", Scalar(uc("id")))>>)),
     semi       |-> Query(FromT(<<Subquery("any", "=", Query(InnerU(<<>>)), <<tc("a")>>)>>)),
     exists     |-> Query(FromT(<<Subquery("exists", "", Query(InnerU(<<OnUa>>)), <<>>)>>)),
     anti       |-> Query(FromT(<<Unary("not", Subquery("exists", "", Query(InnerU(<<OnUa>>)), <<>>))>>)),
     not_in     |-> Query(FromT(<<Subquery("all", "<>", Query(InnerU(<<>>)), <<tc("a")>>)>>)),
     scalar_max |-> Query(FromT(<<Binary("=", Scalar(tc("a")), Subquery("expr", "",
                        Query(Select(<<Output(Function("max", <<uc("a")>>), "m")>>, <<U>>, <<>>)), <<>>))>>)),
     grouped    |-> Query([Select(<<Output(tc("a"), "a"), Output(Function("count", <<tc("id")>>), "n")>>, <<T>>, <<>>)
                             EXCEPT !.group_by = <<tc("a")>>]),
     first      |-> Ordered(Query(FromT(<<>>)), "a", 1),
     first_where |-> Ordered(Query(FromT(<<Cmp(">=", tc("a"), Lit(1))>>)), "a", 1),
     any_one    |-> [Query(FromT(<<Cmp("=", tc("a"), Lit(1))>>)) EXCEPT !.limit = 1],
     unioned    |-> SetOp("union", Query(Select(Outputs(<<tc("a")>>), <<T>>, <<>>)), Query(InnerU(<<>>))),
     self_join  |-> Query(Select(IdAnd(Column("t", "s", "id")),
                        <<Join("inner", T, Table("t", "s"), <<Cmp("=", tc("a"), Column("t", "s", "id"))>>)>>, <<>>))]

(* Evaluated once: TLC keeps the value of a definition, and evaluates what *)
(* replaces a constant at every use.                                       *)
Analysed == [q \in DOMAIN TheQueries |-> query_analysis(TheQueries[q])]
MCQueries == LET queries == TheQueries IN queries
MCAnalysis == LET analysis == Analysed IN analysis

TRow(id, a, b) == [id |-> id, a |-> a, b |-> b]
URow(id, a) == [id |-> id, a |-> a]
FRow(id, a) == [id |-> id, a |-> a]
NoRows == [t |-> {}, u |-> {}, f |-> {}]
Scenario(queries, rows, changing) ==
    [queries |-> queries, rows |-> rows, changing |-> changing, origin |-> NoRows,
     toastable |-> NoRows, truncates |-> FALSE, pairs |-> TRUE, sized |-> TRUE, policy |-> "clock",
     ordered |-> TRUE, quiet |-> FALSE, captures |-> TRUE, pinned |-> {}]
Quiet(s) == [s EXCEPT !.quiet = TRUE]
Fifo(s) == [s EXCEPT !.policy = "fifo"]
OneChange(s) == [s EXCEPT !.pairs = FALSE]
Pinned(s) == [s EXCEPT !.pinned = s.queries, !.captures = FALSE]

RowsT == {TRow(i, a, "1") : i \in {"1", "2"}, a \in {"1", "2", NULL}}
RowsU == {URow("1", a) : a \in {"1", "2"}}
RowsF == {FRow(i, a) : i \in {"1", "2"}, a \in {"1", "2", NULL}}
OverT(queries) == Scenario(queries, [NoRows EXCEPT !.t = RowsT], {"t"})
OverTU(queries) ==
    Scenario(queries, [NoRows EXCEPT !.t = {r \in RowsT : r.id = "1"} \cup {TRow("2", "1", "1")}, !.u = RowsU],
             {"t", "u"})
OverF(queries) == Scenario(queries, [NoRows EXCEPT !.f = RowsF], {"f"})
Toasted ==
    [Scenario({"plain_b", "equal"},
              [NoRows EXCEPT !.t = {TRow(i, "1", b) : i \in {"1", "2"}, b \in {"1", "B"}} \cup {TRow("1", "2", "B")}], {"t"})
        EXCEPT !.toastable = [NoRows EXCEPT !.t = {"b"}], !.captures = FALSE]

Named ==
    [subsume |-> OverT({"range", "equal"}),
     member  |-> OneChange(OverT({"among", "either"})),
     fifo    |-> Fifo(OneChange(OverT({"among", "equal"}))),
     limit   |-> Quiet(OverT({"any_one", "equal"})),
     top     |-> Quiet(OverT({"first_where", "first"})),
     joins   |-> OverTU({"inner_join"}),
     keyjoin |-> OverTU({"key_join"}),
     left    |-> Quiet(OverTU({"left_join"})),
     leftopt |-> Quiet(OverTU({"left_opt"})),
     semi    |-> OverTU({"semi"}),
     exists  |-> OverTU({"exists"}),
     anti    |-> OverTU({"anti"}),
     not_in  |-> Quiet(OverTU({"not_in"})),
     scalar  |-> OverTU({"scalar_max"}),
     grouped |-> OneChange(OverT({"grouped", "equal"})),
     memos   |-> [OneChange(OverT({"grouped", "range"})) EXCEPT !.sized = FALSE],
     union   |-> OverTU({"unioned"}),
     self    |-> OverT({"self_join"}),
     casts   |-> OverT({"text_cast"}),
     full    |-> OverF({"full_equal"}),
     fulltop |-> Quiet(OverF({"full_first"})),
     toast   |-> Toasted,
     pin     |-> Pinned(Quiet(OneChange(OverT({"any_one"})))),
     pinjoin |-> Pinned(OneChange(OverTU({"inner_join"}))),
     pinsemi |-> Pinned(OneChange(OverTU({"semi"}))),
     emptied |-> [OneChange(OverTU({"inner_join", "range"})) EXCEPT !.truncates = TRUE]]
MCScenarios == {Named[s] : s \in Chosen}
=============================================================================
