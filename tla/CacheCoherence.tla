--------------------------- MODULE CacheCoherence ---------------------------
(***************************************************************************)
(* Registered queries over shared cache tables, kept current by CDC.  The  *)
(* state is taken where no batch is open: origin holds the tables as of    *)
(* the last applied commit.  Registration analyses a query and loads its   *)
(* tables, or finds them covered (registration/, population/stream.rs);    *)
(* one batch of one or two row changes runs the decide pass of CdcApply    *)
(* and applies its invalidations, memo evictions and MV marks.             *)
(*                                                                         *)
(* One population runs at a time, and reads what is already applied: the   *)
(* merge gate and concurrent populations are in PopulationMerge, the       *)
(* generations and the purge in QueryLifecycle.                            *)
(***************************************************************************)
EXTENDS CdcApply

CONSTANTS Queries,         \* name -> resolved query
          Analysis,        \* name -> what registration derives from the query
          Scenarios        \* what a behaviour is about: [queries, rows, changing, origin,
                           \*  toastable, truncates, pairs, sized, policy, ordered, quiet, captures, pinned]

query_resolve(base, d, gate, limit) ==
    [resolved |-> base.query, gate |-> gate, max_limit |-> limit, populated |-> RewrittenAs(base.query, d),
     tables |-> query_admission_analyze(base.query, limit > 0, d)]
Decorrelated(base, d) ==
    LET gate == shape_gate_classify(base.query, d) IN query_resolve(base, d, gate, resolution_limits(base, gate))
query_analysis(q) ==
    LET base == base_query_prepare(q) IN Decorrelated(base, query_expr_decorrelate(base.query))
ASSUME AnalysisAssumption == Analysis = [q \in DOMAIN Queries |-> query_analysis(Queries[q])]

VARIABLES scenario, origin, cache,
          uqs,        \* relation -> update queries
          status,     \* query -> absent, Loading, Ready or Invalidated
          mv, memo,   \* query -> option: the rows a fresh MV, a valid memo holds
          load,       \* the population under way: [q, reads, staged, lost, stale]
          readmits    \* pinned queries an invalidation has queued for readmission
vars == <<scenario, origin, cache, uqs, status, mv, memo, load, readmits>>

Relations == DOMAIN Columns
Names == scenario.queries

--------------------------------------------------------------------------
(* Registration.                                                           *)

update_queries_register(u, fp) ==
    LET store(acc, a) ==
            LET with == query_insert(acc[a.table], fp, a.update_query)
            IN  [acc EXCEPT ![a.table] =
                    [with EXCEPT !.epoch = 0,
                                 !.subsumption = IF a.subsumer_eligible THEN index_insert(@, fp, a.index_constraints) ELSE @,
                                 !.eval_index = index_insert(@, fp, a.index_constraints)]]
    IN  FoldLeft(store, u, Analysis[fp].tables)

(* Every relation of the new query is covered by a ready, unlimited query  *)
(* over that relation alone.                                               *)
subsumption_covered(u, fp) ==
    LET new == analyze_query_constraints(Analysis[fp].resolved.s)
        covers_table(p, t) ==
            /\ ~u[t].queries[p].has_limit /\ status[p] = "Ready" /\ Len(Analysis[p].tables) = 1
            /\ table_constraints_subsumed(new, u[t].queries[p].constraints, t)
    IN  \A i \in DOMAIN Analysis[fp].tables :
            LET t == Analysis[fp].tables[i].table
            IN  \E p \in index_candidates(u[t].subsumption, For(new, t)) \cap DOMAIN u[t].queries : covers_table(p, t)
subsumption_check(u, fp) ==
    Analysis[fp].tables # <<>> /\ Analysis[fp].resolved.b = "select" /\ subsumption_covered(u, fp)

(* The origin's SELECT for one table of a branch.                          *)
resolved_select_node_replace(branch, node) ==
    LET columns == SetToSeq({Output(Column(node.t, node.a, c), c) : c \in DOMAIN Columns[node.t]})
    IN  [branch EXCEPT !.columns = columns, !.group_by = <<>>, !.having = <<>>, !.distinct = TRUE]
population_rows(branch, node) ==
    LET typed == Rows(Query(resolved_select_node_replace(branch, node)), <<>>, origin)
    IN  {r \in origin[node.t] : TypedRow(node.t, r) \in typed}
(* LIMIT keeps any rows, in no order.                                      *)
population_select_build(fp, branch, node) ==
    LET rows == population_rows(branch, node)
        n == Analysis[fp].max_limit
        keys == Queries[fp].order_by
        typed(r) == TypedRow(node.t, r)
        first(S) == \A r \in S, x \in rows \ S : ~Precedes(typed(x), typed(r), keys)
    IN  IF n = 0 \/ Cardinality(rows) <= n THEN {rows}
        ELSE {S \in SUBSET rows : Cardinality(S) = n /\ (scenario.ordered => first(S))}

(* The reads of a population: each table of each branch, in turn, each a   *)
(* statement of its own.                                                   *)
PopulationReads(fp) ==
    LET branches == select_nodes_with_source(Analysis[fp].populated)
        of(b) == LET nodes == Each(direct_table_nodes, b.select.from)
                 IN  [i \in DOMAIN nodes |-> [branch |-> b.select, node |-> nodes[i]]]
    IN  Each(of, branches)

NoLoad == [q |-> "none", reads |-> <<>>, staged |-> [t \in Relations |-> {}], lost |-> {}, stale |-> {}]
population_start(q) ==
    load' = [NoLoad EXCEPT !.q = q, !.reads = PopulationReads(q)]

query_register(q) ==
    /\ status[q] = "absent" /\ load.q = "none"
    /\ uqs' = update_queries_register(uqs, q)
    /\ IF subsumption_check(uqs', q)
       THEN status' = [status EXCEPT ![q] = "Ready"] /\ UNCHANGED load
       ELSE status' = [status EXCEPT ![q] = "Loading"] /\ population_start(q)
    /\ UNCHANGED <<scenario, origin, cache, mv, memo, readmits>>

(* An invalidated query keeps its update queries and its MV state; it is   *)
(* populated again, in place of any population of its own still under way. *)
query_readmit(q) ==
    /\ status[q] # "absent" /\ load.q \in {"none", q}
    /\ status' = [status EXCEPT ![q] = "Loading"]
    /\ population_start(q)
    /\ UNCHANGED <<scenario, origin, cache, uqs, mv, memo>>
register_invalidated(q) == status[q] = "Invalidated" /\ query_readmit(q) /\ UNCHANGED readmits
readmit_command(q) ==
    /\ q \in readmits
    /\ readmits' = readmits \ {q}
    /\ \/ query_readmit(q)
       \/ status[q] = "absent" /\ UNCHANGED <<scenario, origin, cache, uqs, status, mv, memo, load>>

population_stream ==
    /\ load.reads # <<>>
    /\ LET r == Head(load.reads)
       IN  \E rows \in population_select_build(load.q, r.branch, r.node) :
              load' = [load EXCEPT !.reads = Tail(@), !.staged[r.node.t] = @ \cup rows]
    /\ UNCHANGED <<scenario, origin, cache, uqs, status, mv, memo, readmits>>

(* The merge leaves out the lost keys, never overwrites a row that is      *)
(* there, and fails on a stale key.                                        *)
chunk_sql(t) ==
    {r \in load.staged[t] : KeyOf(t, r) \notin load.lost /\ CachedRow(cache, t, r) = {}}
merge_toast_stale_hit == \E t \in Relations : \E r \in load.staged[t] : KeyOf(t, r) \in load.stale
population_merge ==
    /\ load.q # "none" /\ load.reads = <<>> /\ ~merge_toast_stale_hit
    /\ status' = [status EXCEPT ![load.q] = IF @ = "Loading" THEN "Ready" ELSE @]
    /\ cache' = IF status[load.q] = "Loading" THEN [t \in Relations |-> cache[t] \cup chunk_sql(t)] ELSE cache
    /\ load' = NoLoad
    /\ UNCHANGED <<scenario, origin, uqs, mv, memo, readmits>>

(* Evicting the last query over a relation drops its cache table.          *)
Tracked(u, tables) == [t \in Relations |-> IF u[t].queries = <<>> THEN {} ELSE tables[t]]
Fresh(u) == [t \in Relations |-> [u[t] EXCEPT !.epoch = 0]]
query_drop(q) ==
    /\ status[q] # "absent"
    /\ uqs' = Fresh([t \in Relations |-> update_queries_remove_fingerprint(uqs[t], q)])
    /\ cache' = Tracked(uqs', cache)
    /\ status' = [status EXCEPT ![q] = "absent"]
    /\ mv' = [mv EXCEPT ![q] = <<>>]
    /\ memo' = [memo EXCEPT ![q] = <<>>]
    /\ load' = IF load.q = q THEN NoLoad ELSE load
    /\ UNCHANGED <<scenario, origin, readmits>>
cache_query_evict(q) == query_drop(q)
merge_failed == merge_toast_stale_hit /\ load.reads = <<>> /\ query_drop(load.q)

(* A build reads the cache tables; a memo is captured from a served answer *)
(* of a query that has no MV: its shape needs none, or its size gate failed.*)
Materialised(q) == Analysis[q].gate = "Gated" /\ scenario.sized
mv_build(q) ==
    /\ status[q] = "Ready" /\ Materialised(q) /\ mv[q] = <<>>
    /\ mv' = [mv EXCEPT ![q] = <<Rows(Analysis[q].resolved, <<>>, cache)>>]
    /\ UNCHANGED <<scenario, origin, cache, uqs, status, memo, load, readmits>>
memo_capture(q) ==
    /\ scenario.captures /\ status[q] = "Ready" /\ ~Materialised(q) /\ memo[q] = <<>>
    /\ \E answer \in Answers(Queries[q], cache) : memo' = [memo EXCEPT ![q] = <<answer>>]
    /\ UNCHANGED <<scenario, origin, cache, uqs, status, mv, load, readmits>>

--------------------------------------------------------------------------
(* A batch.  The events are what the origin's replication slot sends for a *)
(* change: the key tuple with an UPDATE of the key, the whole old row      *)
(* under FULL identity, and an unchanged toasted column not at all.        *)

Event(k, t, row, key, toasted) == [k |-> k, t |-> t, row |-> row, key |-> key, toasted |-> toasted]
KeyTuple(t, old, new) ==
    IF t \in Full THEN old
    ELSE IF old[Key[t]] # new[Key[t]] THEN KeyOnly(t, old) ELSE <<>>
Unsent(t, old, new) == {c \in scenario.toastable[t] : old[c] = new[c] /\ t \notin Full}
Sent(row, toasted) == [c \in DOMAIN row |-> IF c \in toasted THEN NULL ELSE row[c]]

Free(db, t, row) == CachedRow(db, t, row) = {}
(* Each change of db: the event and the tables after it.                   *)
Changes(db) ==
    UNION {
        {[e |-> Event("insert", t, r, <<>>, {}), db |-> [db EXCEPT ![t] = @ \cup {r}]] :
            r \in {x \in scenario.rows[t] : Free(db, t, x)}}
        \cup
        {[e |-> Event("update", t, Sent(p[2], Unsent(t, p[1], p[2])), KeyTuple(t, p[1], p[2]), Unsent(t, p[1], p[2])),
          db |-> [db EXCEPT ![t] = (@ \ {p[1]}) \cup {p[2]}]] :
            p \in {x \in db[t] \X scenario.rows[t] :
                      /\ x[1] # x[2]
                      /\ x[1][Key[t]] = x[2][Key[t]] \/ Free(db, t, x[2])}}
        \cup
        {[e |-> Event("delete", t, IF t \in Full THEN r ELSE KeyOnly(t, r), <<>>, {}),
          db |-> [db EXCEPT ![t] = @ \ {r}]] : r \in db[t]}
        \cup
        (IF scenario.truncates /\ db[t] # {}
         THEN {[e |-> Event("truncate", t, <<>>, <<>>, {}), db |-> [db EXCEPT ![t] = {}]]} ELSE {})
      : t \in scenario.changing}

Batches ==
    {[events |-> <<c.e>>, db |-> c.db] : c \in Changes(origin)}
    \cup IF scenario.pairs
         THEN UNION {{[events |-> <<c.e, d.e>>, db |-> d.db] : d \in Changes(c.db)} : c \in Changes(origin)}
         ELSE {}

(* Events of a relation no query reads are not delivered.                  *)
Delivered(events) ==
    LET tracked(e) == uqs[e.t].queries # <<>>
    IN  SelectSeq(events, tracked)

Recording == IF load.q = "none" THEN {} ELSE {Analysis[load.q].tables[i].table : i \in DOMAIN Analysis[load.q].tables}

(* The invalidations reach the queries before the batch commits.  A pinned *)
(* query is left as it is and queued for readmission.                      *)
cache_query_cdc_invalidate(w) ==
    LET marked == w.invalidations \ scenario.pinned
        gone == w.evicted \cup (IF scenario.policy = "fifo" THEN marked ELSE {})
        forget(u) == FoldLeft(update_queries_remove_fingerprint, u, SetToSeq(gone))
    IN  /\ uqs' = Fresh([t \in Relations |-> forget(w.uqs[t])])
        /\ status' = [q \in Names |-> IF q \in gone THEN "absent"
                                      ELSE IF q \in marked /\ status[q] # "absent" THEN "Invalidated"
                                      ELSE status[q]]
        /\ mv' = [q \in Names |-> IF q \in gone \cup marked \/ q \notin w.dirtyable THEN <<>> ELSE mv[q]]
        /\ memo' = [q \in Names |-> IF q \in gone \cup w.memos THEN <<>> ELSE memo[q]]
        /\ readmits' = readmits \cup ((w.invalidations \cap scenario.pinned) \ w.evicted)

frame_finalize(w) ==
    /\ cache_query_cdc_invalidate(w)
    /\ load' = IF load.q = "none" \/ status'[load.q] # "Loading" THEN NoLoad
               ELSE [load EXCEPT !.lost = w.lost, !.stale = w.stale]
    /\ cache' = Tracked(uqs', w.cache)
batch_flush(b) ==
    LET dirtyable == {q \in Names : Some(mv[q])}
    IN  /\ scenario.quiet => load.q = "none"
        /\ frame_finalize(frame_rows_replay(
              BatchBegin(cache, uqs, dirtyable, Recording, load.lost, load.stale), Delivered(b.events)))
        /\ origin' = b.db
        /\ UNCHANGED scenario

--------------------------------------------------------------------------
Init ==
    /\ scenario \in Scenarios
    /\ origin = scenario.origin
    /\ cache = [t \in Relations |-> {}]
    /\ uqs = [t \in Relations |-> NoUpdateQueries]
    /\ status = [q \in Names |-> "absent"]
    /\ mv = [q \in Names |-> <<>>]
    /\ memo = [q \in Names |-> <<>>]
    /\ load = NoLoad
    /\ readmits = {}

Register == \E q \in Names : query_register(q)
Readmit == \E q \in Names : register_invalidated(q)
ReadmitPinned == \E q \in Names : readmit_command(q)
Evict == \E q \in Names : cache_query_evict(q)
BuildMv == \E q \in Names : mv_build(q)
CaptureMemo == \E q \in Names : memo_capture(q)
CdcBatch == \E b \in Batches : batch_flush(b)
Next == Register \/ Readmit \/ ReadmitPinned \/ population_stream \/ population_merge \/ merge_failed \/ Evict \/ BuildMv \/ CaptureMemo \/ CdcBatch

Spec == Init /\ [][Next]_vars

--------------------------------------------------------------------------
(* A table holds one row per key; only a Loading query is being populated. *)
Keyed(rows, t) == \A r, x \in rows : r[Key[t]] = x[Key[t]] => r = x
TypeOK ==
    /\ scenario \in Scenarios
    /\ \A t \in Relations : origin[t] \subseteq scenario.rows[t] /\ Keyed(origin[t], t) /\ Keyed(cache[t], t)
    /\ status \in [Names -> {"absent", "Loading", "Ready", "Invalidated"}]
    /\ \A q \in Names : Len(mv[q]) <= 1 /\ Len(memo[q]) <= 1
    /\ load.q # "none" => status[load.q] = "Loading"
    /\ readmits \subseteq scenario.pinned

(* A pinned query answers from what it has until its readmission runs.     *)
Current(q) == status[q] = "Ready" /\ q \notin readmits
(* A ready query's rows in the cache tables compute an answer of the       *)
(* origin.                                                                 *)
RowsAnswer ==
    \A q \in Names : Current(q) => Answers(Queries[q], cache) \subseteq Answers(Queries[q], origin)

(* A ready query's fresh MV holds what the cache tables compute, and its   *)
(* valid memo an answer the origin gives.                                  *)
MvNeverStale ==
    \A q \in Names : Current(q) /\ Some(mv[q]) => mv[q][1] = Rows(Analysis[q].resolved, <<>>, cache)
MemoNeverStale ==
    \A q \in Names : Current(q) /\ Some(memo[q]) => memo[q][1] \in Answers(Queries[q], origin)

(* Every cached row is the origin's row of that key.                       *)
RowsCurrent == \A t \in Relations : cache[t] \subseteq origin[t]


(* The indexes, carve-outs and counts kept beside the update queries are   *)
(* those of the registered queries, whatever came and went.                *)
CountsExact ==
    \A t \in Relations :
        LET u == uqs[t]
            fps == DOMAIN u.queries
            limited == {fp \in fps : carveout_limit_from(u.queries[fp])}
        IN  /\ fps = {q \in Names : status[q] # "absent" /\ \E i \in DOMAIN Analysis[q].tables : Analysis[q].tables[i].table = t}
            /\ DOMAIN u.eval_index.membership = fps
            /\ DOMAIN u.subsumption.membership \subseteq fps
            /\ u.always_check = {fp \in fps : carveout_always(u.queries[fp])}
            /\ u.has_limit_from = limited
            /\ u.change_dependent_count = Cardinality({fp \in fps : u.queries[fp].change_dependent})
            /\ \A c \in DOMAIN Columns[t] :
                  (IF c \in DOMAIN u.limit_predicate_columns THEN u.limit_predicate_columns[c] ELSE 0)
                    = Cardinality({fp \in limited : c \in u.queries[fp].predicate_columns})

(* The index offers every query a row matches.                             *)
NarrowingComplete ==
    \A t \in Relations : \A r \in scenario.rows[t] : \A fp \in DOMAIN uqs[t].queries :
        pg_eval_matches(uqs[t].queries[fp], t, r, cache) => fp \in candidates_point(uqs[t].eval_index, r)

(* What is kept beside the registered queries is theirs, whatever came and *)
(* went, and never narrows a query's own rows away (query_insert,          *)
(* query_remove, candidates_point).                                        *)
BookkeepingExact == TypeOK /\ CountsExact /\ NarrowingComplete
=============================================================================
