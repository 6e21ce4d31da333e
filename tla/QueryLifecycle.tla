---------------------------- MODULE QueryLifecycle ----------------------------
(***************************************************************************)
(* The life of a cached query, from the client requests that ask for it to *)
(* the writer that admits, populates, invalidates, bumps and evicts it.    *)
(*                                                                         *)
(* Connection tasks (Clients) run `query_dispatch` concurrently against    *)
(* the shared state view; each state change is made under the entry's      *)
(* write guard and only then is the command sent, so commands reach the    *)
(* writer's queue in any order.  The writer handles one command at a time; *)
(* the cache loop drains coalesced waiters on the writer's notifications.  *)
(*                                                                         *)
(* All queries read one relation.  Rows, merges and CDC replay are the     *)
(* subject of PopulationMerge; here a population merely ends, well or not. *)
(***************************************************************************)
EXTENDS Integers, Sequences, SequencesExt, FiniteSets, FiniteSetsExt

CONSTANTS
    Clients, Queries,
    AllRows,        \* max_limit None: larger than every need
    Configs         \* the settings and workloads a behaviour may run under

\* pinned    pinned queries, registered at startup
\* threshold admission_threshold           fifo   CachePolicy::Fifo (else CLOCK)
\* asked     the queries clients ask for   needs  the rows a request needs (LIMIT + OFFSET)
\* covers    pairs <<p, q>>: p's constraints cover q's
\* faults    what may go wrong or be busy  gens   bound: generations allocated
ASSUME ConfigAssumption ==
    /\ AllRows \in Nat
    /\ \A x \in Configs :
        /\ x.pinned \subseteq Queries /\ x.asked \subseteq Queries /\ x.fifo \in BOOLEAN
        /\ x.threshold \in Nat \ {0} /\ x.gens \in Nat /\ x.needs \subseteq 1..AllRows
        /\ x.covers \subseteq Queries \X Queries
        /\ \A q \in Queries : <<q, q>> \in x.covers
        /\ x.faults \subseteq {"invalidate", "truncate", "evict", "bump", "gc", "throttle",
                              "expire", "unresolvable", "stamping", "population"}

VARIABLES
    config,             \* the configuration of the behaviour, chosen at its start
    view,               \* state_view.cached_queries
    client,             \* where each connection task is in query_dispatch
    query_rx,           \* the writer's QueryCommand queue
    notify_rx,          \* the cache loop's WriterNotify queue
    waiting,            \* CoalesceQueue
    cached,             \* cache.cached_queries, gen = 0: no entry
    update_queries,     \* per query, the limit CDC evaluates it with; 0: absent
    generation_counter, generations,
    refcount,           \* relation_refcounts of the relation
    inflight            \* populations dispatched and not yet ended

shared == <<view, waiting>>
writer == <<cached, update_queries, generation_counter, generations, refcount, inflight>>
cache == <<shared, client, query_rx, notify_rx, writer>>
vars == <<config, cache>>

Pinned == config.pinned
Threshold == config.threshold
Fifo == config.fifo
Needs == config.needs
Covers == config.covers
Faults == config.faults
MaxGen == config.gens

NoView == [state |-> "None", hits |-> 0, gen |-> 0, limit |-> 0]
NoEntry == [gen |-> 0, invalidated |-> FALSE, started |-> FALSE, limit |-> 0,
            pinned |-> FALSE]
Idle == [pc |-> "idle", q |-> CHOOSE q \in Queries : TRUE, need |-> 0, action |-> "None"]

Command(cmd, q, limit, action, pinned, from) ==
    [cmd |-> cmd, q |-> q, limit |-> limit, action |-> action, pinned |-> pinned,
     from |-> from]

\* Commands that may still allocate a generation: requests and pinned readmits
\* are only started while they all fit in the bound, and while the notifications
\* queued do.
Outstanding ==
    Len(query_rx) + Cardinality({c \in Clients : client[c].pc \in {"lookup", "apply", "send", "enqueue"}})
Room == generation_counter + Outstanding < MaxGen /\ Len(notify_rx) < MaxGen

\* pinned_queries_register: the startup registrations, view Loading.
Init ==
    /\ config \in Configs
    /\ view = [q \in Queries |-> IF q \in Pinned
                                 THEN [NoView EXCEPT !.state = "Loading"] ELSE NoView]
    /\ client = [c \in Clients |-> Idle]
    /\ query_rx \in SetToSeqs({Command("Register", q, AllRows, "Admit", TRUE, {}) : q \in Pinned})
    /\ notify_rx = <<>>
    /\ waiting = [q \in Queries |-> {}]
    /\ cached = [q \in Queries |-> NoEntry]
    /\ update_queries = [q \in Queries |-> 0]
    /\ generation_counter = 0 /\ generations = {} /\ refcount = 0
    /\ inflight = {}

-----------------------------------------------------------------------------
(* Dispatch.                                                                 *)

\* serve_decide: the kind of decision, the state it moves the entry to, and what
\* the writer is asked for.
Decision(kind, state, hits, action) ==
    [kind |-> kind, state |-> state, hits |-> hits, action |-> action]

serve_decide(e, need) ==
    CASE e.state = "None" /\ (Fifo \/ Threshold <= 1) ->
            Decision("Register", "Loading", 0, "Admit")
      [] e.state = "None" -> Decision("Register", "Pending", 1, "CheckOnly")
      [] e.state = "Ready" /\ need <= e.limit -> Decision("Hit", "Ready", 0, "None")
      [] e.state = "Ready" -> Decision("LimitBump", "Loading", 0, "LimitBump")
      [] e.state = "Loading" -> Decision("Coalesce", "Loading", 0, "None")
      [] e.state = "Pending" /\ e.hits + 1 >= Threshold ->
            Decision("Register", "Loading", 0, "Admit")
      [] e.state = "Pending" -> Decision("Register", "Pending", e.hits + 1, "CheckOnly")
      [] e.state = "Invalidated" -> Decision("Register", "Loading", 0, "Admit")

Arrive(c) ==
    /\ client[c].pc = "idle" /\ Room
    /\ \E q \in config.asked, need \in Needs :
          client' = [client EXCEPT ![c] = [Idle EXCEPT !.pc = "lookup", !.q = q, !.need = need]]
    /\ UNCHANGED <<shared, query_rx, notify_rx, writer>>

\* query_dispatch, one turn of the retry loop: decide from a snapshot of the
\* entry.  A hit is served at once.
query_dispatch(c) ==
    /\ client[c].pc = "lookup"
    /\ LET e == view[client[c].q]
           d == serve_decide(e, client[c].need)
       IN  client' = [client EXCEPT ![c] =
              CASE d.kind = "Hit" -> Idle
                [] d.kind = "Coalesce" -> [@ EXCEPT !.pc = "enqueue"]
                [] OTHER -> [@ EXCEPT !.pc = "apply", !.action =
                                IF e.state = "None" THEN "cold" ELSE d.kind]]
    /\ UNCHANGED <<shared, query_rx, notify_rx, writer>>

\* ServeDecision::Forward: under memory pressure, or out of registration budget.
query_forward(c) ==
    /\ "throttle" \in Faults
    /\ client[c].pc = "lookup" /\ view[client[c].q].state \in {"None", "Loading"}
    /\ client' = [client EXCEPT ![c] = Idle]
    /\ UNCHANGED <<shared, query_rx, notify_rx, writer>>

\* transition_apply: re-decide under the write guard; a decision of another kind,
\* or a cold slot taken meanwhile, goes back to the lookup.
transition_apply(c) ==
    LET q == client[c].q
        d == serve_decide(view[q], client[c].need)
        same == IF client[c].action = "cold" THEN view[q].state = "None"
                ELSE view[q].state # "None" /\ d.kind = client[c].action
    IN  /\ client[c].pc = "apply"
        /\ view' = IF same THEN [view EXCEPT ![q].state = d.state, ![q].hits = d.hits]
                   ELSE view
        /\ client' = [client EXCEPT ![c].pc = IF same THEN "send" ELSE "lookup",
                                    ![c].action = IF same THEN d.action ELSE "None"]
        /\ UNCHANGED <<waiting, query_rx, notify_rx, writer>>

\* limit_bump_forward forwards at once; subsumption_await waits for the writer.
command_send(c) ==
    LET r == client[c] IN
    /\ r.pc = "send"
    /\ IF r.action = "LimitBump"
       THEN /\ query_rx' = Append(query_rx,
                              Command("LimitBump", r.q, r.need, "None", FALSE, {}))
            /\ client' = [client EXCEPT ![c] = Idle]
       ELSE /\ query_rx' = Append(query_rx,
                              Command("Register", r.q, r.need, r.action, FALSE, {c}))
            /\ client' = [client EXCEPT ![c].pc = "await"]
    /\ UNCHANGED <<shared, notify_rx, writer>>

\* Mutant: the state is not checked again under the lock.
enqueue_unchecked(c) ==
    /\ client[c].pc = "enqueue"
    /\ waiting' = [waiting EXCEPT ![client[c].q] = @ \cup {c}]
    /\ client' = [client EXCEPT ![c].pc = "waiting"]
    /\ UNCHANGED <<view, query_rx, notify_rx, writer>>

\* enqueue_if_loading: the state is checked again under the queue's lock.
enqueue_if_loading(c) ==
    LET q == client[c].q
        loading == view[q].state = "Loading"
    IN  /\ client[c].pc = "enqueue"
        /\ waiting' = IF loading THEN [waiting EXCEPT ![q] = @ \cup {c}] ELSE waiting
        /\ client' = [client EXCEPT ![c].pc = IF loading THEN "waiting" ELSE "lookup"]
        /\ UNCHANGED <<view, query_rx, notify_rx, writer>>

\* waiting_drain_ready and waiting_drain_failed: the cache loop serves or
\* forwards every waiter of the fingerprint.
Answered(cs) == [c \in Clients |-> IF c \in cs THEN Idle ELSE client[c]]

waiting_drain ==
    /\ notify_rx # <<>>
    /\ LET q == Head(notify_rx) IN
          /\ client' = Answered(waiting[q])
          /\ waiting' = [waiting EXCEPT ![q] = {}]
    /\ notify_rx' = Tail(notify_rx)
    /\ UNCHANGED <<view, query_rx, writer>>

\* waiting_drain_expired: a waiter past its deadline is forwarded.
waiting_drain_expired(c) ==
    /\ "expire" \in Faults
    /\ client[c].pc = "waiting"
    /\ client' = Answered({c})
    /\ waiting' = [q \in Queries |-> waiting[q] \ {c}]
    /\ UNCHANGED <<view, query_rx, notify_rx, writer>>

-----------------------------------------------------------------------------
(* The writer.  Each action below is one command or event, handled whole.    *)

NextGen == generation_counter + 1
Reply(cmd) == client' = Answered(cmd.from)

generation_purge_threshold(gens) ==
    IF gens = {} THEN generation_counter ELSE Min(gens) - 1

\* state_view_write; an absent entry is inserted.
state_view_write(q, state, gen, limit) ==
    view' = [view EXCEPT ![q] = [state |-> state, hits |-> 0, gen |-> gen, limit |-> limit]]

\* The notification that drains the coalesced waiters: Ready or Failed.
notify_send(q) == notify_rx' = Append(notify_rx, q)
waiters_fail(q) == notify_send(q)

\* Mutant: Ready without the notification.
state_ready_silent(q, gen, limit) ==
    state_view_write(q, "Ready", gen, limit) /\ UNCHANGED notify_rx

state_ready_transition(q, gen, limit) ==
    state_view_write(q, "Ready", gen, limit) /\ notify_send(q)

\* population_start, and the generation_allocate before it.
population_start(q) ==
    /\ generation_counter' = NextGen
    /\ inflight' = inflight \cup {<<q, NextGen>>}

\* cached_query_insert overwrites the entry; the relation is acquired again.
cached_query_insert(cmd, started) ==
    /\ cached' = [cached EXCEPT ![cmd.q] = [gen |-> NextGen, invalidated |-> FALSE,
                     started |-> started, limit |-> cmd.limit, pinned |-> cmd.pinned]]
    /\ generations' = generations \cup {NextGen}
    /\ refcount' = refcount + 1

\* Mutant: the view is only cleared for a query that got an entry.
query_failed_view_kept(q) ==
    /\ cached' = [cached EXCEPT ![q] = NoEntry]
    /\ generations' = generations \ {cached[q].gen}
    /\ update_queries' = [update_queries EXCEPT ![q] = 0]
    /\ refcount' = IF cached[q].gen = 0 THEN refcount ELSE refcount - 1
    /\ view' = IF cached[q].gen = 0 THEN view ELSE [view EXCEPT ![q] = NoView]
    /\ waiters_fail(q)
    /\ UNCHANGED generation_counter

\* query_failed_cleanup.
query_failed_cleanup(q) ==
    /\ cached' = [cached EXCEPT ![q] = NoEntry]
    /\ generations' = generations \ {cached[q].gen}
    /\ update_queries' = [update_queries EXCEPT ![q] = 0]
    /\ refcount' = IF cached[q].gen = 0 THEN refcount ELSE refcount - 1
    /\ view' = [view EXCEPT ![q] = NoView]
    /\ waiters_fail(q)
    /\ UNCHANGED generation_counter

\* query_readmit: a new generation for the entry; with the entry gone, the
\* generation is allocated and nothing else happens.
query_readmit(q) ==
    /\ generations' = generations \cup {NextGen}
    /\ IF cached[q].gen = 0
       THEN /\ generation_counter' = NextGen
            /\ UNCHANGED <<cached, view, inflight>>
       ELSE /\ cached' = [cached EXCEPT ![q].gen = NextGen, ![q].invalidated = FALSE,
                                        ![q].started = TRUE]
            /\ state_view_write(q, "Loading", NextGen, cached[q].limit)
            /\ population_start(q)
    /\ UNCHANGED <<update_queries, refcount, notify_rx>>

\* subsumption_check: a ready parent without a LIMIT covers the query.  The
\* query's own update query is registered by now, so its entry is a candidate.
subsumption_check(cmd) ==
    \E p \in Queries :
        /\ <<p, cmd.q>> \in Covers
        /\ cached[p].gen # 0 /\ ~cached[p].invalidated /\ ~cached[p].started
        /\ (IF p = cmd.q THEN cmd.limit ELSE update_queries[p]) = AllRows

\* query_subsume, or the population it falls back to when stamping fails.
query_subsume(cmd) ==
    \/ /\ cached_query_insert(cmd, FALSE)
       /\ state_ready_transition(cmd.q, NextGen, cmd.limit)
       /\ generation_counter' = NextGen
       /\ UNCHANGED inflight
    \/ /\ "stamping" \in Faults
       /\ cached_query_insert(cmd, TRUE)
       /\ population_start(cmd.q)
       /\ UNCHANGED <<view, notify_rx>>

\* query_register once the query resolved (query_resolve registered its update
\* queries).
query_resolved(cmd) ==
    /\ update_queries' = [update_queries EXCEPT ![cmd.q] =
          IF cmd.action = "CheckOnly" /\ ~subsumption_check(cmd) THEN 0 ELSE cmd.limit]
    /\ CASE subsumption_check(cmd) -> query_subsume(cmd)
         [] ~subsumption_check(cmd) /\ cmd.action = "CheckOnly" ->
              UNCHANGED <<cached, generations, generation_counter, refcount, inflight,
                          view, notify_rx>>
         [] OTHER ->
              /\ cached_query_insert(cmd, TRUE)
              /\ population_start(cmd.q)
              /\ UNCHANGED <<view, notify_rx>>

query_register(cmd) ==
    IF cached[cmd.q].invalidated THEN query_readmit(cmd.q)
    ELSE \/ query_resolved(cmd)
         \/ /\ "unresolvable" \in Faults
            /\ query_failed_cleanup(cmd.q)
            /\ UNCHANGED inflight

\* limit_bump_handle: the entry keeps its `invalidated` flag.
limit_bump_handle(cmd) ==
    LET q == cmd.q IN
    IF cached[q].gen = 0
    THEN UNCHANGED <<writer, view, notify_rx>>
    ELSE /\ cached' = [cached EXCEPT ![q].gen = NextGen, ![q].limit = cmd.limit,
                                     ![q].started = TRUE]
         /\ generations' = (generations \cup {NextGen}) \ {cached[q].gen}
         /\ update_queries' = [update_queries EXCEPT ![q] = IF @ = 0 THEN 0 ELSE cmd.limit]
         /\ state_view_write(q, "Loading", NextGen, cmd.limit)
         /\ population_start(q)
         /\ UNCHANGED <<refcount, notify_rx>>

query_command_handle ==
    /\ query_rx # <<>>
    /\ LET cmd == Head(query_rx) IN
          /\ CASE cmd.cmd = "Register" -> query_register(cmd)
               [] cmd.cmd = "LimitBump" -> limit_bump_handle(cmd)
               [] cmd.cmd = "Readmit" -> query_readmit(cmd.q)
          /\ Reply(cmd)
    /\ query_rx' = Tail(query_rx)
    /\ UNCHANGED waiting

\* Mutant: an invalidated query's population still counts.
current_if_same_generation(q, g) == cached[q].gen = g

\* A population's merge completes: Ready if it still is the query's current one
\* (query_ready_mark), else its rows are reaped.
population_is_current(q, g) == cached[q].gen = g /\ ~cached[q].invalidated

merge_done(q, g) ==
    /\ inflight' = inflight \ {<<q, g>>}
    /\ IF population_is_current(q, g)
       THEN /\ cached' = [cached EXCEPT ![q].started = FALSE]
            /\ state_ready_transition(q, g, cached[q].limit)
       ELSE UNCHANGED <<cached, view, notify_rx>>
    /\ UNCHANGED <<client, query_rx, waiting, update_queries, generation_counter,
                   generations, refcount>>

\* population_failed: tears the query down whatever generation it is at by now.
population_failed(q, g) ==
    /\ "population" \in Faults
    /\ inflight' = inflight \ {<<q, g>>}
    /\ query_failed_cleanup(q)
    /\ UNCHANGED <<client, query_rx, waiting>>

\* Mutant: the evicted queries do not release their relation.
evict_unreleased(qs) ==
    /\ cached' = [q \in Queries |-> IF q \in qs THEN NoEntry ELSE cached[q]]
    /\ generations' = generations \ {cached[q].gen : q \in qs}
    /\ update_queries' = [q \in Queries |-> IF q \in qs THEN 0 ELSE update_queries[q]]
    /\ view' = [q \in Queries |-> IF q \in qs THEN NoView ELSE view[q]]
    /\ \E s \in SetToSeqs(qs) : notify_rx' = notify_rx \o s
    /\ UNCHANGED <<client, query_rx, waiting, generation_counter, refcount, inflight>>

\* cache_query_evict of every query of a set (one, but for a TRUNCATE).
cache_query_evict(qs) ==
    /\ cached' = [q \in Queries |-> IF q \in qs THEN NoEntry ELSE cached[q]]
    /\ generations' = generations \ {cached[q].gen : q \in qs}
    /\ update_queries' = [q \in Queries |-> IF q \in qs THEN 0 ELSE update_queries[q]]
    /\ refcount' = refcount - Cardinality(qs)
    /\ view' = [q \in Queries |-> IF q \in qs THEN NoView ELSE view[q]]
    /\ \E s \in SetToSeqs(qs) : notify_rx' = notify_rx \o s
    /\ UNCHANGED <<client, query_rx, waiting, generation_counter, inflight>>

Entries == {q \in Queries : cached[q].gen # 0}


cache_query_cdc_invalidate(q) ==
    /\ "invalidate" \in Faults /\ update_queries[q] # 0 /\ q \in Entries
    /\ CASE cached[q].pinned ->
              /\ Room
              /\ query_rx' = Append(query_rx, Command("Readmit", q, 0, "None", FALSE, {}))
              /\ waiters_fail(q)
              /\ UNCHANGED <<shared, client, writer>>
         [] ~cached[q].pinned /\ Fifo -> cache_query_evict({q})
         [] OTHER ->
              /\ ~cached[q].invalidated
              /\ cached' = [cached EXCEPT ![q].invalidated = TRUE]
              /\ generations' = generations \ {cached[q].gen}
              /\ view' = [view EXCEPT ![q].state = IF @ = "None" THEN @ ELSE "Invalidated"]
              /\ waiters_fail(q)
              /\ UNCHANGED <<client, query_rx, waiting, update_queries,
                             generation_counter, refcount, inflight>>

\* cache_table_invalidate: TRUNCATE, or a table whose schema changed.
cache_table_invalidate ==
    /\ "truncate" \in Faults /\ Entries # {}
    /\ cache_query_evict(Entries)

\* The tick's eviction_run walks the tracked generations; a candidate is evicted,
\* or, if it is Ready and pinned or has its reference bit set, bumped.
Candidates == {q \in Entries : cached[q].gen \in generations}

eviction_run(q) ==
    /\ "evict" \in Faults /\ q \in Candidates /\ ~cached[q].pinned
    /\ cache_query_evict({q})

cache_query_generation_bump(q) ==
    /\ "bump" \in Faults /\ q \in Candidates /\ view[q].state = "Ready" /\ Room
    /\ ~Fifo \/ cached[q].pinned
    /\ generation_counter' = NextGen
    /\ generations' = (generations \cup {NextGen}) \ {cached[q].gen}
    /\ cached' = [cached EXCEPT ![q].gen = NextGen]
    /\ view' = [view EXCEPT ![q].gen = NextGen]
    /\ UNCHANGED <<waiting, client, query_rx, notify_rx, update_queries, refcount, inflight>>

\* stale_entries_cleanup: invalidated entries whose rows are purgeable, Pending
\* views out of credit.
stale_entries_cleanup ==
    LET threshold == generation_purge_threshold(generations)
        stale == {q \in Entries : cached[q].invalidated /\ ~cached[q].pinned
                                    /\ cached[q].gen < threshold}
        dead == {q \in Queries : view[q].state = "Invalidated" /\ view[q].gen < threshold}
    IN  /\ "gc" \in Faults
        /\ \E broke \in SUBSET {q \in Queries : view[q].state = "Pending"} :
              view' = [q \in Queries |-> IF q \in dead \cup broke THEN NoView ELSE view[q]]
        /\ cached' = [q \in Queries |-> IF q \in stale THEN NoEntry ELSE cached[q]]
        /\ update_queries' = [q \in Queries |-> IF q \in stale THEN 0 ELSE update_queries[q]]
        /\ refcount' = refcount - Cardinality(stale)
        /\ UNCHANGED <<waiting, client, query_rx, notify_rx, generation_counter,
                       generations, inflight>>

-----------------------------------------------------------------------------
ClientStep(c) ==
    query_dispatch(c) \/ query_forward(c) \/ transition_apply(c) \/ command_send(c)
    \/ enqueue_if_loading(c)

PopulationEnds == \E p \in inflight : merge_done(p[1], p[2]) \/ population_failed(p[1], p[2])

Maintenance ==
    \/ \E q \in Queries : cache_query_cdc_invalidate(q) \/ eviction_run(q)
                          \/ cache_query_generation_bump(q)
    \/ cache_table_invalidate
    \/ stale_entries_cleanup

Next ==
    \/ \E c \in Clients : Arrive(c) \/ ClientStep(c) \/ waiting_drain_expired(c)
    \/ waiting_drain
    \/ query_command_handle
    \/ PopulationEnds
    \/ Maintenance

Spec == Init /\ [][Next /\ UNCHANGED config]_vars

\* The writer and the cache loop keep handling what is queued, populations end and
\* connection tasks run; requests, CDC events and ticks may stop.
FairSpec ==
    /\ Spec
    /\ WF_cache(waiting_drain) /\ WF_cache(query_command_handle) /\ WF_cache(PopulationEnds)
    /\ \A c \in Clients : WF_cache(ClientStep(c))

-----------------------------------------------------------------------------
(* Properties.                                                               *)

\* The shape of the state: the bounds on generations hold and every command,
\* view and entry is one the code can build.
TypeOK ==
    /\ view \in [Queries -> [state : {"None", "Pending", "Loading", "Ready", "Invalidated"},
                             hits : 0..Threshold, gen : 0..MaxGen, limit : {0} \cup Needs \cup {AllRows}]]
    /\ client \in [Clients -> [pc : {"idle", "lookup", "apply", "send", "enqueue", "waiting", "await"},
                               q : Queries, need : {0} \cup Needs,
                               action : {"None", "cold", "Register", "LimitBump", "Admit", "CheckOnly"}]]
    /\ cached \in [Queries -> [gen : 0..MaxGen, invalidated : BOOLEAN, started : BOOLEAN,
                               limit : {0} \cup Needs \cup {AllRows}, pinned : BOOLEAN]]
    /\ waiting \in [Queries -> SUBSET Clients]
    /\ update_queries \in [Queries -> {0} \cup Needs \cup {AllRows}]
    /\ generations \subseteq 1..generation_counter /\ generation_counter \in 0..MaxGen
    /\ inflight \subseteq Queries \X (1..MaxGen)
    /\ refcount \in Nat

\* A waiter parked by enqueue_if_loading always has a drain coming: its query is
\* still Loading, or the notification that drains it is already queued
\* (coalesce_queue.rs: the orphaned-waiter race is unrepresentable).
NoOrphanWaiter ==
    \A q \in Queries :
        waiting[q] # {} => view[q].state = "Loading" \/ q \in Range(notify_rx)

\* A Loading view is always somebody's to end: a connection about to send its
\* command, a command in the writer's queue, or the entry's current population.
\* Without an owner the query never serves again, since every request coalesces
\* on it (state_loading_transition: the caller must follow up).  Stated for
\* requests that need the same rows: a limit bump that meets an invalidation
\* loses its owner.
SameNeeds == Cardinality(Needs) = 1
SomeoneLoads ==
    SameNeeds => \A q \in Queries : view[q].state = "Loading" =>
        \/ \E c \in Clients : client[c].pc = "send" /\ client[c].q = q
        \/ \E i \in DOMAIN query_rx : query_rx[i].q = q
        \/ \E p \in inflight : p[1] = q /\ population_is_current(q, p[2])

\* "Exactly one dispatch requests the bump": the claim Ready -> Loading.
SingleLimitBump ==
    \A q \in Queries :
        Cardinality({c \in Clients : client[c].pc = "send" /\ client[c].q = q
                                     /\ client[c].action = "LimitBump"})
        + Cardinality({i \in DOMAIN query_rx : query_rx[i].q = q
                                               /\ query_rx[i].cmd = "LimitBump"}) <= 1

\* A Loading query has an owner, and a limit bump no more than one.
LoadingHasOwner == SomeoneLoads /\ SingleLimitBump

\* A query served from the cache is one CDC maintains: it has an entry that was
\* not invalidated, and its update queries are registered.  Stated for queries
\* admitted at their first request: a late CheckOnly strips the update queries of
\* a query admitted by a later one.
ReadyRegistered ==
    Threshold = 1 => \A q \in Queries : view[q].state = "Ready" =>
        q \in Entries /\ ~cached[q].invalidated /\ update_queries[q] # 0

\* Purging below the threshold never takes the rows of a served query: they are
\* stamped with the view's generation, which stays above it.
ReadyRowsKept ==
    \A q \in Queries : view[q].state = "Ready" =>
        view[q].gen > generation_purge_threshold(generations)

\* A query served from the cache is maintained by CDC, and its rows are kept.
ReadyMaintained == ReadyRegistered /\ ReadyRowsKept

\* The relation's refcount is the number of entries reading it: at zero, and only
\* then, the relation leaves the publication.  Stated for queries
\* admitted at their first request and without TRUNCATE: a late CheckOnly, or a
\* request after the eviction of a Loading query, inserts over a live entry.
NoTruncate == "truncate" \notin Faults
RefcountExact == TypeOK /\ (Threshold = 1 /\ NoTruncate => refcount = Cardinality(Entries))


\* Every population's outcome reaches the view: a Loading query stops Loading.
LoadingEnds ==
    SameNeeds => \A q \in Queries : view[q].state = "Loading" ~> view[q].state # "Loading"

\* Every load ends and every request gets its answer, from the cache or by being
\* forwarded; a stream of registrations that fail at once keeps a coalescing
\* request in its retry loop, so the latter without unresolvable tables.
RequestsEnd ==
    /\ LoadingEnds
    /\ SameNeeds /\ "unresolvable" \notin Faults =>
          \A c \in Clients : client[c].pc # "idle" ~> client[c].pc = "idle"
=============================================================================
