---------------------------- MODULE CacheRuntime ----------------------------
(***************************************************************************)
(* The runtime of the cache subsystem: its generations (Supervision), and  *)
(* of one of them the serve path (ServePath) and the population workers    *)
(* (PopulationPool).  A scenario says where the behaviour starts, what is  *)
(* asked of it and what may fail, and how often.                           *)
(***************************************************************************)
EXTENDS PopulationPool

CONSTANT Scenarios

VARIABLE scenario
vars == <<supVars, serveVars, popVars, scenario>>

\* The first generation, published and listening.
ServingInit(faults) ==
    /\ root = FALSE
    /\ cancel = [g \in Generations |-> FALSE]
    /\ thread = [g \in Generations |-> [t \in Threads |-> IF g = Served THEN "up" ELSE "none"]]
    /\ sup = [pc |-> "park", gen |-> Served]
    /\ dispatch = Served /\ status = Served
    /\ accept = "listening"
    /\ origin = [slot |-> "held", publication |-> Served]
    /\ database = Served
    /\ budget = faults

Init ==
    /\ scenario \in Scenarios
    /\ IF scenario.boot THEN SupInit(scenario.faults) ELSE ServingInit(scenario.faults)
    /\ ServeInit(scenario.requests) /\ PopInit(scenario.workers, scenario.works)

\* Where requests are modelled the serve loop ends by loop_teardown.
ServeLoopExit(g) == scenario.requests = {} /\ serve_exit(g)
\* After a shutdown the rest of the process does not touch the serve path.
SupervisionStep ==
    /\ scenario.requests = {} \/ ~root
    /\ SupNext \/ \E g \in Generations : ServeLoopExit(g)
    /\ UNCHANGED <<serveVars, popVars>>
ServeStep == scenario.requests # {} /\ ServeNext /\ UNCHANGED <<popVars>>
PopulationStep == scenario.workers > 0 /\ PopNext /\ UNCHANGED <<serveVars>>
Resting ==
    /\ \A r \in Requests : task[r].pc = "done" \/ (task[r].pc = "none" /\ dispatch # Served)
    /\ sup.pc \in {"park", "exit"} \/ (sup.pc = "backoff" /\ sup.gen = MaxGenerations)
    /\ scenario.workers > 0 => rendezvous.gone \/ \A w \in scenario.works : outcome[w] # <<>>
    /\ UNCHANGED <<supVars, serveVars, popVars>>
Next ==
    /\ SupervisionStep \/ ServeStep \/ PopulationStep \/ Resting
    /\ UNCHANGED scenario
Spec == Init /\ [][Next]_vars

\* The supervisor, the threads and the tasks run while they can: whatever
\* is not a fault is taken eventually.  A cancelled or orphaned thread ends.
Unforced(g) == Cancelled(g) \/ CdcClosed(g) \/ ~Up(g, "writer")
Runs ==
    /\ \/ /\ scenario.requests = {} /\ UNCHANGED popVars
          /\ \/ Supervise \/ cleanup_slot \/ cleanup_publication
             \/ \E g \in Generations :
                   \/ Unforced(g) /\ (writer_exit(g) \/ cdc_exit(g) \/ ServeLoopExit(g))
                   \/ cdc_start(g) \/ coalesce_drain(g) \/ coalesce_drain_retract(g)
       \/ scenario.workers > 0 /\ PopRuns /\ Quiet
    /\ UNCHANGED <<serveVars, scenario>>
FairSpec == Spec /\ WF_vars(Runs)

--------------------------------------------------------------------------
(* Properties of the serve path.                                           *)

\* What a client is owed: its completions, the description it asked for,
\* the rows and the end.
Owed(r) ==
    LET q == Request[r]
    IN  IF q.kind = "explain" THEN ExplainAnswer(r)
        ELSE Opening(q, r) \o If(q.describe = "statement", <<Frame("ParameterDescription", r)>>)
               \o SelectAnswer(q, r) \o Rfq(q)
PrefixesOf(s) == {SubSeq(s, 1, n) : n \in 0 .. Len(s)}
Cut(r) == <<ServeError>> \o (IF Request[r].block THEN <<>> ELSE Rfq(Request[r]))
Torn(c) == \E i \in DOMAIN client[c].wire : client[c].wire[i][1] = "Torn"
Replied(c, outcomes) == \E i \in DOMAIN client[c].reply : client[c].reply[i] \in outcomes

TypeOK ==
    /\ thread \in [Generations -> [Threads -> {"none", "starting", "up", "leaving", "gone"}]]
    /\ sup.gen \in Generations /\ dispatch \in {0} \cup Generations /\ status \in {0} \cup Generations
    /\ origin.slot \in {"none", "idle", "held"}
    /\ pool.desired \in PoolMin .. PoolMax /\ pool.live \in 0 .. PoolMax + 1 /\ pool.signals \in Nat
    /\ ToSet(pool.idle) \cup Out \subseteq Conns /\ IsInjective(pool.idle)
    /\ \A k \in Conns : Len(conn[k].order) <= PREPARED_STATEMENT_CAP
    /\ \A r \in Requests : task[r].committed \/ ~task[r].sent

(* A client on the wire gets a prefix of the response it is owed, or such  *)
(* a prefix and the error that ends it; it is told Complete only with the  *)
(* whole of one of them (frame_apply, failure_resolve).                    *)
WireWhole ==
    \A r \in Requests :
        LET wire == client[r].wire
        IN  Torn(r) \/
            /\ wire \in PrefixesOf(Owed(r)) \/ \E p \in PrefixesOf(Owed(r)) : wire = p \o Cut(r)
            /\ (Replied(r, {"Complete"}) /\ Sock(r) # "dead" /\ ~task[r].gone) =>
                  wire = Owed(r) \/ \E p \in PrefixesOf(Owed(r)) : wire = p \o Cut(r)

(* A request goes on to the origin only while nothing of a response is on  *)
(* its client's wire (failure_resolve); the end of the generation, whose   *)
(* closed pool fails a finished serve, is excepted.                        *)
ForwardedClean ==
    \A r \in Requests : Replied(r, {"Error", "Dropped"}) =>
        (client[r].wire = <<>> /\ ~client[r].half) \/ Sock(r) = "dead" \/ Cancelled(Served)


(* A connection handed to the next serve is protocol-clean: the statements *)
(* the proxy believes prepared are the ones its backend has.               *)
ConnectionsClean ==
    \A k \in ToSet(pool.idle) \cup ({pool.parked} \ {NoConn}) :
        conn[k].backend = ToSet(conn[k].order) \cup (IF conn[k].setgen THEN {"gen"} ELSE {})

(* No slot of the pool is lost or counted twice, whatever becomes of a     *)
(* serve: the live count is the connections idle and out and the losses    *)
(* still to be signalled (ConnectionGuard, pool_reconcile).                *)
PoolAccounted ==
    Up(Served, "serve") =>
        Len(pool.idle) + Cardinality(Out) + pool.signals = pool.live + (IF rec.pc = "add" THEN 1 ELSE 0)

(* Every client the serve path takes is answered exactly once, waiters     *)
(* included, on every path out of a serve.                                 *)
AnsweredOnce ==
    \A r \in scenario.requests : \A c \in AllOf(r) :
        Len(client[c].reply) <= 1 /\ (task[r].pc = "done" => Len(client[c].reply) = 1)

(* A step under verification is the size in force: no other rule of the    *)
(* controller moves the desired size under a pending probe.                *)
ProbeOwnsTarget ==
    /\ control.probe.state = "AwaitVerify" => pool.desired = control.probe.target
    /\ pcontrol.probe.state = "AwaitVerify" => ppool.desired = pcontrol.probe.target

--------------------------------------------------------------------------
(* Properties of the population workers.                                   *)

Active == {t \in Tasks : worker[t].pc # "gone"}
InState(pcs) == Cardinality({t \in Tasks : worker[t].pc \in pcs})

(* The pool's counters are the workers there are, and an unpark grant has  *)
(* a parked worker to take it: no grant is counted for a worker that left. *)
PopulationAccounted ==
    /\ ppool.live = Cardinality(Active) - InState({"parked"})
    /\ ppool.parked = InState({"parked"}) /\ ppool.pending = InState({"connecting"})
    /\ ppool.credits <= ppool.parked

(* Worker ids, the `worker` label of the metrics, stay unique and below    *)
(* the pool's ceiling across scale cycles (free_ids, worker_reserve).      *)
WorkerIdsBounded ==
    /\ \A t \in Active : worker[t].id < population_workers_max /\ worker[t].id \notin ToSet(ppool.free)
    /\ \A t, u \in Active : worker[t].id = worker[u].id => t = u

(* Both pools: no connection, worker or probe is lost or counted twice,    *)
(* whatever dies, parks, expires or is retired in between.                 *)
PoolsAccounted == TypeOK /\ PoolAccounted /\ ProbeOwnsTarget /\ PopulationAccounted /\ WorkerIdsBounded

(* Every population that was dispatched is in one place: queued, in the    *)
(* dispatcher's hand, with one worker, or reported to the writer, once.    *)
PopulationsReported ==
    \A w \in rendezvous.asked :
        Cardinality({i \in DOMAIN rendezvous.work_rx : rendezvous.work_rx[i] = w})
          + (IF rendezvous.hand = w THEN 1 ELSE 0) + Cardinality({t \in Tasks : worker[t].work = w}) + Len(outcome[w]) = 1

(* Work is neither lost nor done twice: every client is answered once and  *)
(* every population is in one place, on every path through the two pools.  *)
WorkAccounted == AnsweredOnce /\ PopulationsReported

(* The workers settle at the controller's target and every population is   *)
(* reported, whatever parked, expired, failed to connect or was throttled. *)
PopulationSettles ==
    (scenario.workers > 0) ~>
        [](rendezvous.open => (ppool.live = ppool.desired /\ \A w \in scenario.works : outcome[w] # <<>>))

--------------------------------------------------------------------------
(* Properties of the generations.                                          *)

(* The cache database is dropped and rebuilt only when no thread of an     *)
(* earlier generation works on it: a running writer or CDC thread finds    *)
(* the database and publication of its own generation (generation_join).   *)
ResetAlone ==
    \A g \in Generations :
        (Up(g, "writer") \/ thread[g]["cdc"] \in {"starting", "up"}) =>
            sup.gen = g /\ database = g

(* What is published belongs to the generation in service: while one is    *)
(* joined or rebuilt, connections find nothing and forward to the origin.  *)
PublishedIsCurrent ==
    /\ dispatch # 0 => dispatch = sup.gen /\ sup.pc \in {"tasks", "park"}
    /\ status # 0 => status = sup.gen /\ sup.pc = "park"

(* A generation whose writer is gone is retracted, whichever thread died   *)
(* first (coalesce_drain's cancellation, the supervisor's wake).           *)
DeadIsRetracted == \A g \in Generations : (dispatch = g /\ ~Up(g, "writer")) ~> (dispatch # g)

(* A generation that died is replaced by one that serves, unless the       *)
(* process is shutting down (restart_backoff).                             *)
DeadIsReplaced ==
    (sup.pc = "join") ~> (sup.pc \in {"park", "exit"} \/ (sup.pc = "backoff" /\ sup.gen = MaxGenerations))

(* The runtime comes back from every death: a dead generation is retracted *)
(* and replaced, and the population pool settles at its target.            *)
Recovers == DeadIsRetracted /\ DeadIsReplaced /\ PopulationSettles

--------------------------------------------------------------------------
(* What the code's comments say and its steps do not keep.                 *)

\* handle.rs: nothing is published only "before the cache is ready or while it is
\* restarting".  A drain that outlives its generation retracts its successor.
PublishedWhileUp ==
    (At("park") /\ ~Cancelled(sup.gen) /\ \A t \in Threads : Up(sup.gen, t)) => dispatch = sup.gen

\* proxy/server.rs: an orderly shutdown cleans the replication slot up.
SlotReleased == (accept = "gone" /\ At("exit") /\ budget["accept"] > 0) => origin.slot = "none"

\* serve_pool.rs: a client that got a byte is not served by origin any more.
ForwardedCleanAlways ==
    \A r \in Requests : Replied(r, {"Error", "Dropped"}) =>
        (client[r].wire = <<>> /\ ~client[r].half) \/ Sock(r) = "dead"

\* relay.rs says the same of the waiters a coalesced serve answers.
WaitersForwardedClean ==
    \A w \in Waiters : Replied(w, {"Error", "Dropped"}) => client[w].wire = <<>> \/ Sock(w) = "dead"

\* serve_pool.rs: the waiters of a failed serve got an Error, none is dropped.
WaitersErrored == \A w \in Waiters : ~Replied(w, {"Dropped"})

\* serve_pool.rs: "the ceiling is the cache-PG protection bound".
CeilingKept == Cardinality(InUse) <= PoolMax
=============================================================================
