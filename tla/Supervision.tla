---------------------------- MODULE Supervision ----------------------------
(***************************************************************************)
(* Generations of the cache subsystem: how one is set up (runtime/         *)
(* setup.rs), dies, is reaped and rebuilt (runtime/supervise.rs), the      *)
(* handles it publishes (query_cache/handle.rs, proxy/cache_sender.rs) and *)
(* the accept thread that ends the process (proxy/server.rs).  Backoffs    *)
(* are steps without a duration.  What fails is bounded by `budget`.       *)
(***************************************************************************)
EXTENDS Integers, Sequences, FiniteSets

CONSTANT MaxGenerations \* bound on the generations of one behaviour
ASSUME GenerationsBound == MaxGenerations \in Nat \ {0}

VARIABLES
    root,      \* the proxy's token is cancelled
    cancel,    \* per generation: its own token is cancelled
    thread,    \* per generation: its writer and cdc threads, drain and serve tasks
    sup,       \* the proxy thread: [pc, gen, first]
    dispatch,  \* the generation whose CacheDispatch is published, or 0
    status,    \* the generation whose status sender is published, or 0
    accept,    \* the accept thread
    origin,    \* [slot, publication]: the replication slot, the publication's generation
    database,  \* the generation whose reset created the cache database, or 0
    budget     \* faults left

supVars == <<root, cancel, thread, sup, dispatch, status, accept, origin, database, budget>>

Generations == 1 .. MaxGenerations
Threads == {"writer", "cdc", "drain", "serve"}
Cancelled(g) == root \/ cancel[g]
Up(g, t) == thread[g][t] = "up"
Set(g, t, s) == thread' = [thread EXCEPT ![g][t] = s]
Spend(f) == budget[f] > 0 /\ budget' = [budget EXCEPT ![f] = @ - 1]
At(pc) == sup.pc = pc
Go(pc) == sup' = [sup EXCEPT !.pc = pc]

SupInit(faults) ==
    /\ root = FALSE
    /\ cancel = [g \in Generations |-> FALSE]
    /\ thread = [g \in Generations |-> [t \in Threads |-> "none"]]
    /\ sup = [pc |-> "publication", gen |-> 1]
    /\ dispatch = 0 /\ status = 0
    /\ accept = "none"
    /\ origin = [slot |-> "none", publication |-> 0]
    /\ database = 0
    /\ budget = faults

--------------------------------------------------------------------------
(* cache_setup, step by step.  A step that fails cancels and joins what    *)
(* was started; the first generation's failure ends the process, a later   *)
(* one's goes back to the backoff.                                         *)

SetupFailed == Go(IF sup.gen = 1 THEN "exit" ELSE "backoff") /\ dispatch' = 0 /\ status' = 0

\* replication_provision: the publication is dropped and created empty, the
\* slot created when it is missing.
provision_publication ==
    /\ At("publication") /\ Go("slot")
    /\ origin' = [origin EXCEPT !.publication = sup.gen]
    /\ UNCHANGED <<root, cancel, thread, dispatch, status, accept, database, budget>>
provision_slot ==
    /\ At("slot") /\ Go("reset")
    /\ origin' = [origin EXCEPT !.slot = IF @ = "none" THEN "idle" ELSE @]
    /\ UNCHANGED <<root, cancel, thread, dispatch, status, accept, database, budget>>
\* An unreachable origin, a failing reset, a writer thread that does not spawn.
SetupFails ==
    /\ sup.pc \in {"publication", "slot", "reset", "writer"}
    /\ Spend("setup") /\ SetupFailed
    /\ UNCHANGED <<root, cancel, thread, accept, origin, database>>
\* cache_database_reset: sessions are terminated, the database dropped and
\* created with its extensions and schemas.
cache_database_reset ==
    /\ At("reset") /\ Go("writer")
    /\ database' = sup.gen
    /\ UNCHANGED <<root, cancel, thread, dispatch, status, accept, origin, budget>>
spawn_writer ==
    /\ At("writer") /\ Go("cdc")
    /\ Set(sup.gen, "writer", "up")
    /\ UNCHANGED <<root, cancel, dispatch, status, accept, origin, database, budget>>
spawn_cdc ==
    /\ At("cdc")
    /\ \/ Go("dispatch") /\ Set(sup.gen, "cdc", "starting") /\ UNCHANGED <<cancel, budget>>
       \/ Spend("setup") /\ Go("bail") /\ cancel' = [cancel EXCEPT ![sup.gen] = TRUE] /\ UNCHANGED thread
    /\ UNCHANGED <<root, dispatch, status, accept, origin, database>>
\* CacheDispatch::new connects to both databases, pinned_queries_register
\* sends to the writer: a writer that is gone fails it.
dispatch_new ==
    /\ At("dispatch")
    /\ \/ Up(sup.gen, "writer") /\ Go("publish") /\ UNCHANGED <<cancel, budget>>
       \/ /\ Up(sup.gen, "writer") => budget["setup"] > 0
          /\ budget' = [budget EXCEPT !["setup"] = IF @ > 0 THEN @ - 1 ELSE 0]
          /\ Go("bail") /\ cancel' = [cancel EXCEPT ![sup.gen] = TRUE]
    /\ UNCHANGED <<root, thread, dispatch, status, accept, origin, database>>
\* The threads already spawned are joined before the error is returned.
Gone(g) == thread[g]["writer"] \in {"none", "gone"} /\ thread[g]["cdc"] \in {"none", "gone"}
setup_bail ==
    /\ At("bail") /\ Gone(sup.gen)
    /\ SetupFailed
    /\ UNCHANGED <<root, cancel, thread, accept, origin, database, budget>>
publish ==
    /\ At("publish") /\ Go("tasks")
    /\ dispatch' = sup.gen
    /\ Set(sup.gen, "serve", "up")
    /\ UNCHANGED <<root, cancel, status, accept, origin, database, budget>>
\* The tasks come after the blocking shared_buffers query; the first
\* generation opens the listener.
spawn_tasks ==
    /\ At("tasks") /\ Go("park")
    /\ Set(sup.gen, "drain", "up")
    /\ status' = sup.gen
    /\ accept' = IF sup.gen = 1 THEN "listening" ELSE accept
    /\ UNCHANGED <<root, cancel, dispatch, origin, database, budget>>

--------------------------------------------------------------------------
(* cache_supervise.                                                        *)

generation_down_quietly ==
    /\ At("park") /\ Cancelled(sup.gen)
    /\ Go("join") /\ status' = 0
    /\ UNCHANGED <<root, cancel, thread, dispatch, accept, origin, database, budget>>
\* The parked supervisor wakes when the generation's token fires.
generation_down ==
    /\ At("park") /\ Cancelled(sup.gen)
    /\ Go("join") /\ dispatch' = 0 /\ status' = 0
    /\ UNCHANGED <<root, cancel, thread, accept, origin, database, budget>>
generation_join_none ==
    /\ At("join")
    /\ dispatch' = IF root THEN 0 ELSE dispatch
    /\ status' = IF root THEN 0 ELSE status
    /\ Go(IF root THEN "exit" ELSE "backoff")
    /\ UNCHANGED <<root, cancel, thread, accept, origin, database, budget>>
generation_join ==
    /\ At("join") /\ Gone(sup.gen)
    /\ dispatch' = IF root THEN 0 ELSE dispatch
    /\ status' = IF root THEN 0 ELSE status
    /\ Go(IF root THEN "exit" ELSE "backoff")
    /\ UNCHANGED <<root, cancel, thread, accept, origin, database, budget>>
restart_interrupted ==
    /\ At("backoff") /\ root
    /\ Go("exit") /\ dispatch' = 0 /\ status' = 0
    /\ UNCHANGED <<root, cancel, thread, accept, origin, database, budget>>
restart_backoff_same ==
    /\ At("backoff") /\ sup.gen < MaxGenerations
    /\ Go("join")
    /\ UNCHANGED <<root, cancel, thread, dispatch, status, accept, origin, database, budget>>
restart_backoff ==
    /\ At("backoff") /\ sup.gen < MaxGenerations
    /\ sup' = [pc |-> "publication", gen |-> sup.gen + 1]
    /\ UNCHANGED <<root, cancel, thread, dispatch, status, accept, origin, database, budget>>

Supervise ==
    \/ provision_publication \/ provision_slot \/ cache_database_reset \/ spawn_writer \/ spawn_cdc
    \/ dispatch_new \/ setup_bail \/ publish \/ spawn_tasks
    \/ generation_down \/ generation_join \/ restart_interrupted \/ restart_backoff

--------------------------------------------------------------------------
(* How a generation dies.                                                  *)

\* writer_run ends when its token fires, on an error, or when the CDC
\* command channel closes; its notify sender goes with it.
CdcClosed(g) == thread[g]["cdc"] = "gone" \/ (thread[g]["cdc"] = "none" /\ cancel[g])
writer_exit(g) ==
    /\ Up(g, "writer")
    /\ \/ (Cancelled(g) \/ CdcClosed(g)) /\ UNCHANGED budget
       \/ Spend("thread")
    /\ Set(g, "writer", "gone")
    /\ UNCHANGED <<root, cancel, sup, dispatch, status, accept, origin, database>>
\* cdc_run: CdcProcessor::new takes the slot, and fails when the slot is
\* missing or another session still streams from it.
cdc_start(g) ==
    /\ thread[g]["cdc"] = "starting"
    /\ IF origin.slot = "idle"
       THEN Set(g, "cdc", "up") /\ origin' = [origin EXCEPT !.slot = "held"]
       ELSE Set(g, "cdc", "gone") /\ UNCHANGED origin
    /\ UNCHANGED <<root, cancel, sup, dispatch, status, accept, database, budget>>
\* It ends when its token fires, when the writer is gone or on a change it
\* cannot apply; cdc_reconnect finding the slot lost cancels the generation.
cdc_exit(g) ==
    /\ Up(g, "cdc")
    /\ \/ (Cancelled(g) \/ ~Up(g, "writer")) /\ UNCHANGED <<cancel, budget>>
       \/ Spend("thread") /\ UNCHANGED cancel
       \/ origin.slot = "none" /\ cancel' = [cancel EXCEPT ![g] = TRUE] /\ UNCHANGED budget
    /\ Set(g, "cdc", "gone")
    /\ origin' = [origin EXCEPT !.slot = IF @ = "held" THEN "idle" ELSE @]
    /\ UNCHANGED <<root, sup, dispatch, status, accept, database>>
\* The origin drops the slot (max_slot_wal_keep_size, an operator).
SlotLost ==
    /\ origin.slot # "none" /\ Spend("slot")
    /\ origin' = [origin EXCEPT !.slot = "none"]
    /\ UNCHANGED <<root, cancel, thread, sup, dispatch, status, accept, database>>
\* coalesce_drain: the closed notify channel cancels the generation ...
coalesce_drain(g) ==
    /\ Up(g, "drain")
    /\ \/ Cancelled(g) /\ UNCHANGED cancel
       \/ ~Up(g, "writer") /\ cancel' = [cancel EXCEPT ![g] = TRUE]
    /\ Set(g, "drain", "leaving")
    /\ UNCHANGED <<root, sup, dispatch, status, accept, origin, database, budget>>
\* ... and the loop's exit clears whatever is published.
coalesce_drain_retract(g) ==
    /\ thread[g]["drain"] = "leaving"
    /\ Set(g, "drain", "gone")
    /\ dispatch' = 0
    /\ UNCHANGED <<root, cancel, sup, status, accept, origin, database, budget>>
\* serve_loop: a pool it cannot create cancels the generation.
serve_exit(g) ==
    /\ Up(g, "serve")
    /\ \/ Cancelled(g) /\ UNCHANGED <<cancel, budget>>
       \/ Spend("thread") /\ cancel' = [cancel EXCEPT ![g] = TRUE]
    /\ Set(g, "serve", "gone")
    /\ UNCHANGED <<root, sup, dispatch, status, accept, origin, database>>

--------------------------------------------------------------------------
(* The process and the accept thread.                                      *)

Shutdown ==
    /\ ~root /\ accept # "none" /\ Spend("shutdown")
    /\ root' = TRUE
    /\ UNCHANGED <<cancel, thread, sup, dispatch, status, accept, origin, database>>
\* accept_run fails to resolve, bind or accept: it returns without the
\* cleanup, and its thread cancels the proxy.
accept_fails ==
    /\ accept = "listening" /\ Spend("accept")
    /\ accept' = "gone" /\ root' = TRUE
    /\ UNCHANGED <<cancel, thread, sup, dispatch, status, origin, database>>
\* replication_cleanup: the slot first (the origin refuses while a session
\* streams from it), then the publication.
cleanup_slot ==
    /\ accept = "listening" /\ root
    /\ IF origin.slot = "held"
       THEN accept' = "gone" /\ UNCHANGED origin
       ELSE accept' = "publication" /\ origin' = [origin EXCEPT !.slot = "none"]
    /\ UNCHANGED <<root, cancel, thread, sup, dispatch, status, database, budget>>
cleanup_publication ==
    /\ accept = "publication"
    /\ accept' = "gone"
    /\ origin' = [origin EXCEPT !.publication = 0]
    /\ UNCHANGED <<root, cancel, thread, sup, dispatch, status, database, budget>>

SupNext ==
    \/ Supervise \/ SetupFails \/ SlotLost \/ Shutdown \/ accept_fails \/ cleanup_slot \/ cleanup_publication
    \/ \E g \in Generations :
          \/ writer_exit(g) \/ cdc_start(g) \/ cdc_exit(g)
          \/ coalesce_drain(g) \/ coalesce_drain_retract(g)
=============================================================================
