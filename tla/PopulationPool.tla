--------------------------- MODULE PopulationPool ---------------------------
(***************************************************************************)
(* The elastic pool of population workers: the pool's counters (cache/     *)
(* population_pool.rs), its controller (runtime/population_pool.rs), the   *)
(* writer's reconcile (registration/pool.rs), the dispatcher and the       *)
(* worker loop (population/worker.rs).  All but the controller run on the  *)
(* writer's thread, so a step ends where the code awaits.  What a          *)
(* population reads and how its rows are merged is PopulationMerge.        *)
(***************************************************************************)
EXTENDS ServePath

CONSTANTS Works, population_workers_min, population_workers_max, POPULATION_DEADLOCK_MAX_RETRIES

VARIABLES
    ppool,     \* the shared counters: PopulationPool
    pcontrol,  \* the controller
    worker,    \* per task of the writer's thread: [pc, id, work, attempt]
    rendezvous,\* the dispatcher: [open, gone, asked, work_rx, hand, idle]
    throttled, \* registration_throttled
    outcome    \* per work item: the commands sent to the writer for it

popVars == <<ppool, pcontrol, worker, rendezvous, throttled, outcome>>

NoWork == "none"
Tasks == 1 .. population_workers_max + 1
NoWorker == [pc |-> "gone", id |-> 0, work |-> NoWork, attempt |-> 0]

PopInit(n, works) ==
    /\ ppool = [desired |-> n, live |-> n, parked |-> 0, credits |-> 0,
                free |-> <<>>, next |-> n, pending |-> 0, failed |-> FALSE, cooldown |-> FALSE]
    /\ pcontrol = NewController(population_workers_min, population_workers_max)
    /\ worker = [t \in Tasks |-> IF t <= n THEN [NoWorker EXCEPT !.pc = "top", !.id = t - 1] ELSE NoWorker]
    /\ rendezvous = [open |-> TRUE, gone |-> FALSE, asked |-> {}, work_rx |-> <<>>, hand |-> NoWork, idle |-> <<>>]
    /\ throttled = FALSE
    /\ outcome = [w \in works |-> <<>>]

Send(w, command) == outcome' = [outcome EXCEPT ![w] = Append(@, command)]
Settled == UNCHANGED <<pcontrol, throttled>>

--------------------------------------------------------------------------
(* PopulationPool's operations on the counters.                            *)

worker_reserve(p) ==
    LET reused == p.free # <<>>
    IN  [pool |-> [p EXCEPT !.live = @ + 1, !.pending = @ + 1,
                            !.free = IF reused THEN Front(@) ELSE @, !.next = IF reused THEN @ ELSE @ + 1],
         id |-> IF reused THEN Last(p.free) ELSE p.next]
pending_connect_done(p) == [p EXCEPT !.pending = IF @ > 0 THEN @ - 1 ELSE 0]
retired_id_return(p, id) == [p EXCEPT !.free = Append(@, id)]
worker_exit(p, id) == retired_id_return([p EXCEPT !.live = @ - 1], id)
retire_claim(p) == p.live > p.desired
\* A fresh grant only for a parked worker without one.
unpark_request(p) == p.parked = 1 /\ p.credits = 0
unpark_complete(p) == [p EXCEPT !.credits = 0, !.parked = 0, !.live = @ + 1]

--------------------------------------------------------------------------
(* The writer: work items, the reconcile, the end of the registration.     *)

populate_work_dispatch(w) ==
    /\ rendezvous.open /\ w \notin rendezvous.asked
    /\ rendezvous' = [rendezvous EXCEPT !.asked = @ \cup {w}, !.work_rx = Append(@, w)]
    /\ Settled /\ UNCHANGED <<ppool, worker, outcome>>
\* spawn_cooldown_passed: a recorded failure arms the cooldown.
spawn_cooldown_arm ==
    /\ rendezvous.open /\ ppool.failed
    /\ ppool' = [ppool EXCEPT !.failed = FALSE, !.cooldown = TRUE]
    /\ Settled /\ UNCHANGED <<worker, rendezvous, outcome>>
spawn_cooldown_over ==
    /\ ppool.cooldown
    /\ ppool' = [ppool EXCEPT !.cooldown = FALSE]
    /\ Settled /\ UNCHANGED <<worker, rendezvous, outcome>>
\* One turn of the reconcile's loop per step: each turn decides afresh, so
\* the turns of one tick and of several cannot be told apart.
population_worker_spawn ==
    LET got == worker_reserve(ppool)
        t == CHOOSE t \in Tasks : worker[t].pc = "gone" /\ \A u \in Tasks : worker[u].pc = "gone" => t <= u
    IN  /\ ppool' = got.pool
        /\ worker' = [worker EXCEPT ![t] = [NoWorker EXCEPT !.pc = "connecting", !.id = got.id]]
population_pool_reconcile ==
    /\ rendezvous.open /\ ~ppool.failed /\ ~ppool.cooldown
    /\ ppool.live + ppool.credits < ppool.desired
    /\ IF unpark_request(ppool) THEN ppool' = [ppool EXCEPT !.credits = 1] /\ UNCHANGED worker
       ELSE population_worker_spawn
    /\ Settled /\ UNCHANGED <<rendezvous, outcome>>
RegistrationDrops ==
    /\ rendezvous.open
    /\ rendezvous' = [rendezvous EXCEPT !.open = FALSE]
    /\ Settled /\ UNCHANGED <<ppool, worker, outcome>>

--------------------------------------------------------------------------
(* The dispatcher.                                                         *)

dispatcher_receive ==
    /\ ~rendezvous.gone /\ rendezvous.hand = NoWork /\ rendezvous.work_rx # <<>>
    /\ rendezvous' = [rendezvous EXCEPT !.hand = Head(rendezvous.work_rx), !.work_rx = Tail(@)]
    /\ Settled /\ UNCHANGED <<ppool, worker, outcome>>
\* A slot whose worker stopped waiting hands the work back.
dispatcher_pair_lost ==
    /\ ~rendezvous.gone /\ rendezvous.hand # NoWork /\ rendezvous.idle # <<>>
    /\ LET slot == Head(rendezvous.idle)
       IN  /\ worker' = IF slot.alive THEN [worker EXCEPT ![slot.task].pc = "work", ![slot.task].work = rendezvous.hand]
                        ELSE worker
           /\ rendezvous' = [rendezvous EXCEPT !.idle = Tail(@), !.hand = NoWork]
    /\ Settled /\ UNCHANGED <<ppool, outcome>>
dispatcher_pair ==
    /\ ~rendezvous.gone /\ rendezvous.hand # NoWork /\ rendezvous.idle # <<>>
    /\ LET slot == Head(rendezvous.idle)
       IN  /\ worker' = IF slot.alive THEN [worker EXCEPT ![slot.task].pc = "work", ![slot.task].work = rendezvous.hand]
                        ELSE worker
           /\ rendezvous' = [rendezvous EXCEPT !.idle = Tail(@), !.hand = IF slot.alive THEN NoWork ELSE @]
    /\ Settled /\ UNCHANGED <<ppool, outcome>>
\* No sender of idle slots is left.
dispatcher_closed ==
    /\ ~rendezvous.gone /\ ~rendezvous.open /\ rendezvous.hand # NoWork /\ rendezvous.idle = <<>>
    /\ \A t \in Tasks : worker[t].pc = "gone"
    /\ Send(rendezvous.hand, "Failed")
    /\ rendezvous' = [rendezvous EXCEPT !.hand = NoWork, !.gone = TRUE]
    /\ Settled /\ UNCHANGED <<ppool, worker>>
\* The queue is closed and drained: the slots are dropped with the dispatcher.
dispatcher_done ==
    /\ ~rendezvous.gone /\ ~rendezvous.open /\ rendezvous.hand = NoWork /\ rendezvous.work_rx = <<>>
    /\ rendezvous' = [rendezvous EXCEPT !.gone = TRUE, !.idle = <<>>]
    /\ Settled /\ UNCHANGED <<ppool, worker, outcome>>

--------------------------------------------------------------------------
(* A worker.                                                               *)

Worker(t, pc) == worker[t].pc = pc
Becomes(t, pc) == worker' = [worker EXCEPT ![t].pc = pc]
Leaves(t) == worker' = [worker EXCEPT ![t] = NoWorker]

population_worker_connect(t) ==
    /\ Worker(t, "connecting") /\ Becomes(t, "top")
    /\ ppool' = pending_connect_done(ppool)
    /\ Settled /\ UNCHANGED <<rendezvous, outcome>>
population_worker_connect_fails(t) ==
    /\ Worker(t, "connecting") /\ Leaves(t)
    /\ ppool' = worker_exit(pending_connect_done([ppool EXCEPT !.failed = TRUE]), worker[t].id)
    /\ Settled /\ UNCHANGED <<rendezvous, outcome>>
\* retire_check: a surplus worker parks in the one slot, or retires.
retire_check(t) ==
    /\ Worker(t, "top")
    /\ LET claimed == [ppool EXCEPT !.live = @ - 1]
       IN  IF ~retire_claim(ppool) THEN Becomes(t, "register") /\ UNCHANGED ppool
           ELSE IF ppool.parked = 0
           THEN Becomes(t, "parked") /\ ppool' = [claimed EXCEPT !.parked = 1]
           ELSE Leaves(t) /\ ppool' = retired_id_return(claimed, worker[t].id)
    /\ Settled /\ UNCHANGED <<rendezvous, outcome>>
unpark_try(t) ==
    /\ Worker(t, "parked") /\ ppool.credits = 1
    /\ Becomes(t, "register") /\ ppool' = unpark_complete(ppool)
    /\ Settled /\ UNCHANGED <<rendezvous, outcome>>
\* The park expires: a grant that is there is taken, else the slot is left
\* and the credit swept.
park_expire_unswept(t) ==
    /\ Worker(t, "parked")
    /\ Leaves(t)
    /\ ppool' = retired_id_return([ppool EXCEPT !.parked = 0], worker[t].id)
    /\ Settled /\ UNCHANGED <<rendezvous, outcome>>
park_expire(t) ==
    /\ Worker(t, "parked")
    /\ IF ppool.credits = 1 THEN Becomes(t, "register") /\ ppool' = unpark_complete(ppool)
       ELSE Leaves(t) /\ ppool' = retired_id_return([ppool EXCEPT !.parked = 0, !.credits = 0], worker[t].id)
    /\ Settled /\ UNCHANGED <<rendezvous, outcome>>
\* The idle slot, or the end when the dispatcher is gone.
idle_register(t) ==
    /\ Worker(t, "register")
    /\ IF rendezvous.gone
       THEN Leaves(t) /\ ppool' = worker_exit(ppool, worker[t].id) /\ UNCHANGED rendezvous
       ELSE /\ Becomes(t, "idle")
            /\ rendezvous' = [rendezvous EXCEPT !.idle = Append(@, [task |-> t, alive |-> TRUE])]
            /\ UNCHANGED ppool
    /\ Settled /\ UNCHANGED outcome
idle_recheck(t) ==
    /\ Worker(t, "idle") /\ ~rendezvous.gone
    /\ Becomes(t, "top")
    /\ rendezvous' = [rendezvous EXCEPT !.idle =
            [i \in DOMAIN @ |-> IF @[i].task = t THEN [@[i] EXCEPT !.alive = FALSE] ELSE @[i]]]
    /\ Settled /\ UNCHANGED <<ppool, outcome>>
idle_shutdown(t) ==
    /\ Worker(t, "idle") /\ rendezvous.gone
    /\ Leaves(t) /\ ppool' = worker_exit(ppool, worker[t].id)
    /\ Settled /\ UNCHANGED <<rendezvous, outcome>>
\* work_handle: throttled work and work whose connections cannot be healed
\* fail; the others run.
work_fails(t) ==
    /\ Worker(t, "work")
    /\ worker' = [worker EXCEPT ![t].pc = "top", ![t].work = NoWork]
    /\ Send(worker[t].work, "Failed")
    /\ Settled /\ UNCHANGED <<ppool, rendezvous>>
work_starts(t) ==
    /\ Worker(t, "work") /\ ~throttled
    /\ worker' = [worker EXCEPT ![t].pc = "task", ![t].attempt = 0]
    /\ Settled /\ UNCHANGED <<ppool, rendezvous, outcome>>
\* task_run and outcome_send; a deadlock is retried with the staging cleared.
task_retry(t) ==
    /\ Worker(t, "task") /\ worker[t].attempt < POPULATION_DEADLOCK_MAX_RETRIES
    /\ worker' = [worker EXCEPT ![t].attempt = @ + 1]
    /\ Settled /\ UNCHANGED <<ppool, rendezvous, outcome>>
outcome_send(t, command) ==
    /\ Worker(t, "task")
    /\ worker' = [worker EXCEPT ![t].pc = "top", ![t].work = NoWork, ![t].attempt = 0]
    /\ Send(worker[t].work, command)
    /\ Settled /\ UNCHANGED <<ppool, rendezvous>>

--------------------------------------------------------------------------
(* The controller's tick: a worker still connecting is not live to it.     *)

population_pool_controller ==
    /\ \E s \in Samples :
        LET next == controller_step(pcontrol, s, ppool.desired, ppool.live - ppool.pending)
        IN  pcontrol' = next.control /\ ppool' = [ppool EXCEPT !.desired = next.desired]
    /\ UNCHANGED <<worker, rendezvous, throttled, outcome>>
ThrottleFlips == throttled' = ~throttled /\ UNCHANGED <<ppool, pcontrol, worker, rendezvous, outcome>>

\* What happens by itself, and what the scenario's budget allows.
PopRuns ==
    \/ \E w \in DOMAIN outcome : populate_work_dispatch(w)
    \/ spawn_cooldown_arm \/ spawn_cooldown_over \/ population_pool_reconcile
    \/ dispatcher_receive \/ dispatcher_pair \/ dispatcher_closed \/ dispatcher_done
    \/ \E t \in Tasks :
          \/ population_worker_connect(t) \/ retire_check(t) \/ unpark_try(t) \/ idle_register(t) \/ idle_shutdown(t)
          \/ ppool.live > ppool.desired /\ idle_recheck(t)
          \/ throttled /\ work_fails(t)
          \/ work_starts(t) \/ outcome_send(t, "Merge")
          \/ ~rendezvous.open /\ park_expire(t)
PopFaults ==
    \/ Faults("ptick") /\ population_pool_controller
    \/ Faults("throttle") /\ ThrottleFlips
    \/ Faults("drop") /\ RegistrationDrops
    \/ \E t \in Tasks :
          \/ Faults("dial") /\ population_worker_connect_fails(t)
          \/ Faults("recheck") /\ idle_recheck(t)
          \/ Faults("expire") /\ park_expire(t)
          \/ Faults("heal") /\ ~throttled /\ work_fails(t)
          \/ Faults("deadlock") /\ task_retry(t)
          \/ Faults("popfail") /\ outcome_send(t, "Failed")
PopNext == (PopRuns /\ Quiet) \/ PopFaults
=============================================================================
