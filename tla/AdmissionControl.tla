-------------------------- MODULE AdmissionControl --------------------------
(***************************************************************************)
(* What limits the registration of new queries: the adaptive rate gate     *)
(* (cache/reg_gate.rs, runtime/reg_gate.rs) with its token bucket          *)
(* (reg_bucket.rs), and the memory monitor (runtime/memory_monitor.rs,     *)
(* memory.rs) with the eviction and recycling it drives.  The gate's       *)
(* window is read by two swaps, and the writer may observe between them.   *)
(***************************************************************************)
EXTENDS Integers, FiniteSetsExt

CONSTANTS
    R_BOOTSTRAP, R_MIN, R_STEP, DRAIN_FLOOR, LOADING_FLOOR, BURST_FLOOR,
    RateBound, InflightBound, ElapsedBound, LedgerBound,         \* bounds of the model
    COUNT_CAP_MIN_QUERIES, COUNT_CAP_MIN_GROWTH, EVICTION_TICK_BUDGET,
    total_ram, shared_buffers, pool_size, RegisterBurst

VARIABLES
    limiter, \* which of the two a behaviour is about: "rate" or "memory"
    gate,    \* RegGate's atomics: [rate, queue_min, queue_max, loading, denied]
    pacer,   \* reg_gate_controller: [pc, shedding, qmax, rate, prev_qmin, prev_loading]
    bucket,  \* RegRateBucket: [tokens, elapsed, last], and the last verdict
    work,    \* registrations: [inflight, queue]
    ledger,  \* history: what was admitted, in how much time, at which highest rate
    mem,     \* what is resident: [heavy, light, garbage, workload, burst]
    monitor, \* memory_monitor's locals: [hw_private, hw_count, ewma, peak, probe, last_cap]
    throttled, \* registration_throttled
    limits   \* what the monitor and the serve loop publish: [cap, count, recycle_wanted, recycled]

gateVars == <<gate, pacer, bucket, work, ledger>>
memVars == <<mem, monitor, throttled, limits>>
vars == <<limiter, gateVars, memVars>>

Infinite == -1
usize_MAX == 1000000
NoReading == -1

Init ==
    /\ limiter \in {"rate", "memory"}
    /\ gate = [rate |-> Infinite, queue_min |-> usize_MAX, queue_max |-> 0, loading |-> 0, denied |-> FALSE]
    /\ pacer = [pc |-> "start", shedding |-> FALSE, qmax |-> 0, rate |-> R_BOOTSTRAP, prev_qmin |-> 0, prev_loading |-> 0]
    /\ bucket = [tokens |-> 0, elapsed |-> 4, last |-> "none"]
    /\ work = [inflight |-> 0, queue |-> 0]
    /\ ledger = [admitted |-> 0, time |-> 4, rate |-> R_BOOTSTRAP]
    /\ mem = [heavy |-> 0, light |-> 0, garbage |-> 0, workload |-> "heavy", burst |-> 0]
    /\ monitor = [hw_private |-> NoReading, hw_count |-> 0, ewma |-> 0, peak |-> 0, probe |-> 0, last_cap |-> NoReading]
    /\ throttled = FALSE
    /\ limits = [cap |-> usize_MAX, count |-> 0, recycle_wanted |-> FALSE, recycled |-> 0]

--------------------------------------------------------------------------
(* The token bucket.  Time is counted in quarters of a second, tokens in   *)
(* quarters of a token.                                                    *)

time_passes ==
    /\ bucket.elapsed < ElapsedBound /\ gate.rate # Infinite
    /\ bucket' = [bucket EXCEPT !.elapsed = @ + 1]
    /\ ledger' = [ledger EXCEPT !.time = IF ledger.admitted < LedgerBound /\ @ < 4 * LedgerBound THEN @ + 1 ELSE @]
    /\ UNCHANGED <<gate, pacer, work, memVars>>

refill(b, tokens) == [b EXCEPT !.tokens = tokens, !.elapsed = 0]
Recording == ledger.admitted < LedgerBound /\ ledger.time < 4 * LedgerBound
try_take ==
    /\ work.inflight < InflightBound
    /\ LET burst == Max({2 * gate.rate, 4 * BURST_FLOOR})
           tokens == Min({bucket.tokens + bucket.elapsed * gate.rate, burst})
           admits == gate.rate = Infinite \/ (gate.rate > 0 /\ tokens >= 4)
           counted == gate.rate > 0
       IN  /\ bucket' = [(IF counted THEN refill(bucket, IF admits THEN tokens - 4 ELSE tokens) ELSE bucket)
                            EXCEPT !.last = IF admits THEN "admitted" ELSE "denied"]
           /\ gate' = [gate EXCEPT !.denied = @ \/ (counted /\ ~admits)]
           /\ work' = [work EXCEPT !.inflight = @ + (IF admits THEN 1 ELSE 0)]
           /\ ledger' = [ledger EXCEPT !.admitted = @ + (IF admits /\ counted /\ Recording THEN 1 ELSE 0)]
    /\ UNCHANGED <<pacer, memVars>>

--------------------------------------------------------------------------
(* The writer: completions arrive, an iteration handles one, and ends by   *)
(* folding the backlog into the window.                                    *)

population_done ==
    /\ work.queue < work.inflight
    /\ work' = [work EXCEPT !.queue = @ + 1]
    /\ UNCHANGED <<gate, pacer, bucket, ledger, memVars>>
\* An iteration for another command, or one that makes a query Ready.
writer_iterates ==
    /\ \E done \in {0, 1} :
          /\ done <= work.queue
          /\ work' = [work EXCEPT !.queue = @ - done, !.inflight = @ - done]
          /\ gate' = [gate EXCEPT !.queue_min = Min({@, work.queue - done}), !.queue_max = Max({@, work.queue - done})]
    /\ UNCHANGED <<pacer, bucket, ledger, memVars>>
loading_set ==
    /\ gate.loading # work.inflight
    /\ gate' = [gate EXCEPT !.loading = work.inflight]
    /\ UNCHANGED <<pacer, bucket, work, ledger, memVars>>

--------------------------------------------------------------------------
(* The controller's tick.                                                  *)

gate_start ==
    /\ pacer.pc = "start"
    /\ pacer' = [pacer EXCEPT !.pc = "sleep"]
    /\ gate' = [gate EXCEPT !.rate = R_BOOTSTRAP]
    /\ UNCHANGED <<bucket, work, ledger, memVars>>
window_take_max ==
    /\ pacer.pc = "sleep" /\ pacer.rate <= RateBound
    /\ pacer' = [pacer EXCEPT !.pc = "min", !.shedding = gate.denied, !.qmax = gate.queue_max]
    /\ gate' = [gate EXCEPT !.denied = FALSE, !.queue_max = 0]
    /\ UNCHANGED <<bucket, work, ledger, memVars>>

\* Back off when either backlog stands and grows; probe when both are
\* drained and demand is shed; hold otherwise.
pace_unfloored(p, qmin, loading) ==
    IF (qmin > DRAIN_FLOOR /\ qmin >= p.prev_qmin) \/ (loading > LOADING_FLOOR /\ loading >= p.prev_loading)
    THEN (p.rate * 3) \div 4
    ELSE IF p.shedding /\ qmin <= DRAIN_FLOOR /\ loading <= LOADING_FLOOR THEN p.rate + R_STEP ELSE p.rate
pace(p, qmin, loading) == Max({R_MIN, pace_unfloored(p, qmin, loading)})
gate_decide ==
    /\ pacer.pc = "min"
    /\ LET qmin == IF gate.queue_min = usize_MAX THEN 0 ELSE gate.queue_min
           idle == pacer.qmax = 0 /\ gate.loading <= LOADING_FLOOR
           rate == IF idle THEN pacer.rate ELSE pace(pacer, qmin, gate.loading)
       IN  /\ pacer' = [pacer EXCEPT !.pc = "sleep", !.qmax = 0, !.shedding = FALSE, !.rate = rate,
                                     !.prev_qmin = IF idle THEN @ ELSE qmin,
                                     !.prev_loading = IF idle THEN @ ELSE gate.loading]
           /\ gate' = [gate EXCEPT !.queue_min = usize_MAX, !.rate = rate]
           /\ ledger' = [ledger EXCEPT !.rate = IF Recording THEN Max({@, rate}) ELSE @]
    /\ UNCHANGED <<bucket, work, memVars>>


--------------------------------------------------------------------------
(* The memory budget.  A heavy query holds two units, a light one one;     *)
(* what eviction frees stays resident until the pool's connections, which  *)
(* hold it, are recycled.  Costs per query are kept in tenths, rounded.    *)

Count == mem.heavy + mem.light
Private == 2 * mem.heavy + mem.light + mem.garbage
Used == Private + shared_buffers
Ceiling == (total_ram \div 5) * 4

throttle_evaluate(used, current) ==
    used > (IF current THEN Ceiling - (Ceiling \div 100) * 2 ELSE Ceiling)

\* The derivative of the private footprint, sampled on growth past the
\* high-water count; its smoothed value and that value's decaying peak.
count_cap_evaluate(m, private, count) ==
    LET hw == IF m.hw_private = NoReading THEN private ELSE m.hw_private
        sampled == count >= m.hw_count + COUNT_CAP_MIN_GROWTH /\ private > hw
        sample == (10 * (private - hw)) \div (count - m.hw_count)
        ewma == IF ~sampled THEN m.ewma ELSE IF m.ewma > 0 THEN (3 * sample + 7 * m.ewma) \div 10 ELSE sample
        peak == Max({(m.peak * 9994 + 5000) \div 10000, ewma})
        room == Max({Ceiling - shared_buffers, 0}) - private
    IN  [cap |-> IF peak <= 0 THEN usize_MAX
                 ELSE Max({COUNT_CAP_MIN_QUERIES, count + (10 * room) \div peak}),
         ewma |-> ewma, peak |-> peak, sampled |-> sampled]
cap_rate_limit(target, prev) ==
    IF prev \notin {NoReading, usize_MAX} /\ target > prev THEN Min({target, prev + prev \div 2}) ELSE target

probe_begin(m, count, private) ==
    [m EXCEPT !.hw_count = count, !.hw_private = private, !.ewma = 0, !.peak = 0,
              !.probe = count + COUNT_CAP_MIN_GROWTH]

memory_monitor ==
    LET count == limits.count
        decision == count_cap_evaluate(monitor, Private, count)
        advance == decision.sampled \/ monitor.hw_private = NoReading
        learnt == [monitor EXCEPT !.ewma = decision.ewma, !.peak = decision.peak,
                                  !.hw_private = IF advance THEN Private ELSE @, !.hw_count = IF advance THEN count ELSE @,
                                  !.probe = IF decision.sampled THEN 0 ELSE @]
        refreshed == limits.recycled >= pool_size
        next == IF refreshed THEN probe_begin(learnt, count, Private) ELSE learnt
        cap == IF next.probe > 0 THEN next.probe ELSE cap_rate_limit(decision.cap, monitor.last_cap)
    IN  /\ throttled' = throttle_evaluate(Used, throttled)
        /\ monitor' = [next EXCEPT !.last_cap = cap]
        /\ limits' = [limits EXCEPT !.cap = cap, !.recycled = IF refreshed THEN 0 ELSE @,
                                    !.recycle_wanted = cap # usize_MAX /\ 10 * count >= 8 * cap]
        /\ mem' = [mem EXCEPT !.burst = 0]
        /\ UNCHANGED gateVars

\* The dispatch registers a new query unless the memory is throttled.
query_register ==
    /\ ~throttled /\ mem.burst < RegisterBurst
    /\ mem' = [mem EXCEPT ![mem.workload] = @ + 1, !.burst = @ + 1]
    /\ UNCHANGED <<gateVars, monitor, throttled, limits>>
workload_lightens ==
    /\ mem.workload = "heavy"
    /\ mem' = [mem EXCEPT !.workload = "light"]
    /\ UNCHANGED <<gateVars, monitor, throttled, limits>>

\* The writer's tick publishes the count and then evicts, oldest first.
over_cap(count, cap) == Max({0, count - cap})
writer_tick ==
    LET n == Min({over_cap(Count, limits.cap), EVICTION_TICK_BUDGET})
        heavies == Min({n, mem.heavy})
    IN  /\ limits' = [limits EXCEPT !.count = Count]
        /\ mem' = [mem EXCEPT !.heavy = @ - heavies, !.light = @ - (n - heavies), !.garbage = @ + heavies + n]
        /\ UNCHANGED <<gateVars, monitor, throttled>>
\* The serve loop drops one idle connection, with its share of the garbage.
connection_recycle ==
    /\ limits.recycle_wanted /\ limits.recycled < pool_size
    /\ limits' = [limits EXCEPT !.recycled = @ + 1]
    /\ mem' = [mem EXCEPT !.garbage = @ - (@ + pool_size - 1) \div pool_size]
    /\ UNCHANGED <<gateVars, monitor, throttled>>


Rate(step) == limiter = "rate" /\ step /\ UNCHANGED limiter
Memory(step) == limiter = "memory" /\ step /\ UNCHANGED limiter
Next ==
    \/ Rate(try_take) \/ Rate(population_done) \/ Rate(writer_iterates) \/ Rate(loading_set)
    \/ Rate(gate_start) \/ Rate(window_take_max) \/ Rate(gate_decide) \/ Rate(time_passes)
    \/ Memory(query_register) \/ Memory(workload_lightens) \/ Memory(writer_tick)
    \/ Memory(connection_recycle) \/ Memory(memory_monitor)
Spec == Init /\ [][Next]_vars

\* Clients keep asking and time passes.
PacedSpec == Spec /\ WF_vars(Rate(try_take)) /\ WF_vars(Rate(time_passes))
\* Clients keep asking, the timers tick, the writer and the serve loop run.
MonitoredSpec ==
    /\ Spec /\ WF_vars(Memory(query_register)) /\ WF_vars(Memory(writer_tick))
    /\ WF_vars(Memory(connection_recycle)) /\ WF_vars(Memory(memory_monitor))

--------------------------------------------------------------------------
(* Properties of the limits on registration.                               *)

TypeOK ==
    /\ gate.rate \in {Infinite} \cup Nat /\ pacer.rate \in Nat /\ gate.loading \in 0 .. InflightBound
    /\ work.queue \in 0 .. work.inflight /\ work.inflight \in 0 .. InflightBound
    /\ bucket.tokens \in Nat /\ mem.garbage \in Nat /\ mem.heavy \in Nat /\ mem.light \in Nat
    /\ limits.recycled \in 0 .. pool_size /\ limits.cap \in Nat


(* Registration never stalls: whatever backlog the controller backs off    *)
(* for, a query that keeps being asked is admitted again (R_MIN).          *)
NeverStalls == (limiter = "rate") => []<>(bucket.last = "admitted" \/ work.inflight = InflightBound)

(* Once a query's cost was measured the cap rises by at most half a tick,  *)
(* or to the one growth chunk a probe of the cost permits: it is never     *)
(* lifted again (cap_rate_limit, memory_monitor).                          *)
CapRampsUp ==
    [][limits.cap # usize_MAX =>
          limits'.cap <= Max({limits.cap + limits.cap \div 2, limits.count + COUNT_CAP_MIN_GROWTH})]_vars


(* Memory over its ceiling is reclaimed: "past the budget the cap drops    *)
(* below `count`, forcing eviction until recycling reclaims memory"        *)
(* (count_cap_evaluate).                                                   *)
MemoryReclaimed == (Used > Ceiling) ~> (Used <= Ceiling)
=============================================================================
