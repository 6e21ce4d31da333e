--------------------------- MODULE PoolController ---------------------------
(***************************************************************************)
(* The probe-and-verify controller shared by the serve pool and the        *)
(* population pool (runtime/pool_controller.rs): it grows the desired size *)
(* by one while the queue wait is breached, keeps a step only when the     *)
(* measured throughput rose with it, holds after a refuted step, and       *)
(* shrinks on a long low utilisation.  A tick's sample is reduced to what  *)
(* the comparisons of the code find:                                       *)
(*   observed   a task or a wait was counted      backlog   queue not empty*)
(*   breached   mean wait above the target        underused busy below rho *)
(*   enough     enough completions to verify      confirmed throughput rose*)
(***************************************************************************)
EXTENDS Integers

CONSTANTS HEALTHY_RESET_TICKS, probe_hold_ticks, probe_hold_max_ticks, backstop_ticks, spawn_wait_ticks, down_ticks

Sample == [observed : BOOLEAN, backlog : BOOLEAN, breached : BOOLEAN,
           underused : BOOLEAN, enough : BOOLEAN, confirmed : BOOLEAN]
\* What the counters can show together: no wait without an observation, a
\* throughput only of enough completions.
Samples == {s \in Sample : /\ s.breached => s.observed
                           /\ s.underused => ~s.breached
                           /\ s.enough => s.breached
                           /\ s.confirmed => s.enough
                           /\ s.observed => ~s.backlog}

Idle == [state |-> "Idle", ticks |-> 0, target |-> 0]
AwaitVerify(target, waited) == [state |-> "AwaitVerify", ticks |-> waited, target |-> target]
Hold(left) == [state |-> "Hold", ticks |-> left, target |-> 0]
NewController(min, max) ==
    [min |-> min, max |-> max, probe |-> Idle, backstop |-> 0, shrink |-> 0, refutes |-> 0, healthy |-> 0]

least(a, b) == IF a < b THEN a ELSE b
clamped(c, n) == IF n < c.min THEN c.min ELSE least(n, c.max)
Step(c, n) == [control |-> c, desired |-> clamped(c, n)]

saturated_without_signal(s, live) == ~s.observed /\ s.backlog /\ live > 0

\* The streak is only compared with its threshold, so it is counted up to it.
healthy_tick(c, s, desired, live) ==
    LET streak == least(c.healthy + 1, HEALTHY_RESET_TICKS)
        reset == IF streak >= HEALTHY_RESET_TICKS
                 THEN [c EXCEPT !.healthy = streak, !.probe = Idle, !.backstop = 0, !.refutes = 0]
                 ELSE [c EXCEPT !.healthy = streak]
    IN  IF ~(desired > c.min /\ s.underused /\ live > 0) THEN Step([reset EXCEPT !.shrink = 0], desired)
        ELSE IF c.shrink + 1 < down_ticks THEN Step([reset EXCEPT !.shrink = @ + 1], desired)
        ELSE Step([reset EXCEPT !.shrink = 0], desired - 1)

hold_tick(c, desired) ==
    Step([c EXCEPT !.probe = IF @.ticks > 1 THEN Hold(@.ticks - 1) ELSE Idle], desired)
probe_step(c, desired) ==
    IF desired >= c.max THEN Step([c EXCEPT !.probe = Idle], c.max)
    ELSE Step([c EXCEPT !.probe = AwaitVerify(desired + 1, 0)], desired + 1)
spawn_wait_tick(c, desired) ==
    Step([c EXCEPT !.probe = IF @.ticks >= spawn_wait_ticks THEN Idle
                             ELSE AwaitVerify(@.target, @.ticks + 1)], desired)
backstop_tick(c, desired) ==
    IF c.backstop + 1 < backstop_ticks THEN Step([c EXCEPT !.backstop = @ + 1], desired)
    ELSE probe_step([c EXCEPT !.backstop = 0], desired)
refute_hold(c) == least(probe_hold_ticks * 2 ^ least(c.refutes, 6), probe_hold_max_ticks)
\* Past the point where the hold is at its maximum the count changes nothing.
RefuteCap == CHOOSE n \in 0 .. 6 :
    n = 6 \/ (probe_hold_ticks * 2 ^ n >= probe_hold_max_ticks /\ \A m \in 0 .. n - 1 : probe_hold_ticks * 2 ^ m < probe_hold_max_ticks)
verify_tick(c, s, desired, live) ==
    IF live < c.probe.target THEN spawn_wait_tick(c, desired)
    ELSE IF ~s.enough THEN backstop_tick(c, desired)
    ELSE IF s.confirmed THEN probe_step([c EXCEPT !.backstop = 0, !.refutes = 0], desired)
    ELSE Step([c EXCEPT !.backstop = 0, !.probe = Hold(refute_hold(c)), !.refutes = least(@ + 1, RefuteCap)],
              IF desired > 0 THEN desired - 1 ELSE 0)

breached_tick(c, s, desired, live) ==
    LET reset == [c EXCEPT !.shrink = 0, !.healthy = 0]
    IN  CASE c.probe.state = "Hold" -> hold_tick(reset, desired)
          [] c.probe.state = "Idle" ->
                IF live >= desired THEN probe_step(reset, desired) ELSE Step(reset, desired)
          [] c.probe.state = "AwaitVerify" -> verify_tick(reset, s, desired, live)

controller_step(c, s, desired, live) ==
    IF saturated_without_signal(s, live) THEN Step(c, desired)
    ELSE IF ~s.breached THEN healthy_tick(c, s, desired, live)
    ELSE breached_tick(c, s, desired, live)
=============================================================================
