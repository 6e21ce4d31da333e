--------------------------- MODULE MCCacheRuntime ---------------------------
(* Requests of each kind, and the scenarios they appear in.                *)
EXTENDS CacheRuntime

CONSTANT Chosen
Query == [kind |-> "source", shape |-> "a", parse |-> TRUE, bind |-> TRUE, describe |-> "portal", simple |-> FALSE,
          rows |-> 1, waiters |-> {}, rfq |-> TRUE, block |-> FALSE]
MCRequest ==
    [first |-> [Query EXCEPT !.waiters = {"w"}],
     again |-> [Query EXCEPT !.parse = FALSE, !.describe = "none", !.rows = 0, !.rfq = FALSE],
     block |-> [Query EXCEPT !.shape = "b", !.describe = "statement", !.block = TRUE],
     mv |-> [Query EXCEPT !.kind = "mv", !.parse = FALSE, !.bind = FALSE, !.describe = "none", !.simple = TRUE],
     explain |-> [Query EXCEPT !.kind = "explain"]]
Faults0 == [f \in {"setup", "thread", "slot", "shutdown", "accept", "error", "noise", "stall", "write", "dial", "tick",
                   "recycle", "stick", "die",
                   "ptick", "throttle", "drop", "recheck", "expire", "heal", "deadlock", "popfail"} |-> 0]
Base == [name |-> "", boot |-> FALSE, requests |-> {}, workers |-> 0, works |-> {}, faults |-> Faults0]
Serve(name, requests, faults) ==
    [Base EXCEPT !.name = name, !.requests = requests,
                 !.faults = [f \in DOMAIN Faults0 |-> IF f \in faults THEN 1 ELSE 0]]
Boot(name, faults) == [Serve(name, {}, faults) EXCEPT !.boot = TRUE]
Populate(name, workers, works, ticks, faults) ==
    [Serve(name, {}, faults) EXCEPT !.workers = workers, !.works = works, !.faults["ptick"] = ticks]
All ==
    {Boot("restart", {"setup", "thread", "slot"}), Boot("shutdown", {"setup", "thread", "shutdown"}),
     Boot("unbound", {"thread", "accept"}),
     Serve("coalesced", {"first"}, {"error", "stick", "die"}),
     Serve("stalled", {"first"}, {"stall", "write", "die"}),
     Serve("noise", {"first"}, {"noise"}),
     Serve("block", {"block"}, {"stall", "error", "stick", "die"}),
     Serve("statements", {"again", "block"}, {"error"}),
     Serve("mv", {"mv", "explain"}, {"stall", "die"}),
     Serve("teardown", {"first", "again"}, {"shutdown"}),
     Serve("recycle", {"again", "explain"}, {"recycle", "dial", "stall"}),
     Populate("workers", 1, Works, 1, {"dial", "recheck", "throttle"}), Populate("failing", 2, Works, 0, {"popfail", "deadlock", "heal", "recheck"}),
     Populate("parking", 3, {"p"}, 2, {}), Populate("expiring", 2, {"p"}, 2, {"expire"}), Populate("closing", 1, {"p"}, 2, {"dial", "drop"}),
     [Serve("elastic", {"again"}, {}) EXCEPT !.faults["tick"] = 4]}
MCScenarios == {s \in All : s.name \in Chosen}
=============================================================================
