--------------------------- MODULE MCCdcPipeline ---------------------------
(* Two relations.  "one" and "other" read one each, "pair" reads both and   *)
(* is maintained in place, "join" reads both and changes invalidate it.    *)
EXTENDS CdcPipeline

MCReads == [one |-> {"r"}, other |-> {"s"}, pair |-> {"r", "s"}, join |-> {"r", "s"}]
None == [write |-> 0, truncate |-> 0, alter |-> 0, break |-> 0, register |-> 1, refuse |-> 0, rebuild |-> 0,
         keepalive |-> 0, ack |-> 0]
Base == [name |-> "", queries |-> {"one"}, relations |-> {"r"}, txns |-> {1, 2}, queue |-> 2, piecewise |-> FALSE, overlap |-> FALSE, warm |-> FALSE,
         evicts |-> FALSE,
         tick |-> FALSE, chunks |-> FALSE, deadlocks |-> FALSE, slot_loss |-> FALSE, fails |-> FALSE,
         bounds |-> [None EXCEPT !.write = 2]]
Rels == {"r", "s"}
All ==
    {[Base EXCEPT !.name = "pair", !.relations = Rels, !.queries = {"pair"}, !.bounds.keepalive = 1],
     [Base EXCEPT !.name = "join", !.relations = Rels, !.queries = {"join"}, !.bounds.register = 2],
     [Base EXCEPT !.name = "break", !.relations = Rels, !.queries = {"pair"}, !.piecewise = TRUE, !.queue = 1,
                  !.bounds.break = 1],
     [Base EXCEPT !.name = "acks", !.piecewise = TRUE, !.queue = 1, !.bounds.break = 1, !.bounds.ack = 1],
     [Base EXCEPT !.name = "churn", !.evicts = TRUE, !.bounds.register = 2],
     [Base EXCEPT !.name = "rebuild", !.fails = TRUE, !.bounds.register = 2, !.bounds.rebuild = 1],
     [Base EXCEPT !.name = "slot", !.slot_loss = TRUE, !.bounds.write = 1, !.bounds.break = 2, !.bounds.register = 2,
                  !.bounds.rebuild = 1, !.bounds.ack = 1],
     [Base EXCEPT !.name = "layout", !.warm = TRUE, !.txns = {1}, !.queue = 1, !.relations = Rels, !.queries = {"pair"},
                  !.bounds.write = 4, !.bounds.alter = 1],
     [Base EXCEPT !.name = "truncate", !.deadlocks = TRUE, !.bounds.write = 1, !.bounds.truncate = 1, !.bounds.register = 2],
     [Base EXCEPT !.name = "locks", !.txns = {1}, !.chunks = TRUE, !.queue = 1, !.queries = {"one", "other"},
                  !.bounds.write = 1, !.bounds.truncate = 1, !.bounds.register = 2],
     [Base EXCEPT !.name = "refuse", !.evicts = TRUE, !.bounds.write = 1, !.bounds.register = 2, !.bounds.refuse = 1, !.bounds.rebuild = 1],
     [Base EXCEPT !.name = "tick", !.tick = TRUE, !.queries = {"join"}, !.bounds.register = 2],
     [Base EXCEPT !.name = "overlap", !.overlap = TRUE, !.bounds.write = 1]}
CONSTANT Chosen
MCScenarios == {s \in All : s.name \in Chosen}
=============================================================================
