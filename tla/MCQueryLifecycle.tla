-------------------------- MODULE MCQueryLifecycle --------------------------
(* Small instances of QueryLifecycle: two connections, one or two queries.   *)
EXTENDS QueryLifecycle

CONSTANTS c1, c2, q1, q2

\* No query covers another (a query always covers itself); q1 covers q2.
SelfCovers == {<<q, q>> : q \in Queries}
WideCovers == SelfCovers \cup {<<q1, q2>>}

\* One query and everything that can happen to it.
Clock == [pinned |-> {}, threshold |-> 1, fifo |-> FALSE, asked |-> {q1}, needs |-> {2}, covers |-> SelfCovers,
          faults |-> {"throttle", "expire", "invalidate", "evict", "truncate", "bump", "gc",
                      "unresolvable", "stamping", "population"}, gens |-> 4]
\* A pinned query covering another, limits that are bumped, FIFO eviction.
WithPinned == [pinned |-> {q1}, threshold |-> 1, fifo |-> TRUE, asked |-> {q1, q2}, needs |-> {1, 2},
               covers |-> WideCovers, faults |-> {"throttle", "expire", "invalidate", "bump", "gc", "evict"},
               gens |-> 4]
\* Two queries admitted at their second request.
Repeated == [pinned |-> {}, threshold |-> 2, fifo |-> FALSE, asked |-> {q1, q2}, needs |-> {2},
             covers |-> WideCovers,
             faults |-> {"throttle", "invalidate", "evict", "bump", "stamping", "population"}, gens |-> 3]
MCConfigs == {Clock, WithPinned, Repeated}
=============================================================================
