------------------------- MODULE MaterialisedResult -------------------------
(***************************************************************************)
(* What the materialised-result layer promises its readers, without tables,*)
(* builds or queues: a stored result is offered only while it is the       *)
(* query's result, and a change to the result withdraws it in the same     *)
(* step.                                                                   *)
(***************************************************************************)
CONSTANTS Queries, Results, NotOffered

VARIABLES current,    \* query -> its result over the cache tables
          offered     \* query -> the stored result a hit may read, or NotOffered
vars == <<current, offered>>

Withdraw(q) == current'[q] = current[q] /\ offered'[q] = NotOffered
Offer(q) == current'[q] = current[q] /\ offered'[q] = current[q]
Keep(q) == current'[q] = current[q] /\ offered'[q] = offered[q]
Change(q) == current'[q] # current[q] /\ offered'[q] = NotOffered

Init == current \in [Queries -> Results] /\ offered = [q \in Queries |-> NotOffered]
Next ==
    /\ current' \in [Queries -> Results]
    /\ offered' \in [Queries -> Results \cup {NotOffered}]
    /\ \A q \in Queries : Withdraw(q) \/ Offer(q) \/ Keep(q) \/ Change(q)
Spec == Init /\ [][Next]_vars
=============================================================================
