----------------------------- MODULE MCResultMemo -----------------------------
EXTENDS ResultMemo, TLC

CONSTANTS k1, k2, q1, r1, r2, w1, w2, c1

\* One query in two shapes, over both relations.
SameFp == (k1 :> q1 @@ k2 :> q1)
ReadsAll == [q \in Queries |-> Relations]
SizeOne == [k \in Keys |-> 1]

\* Two workers, two shapes, failed populations: what is counted.  One worker and
\* one shape, frames, unrepaired updates, eviction: what is served under either policy.
Shared == [keys |-> {k1, k2}, rels |-> {}, busy |-> 2, faults |-> {"cleanup"}, fifo |-> FALSE, commits |-> 0, evicts |-> 2]
Served == [keys |-> {k1}, rels |-> Relations, busy |-> 1, faults |-> {"toast"}, fifo |-> TRUE, commits |-> 2, evicts |-> 1]
Clock == [Served EXCEPT !.faults = {}, !.fifo = FALSE, !.commits = 1]
MCConfigs == {Shared, Served, Clock}

\* What the next steps depend on: a stamp only through whether it still matches
\* (versions only grow), a version only through its parity, and nothing left over
\* by a capture, an entry or a removal that is gone.
Matches(w) ==
    /\ mstamp[w] = memo_slot[FpOf[key[w]]]
    /\ \A r \in Reads[FpOf[key[w]]] : rstamp[w][r] = relation_slot[r]

AccountState ==
    <<view, stored, {k \in stored : slots_valid(k)},
      [r \in Relations |-> relation_slot[r] % 2], [q \in Queries |-> memo_slot[q] % 2],
      accounts, gc_pending, frame, evicts, pc,
      [w \in Workers |-> IF pc[w] = "idle" THEN "idle"
                         ELSE <<key[w], pc[w] \notin {"queued", "eligible"} /\ Matches(w),
                                pc[w] = "stored" /\ replaced[w]>>],
      rpc, gc_list, [x \in Removers |-> IF rpc[x] = "idle" THEN "idle" ELSE rkey[x]]>>

LiveState ==
    <<AccountState, whole, answer, [k \in stored |-> <<core[k], calm[k]>>],
      [w \in Workers |-> IF pc[w] = "idle" THEN "idle"
                         ELSE <<window[w], IF pc[w] \in {"queued", "eligible", "begun"} THEN 0
                                                ELSE bytes[w]>>]>>

MemoState == <<config, IF config = Shared THEN AccountState ELSE LiveState>>

Symmetric == Permutations(Workers)
=============================================================================
