--------------------------- MODULE MCPopulationMerge ---------------------------
EXTENDS PopulationMergeInv

CONSTANTS k1, k2, a, b, q1, q2

MatchA == [q \in Queries |-> IF q = q1 THEN {a} ELSE Vals]
NoSubsumers == [q \in Queries |-> {}]
WideSubsumers == [q \in Queries |-> IF q = q1 THEN {q2} ELSE {}]

(* The log behind the received position no longer influences anything. *)
LiveState ==
    <<SubSeq(wal, received + 1, Len(wal)), SubSeq(image, received + 1, Len(image)),
      intake, replay, table, entry, queries, pops, task>>
=============================================================================
