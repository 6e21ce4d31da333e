------------------------------ MODULE WriteLog ------------------------------
(***************************************************************************)
(* The per-connection log of forwarded writes (proxy/connection/write_log) *)
(* as operators on the log's value.                                        *)
(*                                                                         *)
(* A relation reference is the pair of an optional schema and a bare name, *)
(* as the statement wrote it.  The rows a row-enumerable write touches     *)
(* (its inserted rows, its WHERE predicate, its post-update image) are one *)
(* set of rows, and so are the rows a read's column ranges admit: what the *)
(* per-column disjointness tests decide is whether the two sets meet.      *)
(***************************************************************************)
EXTENDS Integers, Sequences, FiniteSetsExt

CONSTANTS
    Relations,           \* relation references [schema, name] the statements use
    WAITING_TIERS_MAX,   \* stamped tiers a table holds before folding
    PREDICATE_CAP        \* row-enumerable writes a tier holds before it is opaque

\* No schema, no sequence number, no bound.
NoSchema == ""
None == -1

EmptyAggregate == [opaque |-> FALSE, rows |-> {}, predicates |-> 0]

degrade_opaque(agg) == [EmptyAggregate EXCEPT !.opaque = TRUE]

\* An aggregate over its cap degrades.
Capped(agg) == IF agg.predicates > PREDICATE_CAP THEN degrade_opaque(agg) ELSE agg

\* A row-enumerable write is folded into a tier's aggregate.
fold(agg, rows) ==
    IF agg.opaque THEN agg
    ELSE Capped([agg EXCEPT !.rows = @ \union rows, !.predicates = @ + 1])

merge(agg, other) ==
    IF agg.opaque \/ other.opaque THEN degrade_opaque(agg)
    ELSE Capped([agg EXCEPT !.rows = @ \union other.rows, !.predicates = @ + other.predicates])

EmptyTiers == [waiting |-> <<>>, seq |-> None, active |-> EmptyAggregate]

EmptyConnectionTiers == [waiting |-> None, active |-> None, unstampable |-> FALSE]

EmptyLog ==
    [tables |-> [r \in Relations |-> EmptyTiers], connection |-> EmptyConnectionTiers, next_seq |-> 0]

is_empty(log) == log.tables = EmptyLog.tables /\ log.connection = EmptyConnectionTiers

\* A write class is [scope, relation, rows]: "Rows" of a relation, a whole
\* "Table", the "Connection", or "ConnectionUnstampable".
record(log, class) ==
    LET seq == log.next_seq
        next == [log EXCEPT !.next_seq = seq + 1]
        Active(agg) ==
            [next EXCEPT !.tables[class.relation].seq = seq, !.tables[class.relation].active = agg]
        agg0 == log.tables[class.relation].active
    IN  IF log.connection.unstampable THEN next
        ELSE CASE class.scope = "Rows" -> Active(fold(agg0, class.rows))
               [] class.scope = "Table" -> Active(degrade_opaque(agg0))
               [] class.scope = "Connection" -> [next EXCEPT !.connection.active = seq]
               [] class.scope = "ConnectionUnstampable" ->
                    [next EXCEPT !.connection = [EmptyConnectionTiers EXCEPT !.unstampable = TRUE],
                                 !.tables = EmptyLog.tables]

\* The newest unstamped write's sequence number, or None.
stamp_seq(log) == Max({log.tables[r].seq : r \in Relations} \union {log.connection.active, None})

\* Stampable, without the guard against a write that raced the probe.
stampable_any(seq, limit) == seq # None

Stampable(seq, limit) == seq # None /\ seq <= limit

tiers_stamp(tiers, limit, lsn) ==
    LET n == Len(tiers.waiting)
        rest == [tiers EXCEPT !.seq = None, !.active = EmptyAggregate]
    IN  IF ~Stampable(tiers.seq, limit) THEN tiers
        ELSE IF n >= WAITING_TIERS_MAX
             THEN [rest EXCEPT !.waiting[n] = [bound |-> Max({@.bound, lsn}),
                                               aggregate |-> merge(@.aggregate, tiers.active)]]
             ELSE [rest EXCEPT !.waiting = Append(@, [bound |-> lsn, aggregate |-> tiers.active])]

connection_stamp(conn, limit, lsn) ==
    IF conn.unstampable \/ ~Stampable(conn.active, limit) THEN conn
    ELSE [conn EXCEPT !.active = None, !.waiting = Max({@, lsn})]

stamp(log, limit, lsn) ==
    [log EXCEPT !.tables = [r \in Relations |-> tiers_stamp(log.tables[r], limit, lsn)],
                !.connection = connection_stamp(@, limit, lsn)]

purge(log, watermark) ==
    LET Pending(tier) == tier.bound > watermark
    IN  [log EXCEPT !.tables = [r \in Relations |->
                                  [@[r] EXCEPT !.waiting = SelectSeq(@, Pending)]],
                    !.connection.waiting = IF @ <= watermark THEN None ELSE @]

Aggregates(tiers) ==
    {tiers.waiting[i].aggregate : i \in DOMAIN tiers.waiting}
        \union (IF tiers.seq = None THEN {} ELSE {tiers.active})

schema_matches(relation, table) ==
    relation.schema = table.schema \/ relation.schema = NoSchema \/ table.schema = NoSchema

SameName(relation, table) == relation.name = table.name /\ schema_matches(relation, table)

\* A read is [relations, rows]; `ranges` tells whether its column ranges could
\* be derived.
aggregate_intersects(agg, read, ranges) ==
    agg.opaque \/ ~ranges \/ agg.rows \intersect read.rows # {}

table_intersects(log, table, read, ranges) ==
    \E r \in Relations :
        /\ SameName(r, table)
        /\ \E agg \in Aggregates(log.tables[r]) : aggregate_intersects(agg, read, ranges)

\* The gate serves the read.
decide(log, read, ranges) ==
    /\ log.connection = EmptyConnectionTiers
    /\ \A table \in read.relations : ~table_intersects(log, table, read, ranges)

table_has_row_predicate(log, table) ==
    \E r \in Relations : SameName(r, table) /\ \E agg \in Aggregates(log.tables[r]) : ~agg.opaque

\* Whether read_column_ranges may find ranges: one table, which has a pending
\* row-enumerable write.  (The query must also be registered and reducible.)
read_column_ranges(log, read) ==
    \E table \in read.relations : read.relations = {table} /\ table_has_row_predicate(log, table)
=============================================================================
