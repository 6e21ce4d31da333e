---------------------------- MODULE CdcPipeline ----------------------------
(***************************************************************************)
(* The change stream from the origin's WAL to the cache tables: the CDC    *)
(* processor and its driver (cache/cdc.rs, runtime/cdc_driver.rs), the     *)
(* publication that follows the cached queries (writer/publication.rs),    *)
(* the cache tables (writer/table.rs) and the writer's CDC intake and      *)
(* flush (writer/cdc/dispatch.rs, writer/cdc/frame.rs), with connection    *)
(* breaks, lost status updates and rebuilds of the whole subsystem.        *)
(*                                                                         *)
(* Each relation has one row.  A row's value is the WAL position of the    *)
(* change that wrote it, NoRow when there is none, Original before any     *)
(* change.  An LSN is a position in wal; a transaction's changes and its   *)
(* commit take one position each.  All state of the writer thread is the   *)
(* record w; its handlers are operators from w to w.                       *)
(***************************************************************************)
EXTENDS Integers, Sequences, FiniteSets, SequencesExt, FiniteSetsExt

CONSTANTS Relations, Queries,
          Reads,                \* query -> the relations it reads
          Sensitive,            \* queries a change to their relations invalidates; others are maintained in place
          Transactions,
          Scenarios,            \* what a behaviour may go through, see MCCdcPipeline
          FRAME_ROWS_CAPACITY, BATCH_FRAMES_MAX
ASSUME CdcAssumption ==
    /\ Reads \in [Queries -> SUBSET Relations] /\ Sensitive \subseteq Queries
    /\ FRAME_ROWS_CAPACITY \in Nat \ {0} /\ BATCH_FRAMES_MAX \in Nat \ {0}

VARIABLES
    scenario,
    left,        \* how often each bounded step may still happen
    wal,         \* the origin's log: [k, rel, txn, pub, ver]
    schema,      \* relation -> version of its column layout at the origin
    confirmed,   \* the slot's confirmed_flush position; NoSlot when the slot is gone
    stream,      \* the walsender: [on, at, out, known, reply]
    proc,        \* the CdcProcessor: [received, decoded, flushed, sent]
    driver,      \* "run", "reconnect" or "gone"
    cdc_rx,      \* commands on their way to the writer
    w            \* the writer
vars == <<scenario, left, wal, schema, confirmed, stream, proc, driver, cdc_rx, w>>
originVars == <<scenario, wal, schema>>
cdcVars == <<confirmed, stream, proc, driver>>

NoRow == 0
Original == -1
NoWrite == -2
NoSlot == -1
NoSnapshot == -1

--------------------------------------------------------------------------
(* The origin.                                                             *)

Now == Len(wal)
Committed(t, n) == \E i \in 1..n : wal[i].k = "commit" /\ wal[i].txn = t
Changes(t) == {i \in DOMAIN wal : wal[i].k # "commit" /\ wal[i].txn = t}
Open == {t \in Transactions : Changes(t) # {} /\ ~Committed(t, Now)}
Value(r, n) ==
    LET past == {i \in DOMAIN wal : wal[i].k # "commit" /\ wal[i].rel = r /\ Committed(wal[i].txn, n)}
    IN  IF past = {} THEN Original
        ELSE IF wal[Max(past)].k = "truncate" THEN NoRow ELSE Max(past)

Record(k, r, t) == [k |-> k, rel |-> r, txn |-> t, pub |-> r \in w.published, ver |-> IF k = "commit" THEN 0 ELSE schema[r]]
Unlocked(r, t) == \A u \in Open \ {t} : \A i \in Changes(u) : wal[i].rel # r

OriginChange(k, r, t) ==
    /\ left[k] > 0 /\ r \in scenario.relations /\ t \in scenario.txns /\ ~Committed(t, Now) /\ Unlocked(r, t)
    /\ \A u \in Transactions : u < t => Changes(u) # {}
    /\ scenario.warm /\ Now = 0 => \A q \in scenario.queries : w.queries[q].state = "Ready"
    /\ left' = [left EXCEPT ![k] = @ - 1]
    /\ wal' = Append(wal, Record(k, r, t))
    /\ UNCHANGED <<scenario, schema, cdcVars, cdc_rx, w>>
OriginCommit(t) ==
    /\ t \in Open
    /\ wal' = Append(wal, Record("commit", "", t))
    /\ UNCHANGED <<scenario, left, schema, cdcVars, cdc_rx, w>>
OriginAlter(r) ==
    /\ left.alter > 0 /\ Cardinality({t \in Open : \E i \in Changes(t) : wal[i].rel = r}) <= 1
    /\ left' = [left EXCEPT !.alter = @ - 1]
    /\ schema' = [schema EXCEPT ![r] = @ + 1]
    /\ UNCHANGED <<scenario, wal, cdcVars, cdc_rx, w>>

--------------------------------------------------------------------------
(* The walsender sends each transaction after its commit, its published    *)
(* changes only, and describes a relation before its first change of the   *)
(* session and whenever its layout changed.                                *)

Message(m, r, lsn) == [m |-> m, rel |-> r, ver |-> 0, val |-> NoRow, lsn |-> lsn]
ChangeMessages(i, known) ==
    (IF known[wal[i].rel] = wal[i].ver THEN <<>> ELSE <<[Message("Relation", wal[i].rel, i - 1) EXCEPT !.ver = wal[i].ver]>>)
      \o <<[Message(wal[i].k, wal[i].rel, i - 1) EXCEPT !.val = IF wal[i].k = "truncate" THEN NoRow ELSE i, !.ver = wal[i].ver]>>
Published(c) == {i \in Changes(wal[c].txn) : wal[i].pub}
ToSend == {c \in (stream.at + 1)..Now : wal[c].k = "commit" /\ Published(c) # {}}
TransactionMessages(c) ==
    LET changes == SetToSortSeq(Published(c), <)
        send(s, i) == [out |-> s.out \o ChangeMessages(i, s.known), known |-> [s.known EXCEPT ![wal[i].rel] = wal[i].ver]]
        sent == FoldLeft(send, [out |-> <<Message("Begin", "", changes[1] - 1)>>, known |-> stream.known], changes)
    IN  [sent EXCEPT !.out = Append(@, Message("Commit", "", c))]

Decode ==
    /\ stream.on /\ stream.out = <<>> /\ stream.at < Now
    /\ stream' = IF ToSend = {} THEN [stream EXCEPT !.at = Now]
                 ELSE LET c == Min(ToSend) sent == TransactionMessages(c)
                      IN  [stream EXCEPT !.at = c - 1, !.out = sent.out, !.known = sent.known]
    /\ UNCHANGED <<originVars, left, confirmed, proc, driver, cdc_rx, w>>
Connected(position) ==
    [on |-> TRUE, at |-> position, out |-> <<>>, known |-> [r \in Relations |-> 0], reply |-> FALSE]
Broken == [Connected(0) EXCEPT !.on = FALSE]

--------------------------------------------------------------------------
(* The CDC processor.                                                      *)

NewProcessor == [received |-> 0, decoded |-> 0, flushed |-> 0, sent |-> FALSE]
Command(c, r) == [c |-> c, rel |-> r, ver |-> 0, val |-> NoRow, lsn |-> 0]
active_relations(x) == {r \in Relations : x.refcounts[r] > 0}

update_lsn(p, m) == [p EXCEPT !.received = m.lsn]
mark_lsn_decoded(p) == [p EXCEPT !.decoded = Max({@, p.received})]

(* A change of a relation no query reads is dropped.  A TRUNCATE keeps its *)
(* place in the stream without the relation.                               *)
process_replication_message(m) ==
    CASE m.m = "Begin" -> <<Command("Begin", "")>>
      [] m.m = "Commit" -> <<[Command("CommitMark", "") EXCEPT !.lsn = m.lsn]>>
      [] m.m = "Relation" -> <<[Command("TableRegister", m.rel) EXCEPT !.ver = m.ver]>>
      [] m.m = "write" ->
            IF m.rel \in active_relations(w) THEN <<[Command("Update", m.rel) EXCEPT !.val = m.val, !.ver = m.ver]>> ELSE <<>>
      [] m.m = "truncate" ->
            <<Command("Truncate", IF m.rel \in active_relations(w) THEN m.rel ELSE "")>>

(* A status update acknowledges what is decoded.  A send that succeeds     *)
(* locally may still be lost with the connection.                          *)
send_standby_status_update(p, arrives) ==
    /\ proc' = [p EXCEPT !.flushed = p.decoded, !.sent = TRUE]
    /\ confirmed' = IF arrives /\ confirmed # NoSlot THEN Max({confirmed, p.decoded}) ELSE confirmed
status_update_throttled(p, due, arrives) ==
    IF due \/ ~p.sent THEN send_standby_status_update(p, arrives)
    ELSE proc' = p /\ UNCHANGED confirmed

Running == driver = "run" /\ stream.on /\ ~w.stopped
(* Messages are taken one by one; unless the scenario asks for it, nothing *)
(* happens between those of one transaction.                               *)
Receive(due, arrives) ==
    /\ Running /\ stream.out # <<>> /\ Len(cdc_rx) < scenario.queue /\ (due => left.ack > 0)
    /\ LET taken == SubSeq(stream.out, 1, IF scenario.piecewise THEN 1 ELSE Len(stream.out))
           p == FoldLeft(LAMBDA x, m : mark_lsn_decoded(update_lsn(x, m)), proc, taken)
       IN  /\ cdc_rx' = cdc_rx \o FlattenSeq([i \in DOMAIN taken |-> process_replication_message(taken[i])])
           /\ status_update_throttled(p, due, arrives)
           /\ stream' = [stream EXCEPT !.out = SubSeq(@, Len(taken) + 1, Len(@)),
                                       !.at = IF Last(taken).m = "Commit" THEN Last(taken).lsn ELSE @]
    /\ left' = IF due THEN [left EXCEPT !.ack = @ - 1] ELSE left
    /\ UNCHANGED <<originVars, driver, w>>

(* Keepalives carry the position up to which the walsender has sent, and   *)
(* may come between the messages of a transaction.                         *)
handle_keep_alive(asks, arrives) ==
    LET fresh == stream.at > proc.decoded
        p == IF fresh THEN [proc EXCEPT !.received = stream.at, !.decoded = stream.at] ELSE proc
    IN  /\ cdc_rx' = IF fresh THEN Append(cdc_rx, [Command("KeepAliveMark", "") EXCEPT !.lsn = stream.at]) ELSE cdc_rx
        /\ status_update_throttled(p, asks, arrives)
KeepAlive(asks, arrives) ==
    /\ Running /\ Len(cdc_rx) < scenario.queue /\ (asks => left.ack > 0)
    /\ stream.reply \/ (left.keepalive > 0 /\ stream.at > proc.decoded)
    /\ handle_keep_alive(asks, arrives)
    /\ stream' = [stream EXCEPT !.reply = FALSE]
    /\ left' = [left EXCEPT !.keepalive = IF stream.reply THEN @ ELSE @ - 1, !.ack = IF asks THEN @ - 1 ELSE @]
    /\ UNCHANGED <<originVars, driver, w>>

(* The timer's first tick is immediate.                                    *)
KeepAliveTimer(arrives) ==
    /\ Running /\ left.ack > 0
    /\ left' = [left EXCEPT !.ack = @ - 1]
    /\ send_standby_status_update(proc, arrives)
    /\ UNCHANGED <<originVars, stream, driver, cdc_rx, w>>
WatermarkNudge(arrives) ==
    /\ Running /\ w.nudge
    /\ send_standby_status_update(proc, arrives)
    /\ w' = [w EXCEPT !.nudge = FALSE]
    /\ stream' = [stream EXCEPT !.reply = arrives]
    /\ UNCHANGED <<originVars, left, driver, cdc_rx>>

--------------------------------------------------------------------------
(* The driver reconnects with backoff after a break, unless the slot has   *)
(* moved past what the processor acknowledged.                             *)

Break(slot) ==
    /\ Running /\ left.break > 0 /\ slot \in {"kept", "lost"} /\ (slot = "lost" => scenario.slot_loss)
    /\ left' = [left EXCEPT !.break = @ - 1]
    /\ confirmed' = IF slot = "lost" THEN NoSlot ELSE confirmed
    /\ stream' = Broken /\ driver' = "reconnect"
    /\ UNCHANGED <<originVars, proc, cdc_rx, w>>

slot_position_check(saved) == IF confirmed = NoSlot \/ confirmed > saved THEN "Fatal" ELSE "Safe"
cdc_reconnect ==
    /\ driver = "reconnect" /\ ~w.stopped
    /\ IF slot_position_check(proc.flushed) = "Safe"
       THEN stream' = Connected(confirmed) /\ proc' = NewProcessor /\ driver' = "run"
       ELSE driver' = "gone" /\ UNCHANGED <<stream, proc>>
    /\ UNCHANGED <<originVars, left, confirmed, cdc_rx, w>>

--------------------------------------------------------------------------
(* The writer: cached queries, the relations they keep active, and the     *)
(* publication that follows them.                                          *)

Absent == [state |-> "absent", snapshot |-> NoSnapshot]
Loading == [state |-> "Loading", snapshot |-> NoSnapshot]
NoTable == [ver |-> 0, at |-> 0]
Cached(x, q) == x.queries[q].state # "absent"
Over(x, r) == {q \in Queries : Cached(x, q) /\ r \in Reads[q]}

(* The writer of a new generation, over an emptied cache database and an   *)
(* emptied publication.                                                    *)
WriterNew ==
    [queries |-> [q \in Queries |-> Absent], refcounts |-> [r \in Relations |-> 0], dirty |-> FALSE,
     oids |-> {}, published |-> {}, tables |-> [r \in Relations |-> NoTable], rows |-> [r \in Relations |-> NoRow],
     open |-> FALSE, frame |-> "Idle", events |-> <<>>, writes |-> [r \in Relations |-> NoWrite],
     touched |-> {}, buffered |-> {}, locked |-> {}, flagged |-> {}, count |-> 0, frames |-> 0, last |-> 0,
     received |-> 0, applied |-> 0, settled |-> 0, nudge |-> FALSE, stopped |-> FALSE, blocked |-> "no",
     position |-> 0, late |-> {}, torn |-> {}, misaligned |-> FALSE]

active_relations_acquire(x, rels) ==
    [x EXCEPT !.refcounts = [r \in Relations |-> IF r \in rels THEN @[r] + 1 ELSE @[r]],
              !.dirty = @ \/ \E r \in rels : x.refcounts[r] = 0]
active_relations_release(x, rels) ==
    [x EXCEPT !.refcounts = [r \in Relations |-> IF r \in rels THEN @[r] - 1 ELSE @[r]],
              !.dirty = @ \/ \E r \in rels : x.refcounts[r] = 1]

TablesSet(x, rels, table) ==
    [x EXCEPT !.tables = [r \in Relations |-> IF r \in rels THEN table[r] ELSE @[r]],
              !.rows = [r \in Relations |-> IF r \in rels THEN NoRow ELSE @[r]],
              !.late = @ \ rels, !.torn = @ \ rels]
query_table_metadata(r) == [ver |-> schema[r], at |-> Now]
cache_table_create(x, rels) == TablesSet(x, rels, [r \in Relations |-> query_table_metadata(r)])
(* DROP TABLE on another connection waits for the frame's own locks, which *)
(* only this thread could release.                                         *)
cache_tables_drop(x, rels, by) ==
    [TablesSet(x, rels, [r \in Relations |-> NoTable]) EXCEPT !.blocked = IF rels \cap x.locked # {} THEN by ELSE @]

Result(ok, x) == [ok |-> ok, w |-> x]
publication_update(x, refused, by) ==
    LET new == active_relations(x)
    IN  IF new = x.oids THEN Result(TRUE, [x EXCEPT !.dirty = FALSE])
        ELSE IF refused THEN Result(FALSE, x)
        ELSE Result(TRUE, [cache_tables_drop([x EXCEPT !.published = new, !.oids = new], x.oids \ new, by)
                             EXCEPT !.dirty = FALSE])
frame_holds_locks(x) == x.frame = "TxnOpen"

publication_dirty_drain(x, refused) ==
    IF ~x.dirty \/ frame_holds_locks(x) THEN Result(TRUE, x)
    ELSE publication_update([x EXCEPT !.dirty = FALSE], refused, "drain")

cached_query_remove(x, q) == active_relations_release([x EXCEPT !.queries[q] = Absent], Reads[q])
cache_query_evict(x, q) == IF Cached(x, q) THEN cached_query_remove(x, q) ELSE x
cache_table_invalidate(x, r) == FoldSet(LAMBDA q, y : cache_query_evict(y, q), x, Over(x, r))

(* A slip: the population starts before the relations are published.       *)
query_admit_early(x, q, refused) == Result(TRUE, active_relations_acquire([x EXCEPT !.queries[q] = Loading], Reads[q]))
(* A relation that becomes active is published before the population may   *)
(* read.                                                                   *)
query_admit(x, q, refused) ==
    LET y == active_relations_acquire([x EXCEPT !.queries[q] = Loading], Reads[q])
    IN  IF Reads[q] \subseteq active_relations(x) THEN Result(TRUE, y) ELSE publication_update(y, refused, "register")
query_register(x, q, refused) ==
    LET ensured == cache_table_create(x, {r \in Reads[q] : x.tables[r] = NoTable})
        admitted == query_admit(ensured, q, refused)
    IN  IF admitted.ok THEN admitted.w ELSE cached_query_remove(admitted.w, q)

query_readmit(x, q) == [x EXCEPT !.queries[q] = Loading]

(* Every query command ends with the drain, whose failure is only logged.  *)
Refusable(refused) == refused => left.refuse > 0
Refuse(refused) == left' = IF refused THEN [left EXCEPT !.refuse = @ - 1] ELSE left
query_command(x, refused) ==
    /\ Refusable(refused) /\ w' = publication_dirty_drain(x, refused).w /\ Refuse(refused)
    /\ UNCHANGED <<originVars, cdcVars, cdc_rx>>

WriterUp == ~w.stopped /\ w.blocked = "no" /\ driver # "gone"
InFlight(rels) == \E t \in Open : \E i \in Changes(t) : wal[i].rel \in rels /\ ~wal[i].pub
Register(q, refused, left_over) ==
    /\ WriterUp /\ w.queries[q].state \in {"absent", "Invalidated"} /\ q \in scenario.queries
    /\ left.register > 0 /\ (scenario.overlap \/ ~InFlight(Reads[q]))
    /\ (refused \/ left_over) => left.refuse > 0
    /\ w' = publication_dirty_drain(IF Cached(w, q) THEN query_readmit(w, q) ELSE query_register(w, q, refused), left_over).w
    /\ left' = [left EXCEPT !.register = @ - 1, !.refuse = IF refused \/ left_over THEN @ - 1 ELSE @]
    /\ UNCHANGED <<originVars, cdcVars, cdc_rx>>
Evict(q, refused) == WriterUp /\ scenario.evicts /\ Cached(w, q) /\ query_command(cache_query_evict(w, q), refused)
query_failed_cleanup(q, refused) ==
    /\ WriterUp /\ scenario.evicts /\ w.queries[q].state = "Loading"
    /\ query_command(cached_query_remove(w, q), refused)
(* The tick's cleanup is not followed by a drain.                          *)
stale_entries_cleanup(q) ==
    /\ WriterUp /\ scenario.tick /\ w.queries[q].state = "Invalidated"
    /\ w' = cached_query_remove(w, q)
    /\ UNCHANGED <<originVars, left, cdcVars, cdc_rx>>

--------------------------------------------------------------------------
(* Populations.  The merge waits until the stream has passed the snapshot; *)
(* it never overwrites a row the stream has written.                       *)

Gated(x) == \E q \in Queries : x.queries[q].snapshot > x.received
PopulationRead(q) ==
    /\ WriterUp /\ w.queries[q] = Loading
    /\ LET x == [w EXCEPT !.queries[q].snapshot = Now] IN w' = [x EXCEPT !.nudge = @ \/ Gated(x)]
    /\ UNCHANGED <<originVars, left, cdcVars, cdc_rx>>
merge_stall_handle ==
    /\ WriterUp /\ w.frame = "Idle" /\ Gated(w) /\ ~w.nudge
    /\ w' = [w EXCEPT !.nudge = TRUE]
    /\ UNCHANGED <<originVars, left, cdcVars, cdc_rx>>

merge_releasable(q) ==
    w.queries[q].state = "Loading" /\ w.queries[q].snapshot # NoSnapshot /\ w.queries[q].snapshot <= w.received
Merge(q) ==
    /\ WriterUp /\ w.frame = "Idle" /\ merge_releasable(q)
    /\ LET absent == {r \in Reads[q] : w.rows[r] = NoRow}
           rows == [r \in Relations |-> IF r \in absent THEN Value(r, w.queries[q].snapshot) ELSE w.rows[r]]
       IN  w' = [w EXCEPT !.queries[q].state = "Ready", !.rows = rows,
                          !.late = @ \cup {r \in Reads[q] \ absent : rows[r] # Value(r, w.received)}]
    /\ UNCHANGED <<originVars, left, cdcVars, cdc_rx>>
(* A merge that fails takes its query with it; no drain follows.           *)
MergeFails(q) ==
    /\ WriterUp /\ w.frame = "Idle" /\ scenario.tick /\ merge_releasable(q)
    /\ w' = cached_query_remove(w, q)
    /\ UNCHANGED <<originVars, left, cdcVars, cdc_rx>>

--------------------------------------------------------------------------
(* The frame: the row events of the transactions of a batch, replayed and  *)
(* committed as one cache transaction.                                     *)

Buffer(x, r, value) ==
    [x EXCEPT !.frame = "TxnOpen", !.buffered = @ \cup {r}, !.writes[r] = value,
              !.locked = IF scenario.chunks THEN @ \cup {r} ELSE @]
(* A row some query reads is upserted; a row none reads is removed.        *)
handle_update(x, e) ==
    IF x.tables[e.rel] = NoTable THEN x
    ELSE [Buffer(x, e.rel, IF Over(x, e.rel) = {} THEN NoRow ELSE e.val) EXCEPT
             !.flagged = @ \cup (Over(x, e.rel) \cap Sensitive),
             !.misaligned = @ \/ (x.tables[e.rel].ver # e.ver /\ e.val > x.tables[e.rel].at)]
handle_truncate(x, e) ==
    IF e.rel = "" THEN x
    ELSE cache_table_invalidate(IF x.tables[e.rel] = NoTable THEN x ELSE Buffer(x, e.rel, NoRow), e.rel)
event_replay(x, e) ==
    CASE e.c = "Update" -> handle_update(x, e)
      [] e.c = "Truncate" -> handle_truncate(x, e)
      [] e.c = "Boundary" -> x
frame_rows_replay(x) == [FoldLeft(event_replay, x, x.events) EXCEPT !.events = <<>>]

frame_recover_enter(x) ==
    [x EXCEPT !.frame = "Recovering", !.events = <<>>, !.writes = [r \in Relations |-> NoWrite],
              !.buffered = {}, !.locked = {}]
Written(x) == {r \in Relations : x.writes[r] # NoWrite}
frame_commit(x) ==
    IF x.frame # "TxnOpen" THEN x
    ELSE [x EXCEPT !.rows = [r \in Relations |-> IF r \in Written(x) THEN x.writes[r] ELSE @[r]],
                   !.writes = [r \in Relations |-> NoWrite], !.buffered = {}]
frame_invalidations_flush(x) ==
    [x EXCEPT !.queries = [q \in Queries |-> IF q \in x.flagged /\ Cached(x, q) THEN [Absent EXCEPT !.state = "Invalidated"] ELSE @[q]]]
frame_recover(x) ==
    LET evicted == FoldSet(LAMBDA r, y : cache_table_invalidate(y, r), x, x.touched)
    IN  [evicted EXCEPT !.rows = [r \in Relations |-> IF r \in x.touched THEN NoRow ELSE @[r]], !.late = @ \ x.touched, !.torn = @ \ x.touched]

frame_finalize(x, deadlock) ==
    IF x.frame = "Recovering" THEN frame_recover(x)
    ELSE IF x.frame = "TxnOpen" /\ deadlock THEN frame_recover(frame_recover_enter(frame_invalidations_flush(x)))
    ELSE frame_commit(frame_invalidations_flush(x))
batch_state_reset(x) ==
    [x EXCEPT !.frame = "Idle", !.frames = 0, !.count = 0, !.events = <<>>, !.touched = {}, !.flagged = {}, !.buffered = {}, !.locked = {}]

received_lsn_advance(x, lsn) == [x EXCEPT !.received = Max({@, lsn}), !.settled = Max({@, lsn}), !.position = lsn]
applied_lsn_advance(x, lsn) == [received_lsn_advance(x, lsn) EXCEPT !.applied = Max({@, lsn})]
(* late and torn only record what a flush has done to the rows it wrote:   *)
(* put back one that changed later, unpublished, or shown one ahead of the *)
(* commit it is applied at.                                                *)
Judged(y, lsn, written) ==
    LET ahead == {r \in written : y.rows[r] > 0 /\ ~Committed(wal[y.rows[r]].txn, lsn)}
        unwatched(r) == \E i \in DOMAIN wal : /\ i > y.rows[r] /\ wal[i].k # "commit" /\ wal[i].rel = r /\ ~wal[i].pub
                                              /\ Committed(wal[i].txn, y.settled)
    IN  [y EXCEPT !.torn = (@ \ written) \cup ahead, !.late = (@ \ written) \cup {r \in written \ ahead : unwatched(r)}]
batch_flush(x, lsn, deadlock) ==
    LET replayed == frame_rows_replay(x)
        y == applied_lsn_advance(batch_state_reset(frame_finalize(replayed, deadlock)), lsn)
    IN  Judged(y, lsn, Written(replayed))

--------------------------------------------------------------------------
(* The CDC commands.                                                       *)

frame_begin_handle(x) ==
    [x EXCEPT !.open = TRUE, !.frame = IF @ = "Idle" THEN "Active" ELSE @,
              !.events = IF x.frame = "Idle" THEN <<>> ELSE @]
frame_row_push(x, e) ==
    LET touched == [x EXCEPT !.touched = @ \cup ({e.rel} \ {""})]
        pushed == [touched EXCEPT !.events = Append(@, e), !.count = @ + 1]
    IN  IF x.frame = "Recovering" THEN touched
        ELSE IF Len(pushed.events) >= FRAME_ROWS_CAPACITY THEN frame_rows_replay(pushed) ELSE pushed

cache_table_register(x, r, ver) ==
    IF x.tables[r].ver = ver THEN x
    ELSE TablesSet(IF x.tables[r] = NoTable THEN x ELSE cache_table_invalidate(x, r), {r},
                   [s \in Relations |-> [ver |-> ver, at |-> 0]])
(* A layout that changed within the frame: events still in the log are     *)
(* discarded, writes already buffered abort the frame.                     *)
table_register_handle(x, r, ver) ==
    LET y == [x EXCEPT !.touched = @ \cup {r}]
    IN  cache_table_register(
            IF y.tables[r].ver = ver THEN y
            ELSE IF r \in y.buffered THEN frame_recover_enter(y)
            ELSE [y EXCEPT !.events = SelectSeq(@, LAMBDA e : e.c # "Update" \/ e.rel # r)], r, ver)

(* A slip: frames wait for a full batch.                                   *)
commit_mark_handle_batched(x, lsn, queued, deadlock) ==
    LET y == [x EXCEPT !.events = Append(@, Command("Boundary", "")), !.frames = @ + 1, !.last = lsn, !.open = FALSE]
    IN  IF y.frame = "Recovering" \/ y.count >= FRAME_ROWS_CAPACITY \/ y.frames >= BATCH_FRAMES_MAX
        THEN batch_flush(y, lsn, deadlock) ELSE y
commit_mark_handle(x, lsn, queued, deadlock) ==
    LET y == [x EXCEPT !.events = Append(@, Command("Boundary", "")), !.frames = @ + 1, !.last = lsn, !.open = FALSE]
    IN  IF y.frame = "Recovering" \/ y.count >= FRAME_ROWS_CAPACITY \/ y.frames >= BATCH_FRAMES_MAX \/ queued = 0
        THEN batch_flush(y, lsn, deadlock) ELSE y

(* A slip: the watermark passes frames that wait to be flushed.            *)
keepalive_mark_handle_unflushed(x, lsn, deadlock) == IF x.open THEN x ELSE received_lsn_advance(x, lsn)
(* A keepalive inside an open frame is ignored.                            *)
keepalive_mark_handle(x, lsn, deadlock) ==
    IF x.open THEN x
    ELSE received_lsn_advance(IF x.frames > 0 THEN batch_flush(x, x.last, deadlock) ELSE x, lsn)

cdc_command_handle(x, cmd, queued, deadlock) ==
    CASE cmd.c = "Begin" -> frame_begin_handle(x)
      [] cmd.c = "TableRegister" -> table_register_handle(x, cmd.rel, cmd.ver)
      [] cmd.c \in {"Update", "Truncate"} -> frame_row_push(x, cmd)
      [] cmd.c = "CommitMark" -> commit_mark_handle(x, cmd.lsn, queued, deadlock)
      [] cmd.c = "KeepAliveMark" -> keepalive_mark_handle(x, cmd.lsn, deadlock)

(* A run of keepalives at the head of the channel counts as its furthest.  *)
KeepAliveRun == {i \in DOMAIN cdc_rx : \A j \in 1..i : cdc_rx[j].c = "KeepAliveMark"}
cdc_keepalive_run_coalesce ==
    IF KeepAliveRun = {} THEN [cmd |-> Head(cdc_rx), rest |-> Tail(cdc_rx)]
    ELSE [cmd |-> [cdc_rx[1] EXCEPT !.lsn = Max({cdc_rx[i].lsn : i \in KeepAliveRun})],
          rest |-> SubSeq(cdc_rx, Max(KeepAliveRun) + 1, Len(cdc_rx))]

(* Every CDC command ends with the drain, whose failure ends the writer.   *)
CdcStep(refused, deadlock) ==
    /\ WriterUp /\ cdc_rx # <<>>
    /\ Refusable(refused) /\ (deadlock => scenario.deadlocks /\ Head(cdc_rx).c \in {"CommitMark", "KeepAliveMark"})
    /\ LET next == cdc_keepalive_run_coalesce
           done == publication_dirty_drain(cdc_command_handle(w, next.cmd, Len(next.rest), deadlock), refused)
       IN  w' = [done.w EXCEPT !.stopped = ~done.ok] /\ cdc_rx' = next.rest
    /\ Refuse(refused)
    /\ UNCHANGED <<originVars, cdcVars>>

--------------------------------------------------------------------------
(* The subsystem ends with the writer or with a fatal slot check, and is   *)
(* rebuilt over an empty cache database and an empty publication.  The     *)
(* slot and its position survive; a slot that is gone is made anew once no *)
(* transaction is in progress.                                             *)
Rebuild ==
    /\ left.rebuild > 0 /\ (w.stopped \/ driver = "gone" \/ scenario.fails) /\ (confirmed = NoSlot => Open = {})
    /\ left' = [left EXCEPT !.rebuild = @ - 1]
    /\ LET slot == IF confirmed = NoSlot THEN Now ELSE confirmed
       IN  confirmed' = slot /\ stream' = Connected(slot)
    /\ proc' = NewProcessor /\ driver' = "run" /\ cdc_rx' = <<>> /\ w' = WriterNew
    /\ UNCHANGED originVars

Init ==
    /\ scenario \in Scenarios
    /\ left = scenario.bounds
    /\ wal = <<>> /\ schema = [r \in Relations |-> 1]
    /\ confirmed = 0 /\ stream = Connected(0) /\ proc = NewProcessor /\ driver = "run"
    /\ cdc_rx = <<>> /\ w = WriterNew
Next ==
    \/ \E k \in {"write", "truncate"}, r \in Relations, t \in Transactions : OriginChange(k, r, t)
    \/ \E t \in Transactions : OriginCommit(t)
    \/ \E r \in Relations : OriginAlter(r)
    \/ Decode
    \/ \E due, arrives \in BOOLEAN : Receive(due, arrives) \/ KeepAlive(due, arrives)
    \/ \E arrives \in BOOLEAN : KeepAliveTimer(arrives) \/ WatermarkNudge(arrives)
    \/ \E slot \in {"kept", "lost"} : Break(slot)
    \/ cdc_reconnect
    \/ \E q \in Queries, refused, left_over \in BOOLEAN : Register(q, refused, left_over)
    \/ \E q \in Queries, refused \in BOOLEAN : Evict(q, refused) \/ query_failed_cleanup(q, refused)
    \/ \E q \in Queries : stale_entries_cleanup(q) \/ PopulationRead(q) \/ Merge(q) \/ MergeFails(q)
    \/ merge_stall_handle
    \/ \E refused, deadlock \in BOOLEAN : CdcStep(refused, deadlock)
    \/ Rebuild
Spec == Init /\ [][Next]_vars

--------------------------------------------------------------------------
(* Properties.                                                             *)

(* Type invariant: the cursors never run ahead of the log, and the         *)
(* publication the writer remembers is the origin's.                       *)
TypeOK ==
    /\ driver \in {"run", "reconnect", "gone"} /\ confirmed \in {NoSlot} \cup 0..Now /\ stream.at \in 0..Now
    /\ proc.received \in 0..Now /\ proc.flushed \in 0..proc.decoded
    /\ w.frame \in {"Idle", "Active", "TxnOpen", "Recovering"} /\ w.oids = w.published /\ w.oids \subseteq Relations
    /\ w.rows \in [Relations -> Original..Now] /\ w.refcounts \in [Relations -> 0..Cardinality(Queries)]
    /\ \A q \in Queries : w.queries[q].state \in {"absent", "Loading", "Ready", "Invalidated"}
                           /\ w.queries[q].snapshot \in NoSnapshot..Now

(* No change falls between a population and the stream: every change a     *)
(* query's snapshot does not contain is published, so it will be delivered *)
(* (query_admit publishes a relation before the population may read it).   *)
SnapshotCovered ==
    \A q \in Queries : w.queries[q].snapshot # NoSnapshot =>
        \A i \in DOMAIN wal :
            wal[i].rel \in Reads[q] /\ wal[i].k # "commit" /\ ~Committed(wal[i].txn, w.queries[q].snapshot) => wal[i].pub

(* Whatever breaks, is replayed or is rebuilt in between, the rows a Ready *)
(* query reads are the origin's at one commit, the one the writer's        *)
(* watermark names: no change at or below it is missing and none above it  *)
(* shows.  Rows a merge found in its way and rows of a half-delivered      *)
(* transaction are apart (RowsOwned, TransactionsAtomic), and so is a      *)
(* replay that has not come back to the watermark (AppliedIsInCache).      *)
Serving == {q \in Queries : w.queries[q].state = "Ready"}
Exact(q) == \A r \in Reads[q] \ (w.late \cup w.torn) : w.rows[r] = Value(r, w.settled)
ConsistentAtWatermark == w.position = w.settled => \A q \in Serving : Exact(q)

(* An event is applied to a cache table only under the column layout it    *)
(* was captured with (table_register_handle).                              *)
RowsAligned == ~w.misaligned

(* The drain never drops a table that the open frame has locked            *)
(* (publication_dirty_drain).                                              *)
DrainNeverBlocks == w.blocked # "drain"


(* Nothing is stranded: once the stream is drained no frame waits for a    *)
(* commit or a batch, and a population still gated will be released by the *)
(* next keepalive, which the processor has not yet counted as decoded      *)
(* (handle_keep_alive forwards only positions past last_decoded_lsn).      *)
Drained == Running /\ stream.out = <<>> /\ stream.at = Now /\ cdc_rx = <<>>
NothingStranded == Drained /\ WriterUp => w.frame = "Idle" /\ (Gated(w) => stream.at > proc.decoded)

(* What the code's own comments say beyond that, and the model refutes.    *)

(* Rows a merge leaves in place are current: the stream owns them.         *)
RowsOwned == w.late = {}
(* A source transaction becomes visible as a whole.                        *)
TransactionsAtomic == w.torn = {}
(* Everything up to the published watermark is in the cache.               *)
AppliedIsInCache == driver = "run" => \A q \in Serving : Exact(q)
(* A Begin never arrives within an open frame.                             *)
NoBeginInFrame == cdc_rx # <<>> /\ Head(cdc_rx).c = "Begin" => ~w.open
(* A keepalive never arrives within an open frame.                         *)
NoKeepAliveInFrame == cdc_rx # <<>> /\ Head(cdc_rx).c = "KeepAliveMark" => ~w.open
(* Dropping tables never waits for the frame.                              *)
WriterNeverBlocks == w.blocked = "no"
(* The slot check gives up only when the slot is really lost.              *)
FatalIsReal == driver = "gone" => confirmed = NoSlot
=============================================================================
