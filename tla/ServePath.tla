----------------------------- MODULE ServePath -----------------------------
(***************************************************************************)
(* Serving cache hits from the pool of cache-database connections of one   *)
(* generation: the serve loop, its pool and reconciler (runtime/           *)
(* serve_pool.rs, serve_pool_state.rs), the serve tasks and the relay of   *)
(* the response (serve.rs, serve/), the connection's prepared statements   *)
(* (pg/cache_connection.rs), EXPLAIN jobs (explain.rs) and the replies     *)
(* (reply.rs).  A frame is <<message type, what it answers>>.  The cache   *)
(* database is external: it answers a pipeline in order, may answer with   *)
(* an error, go silent or close the connection.                            *)
(***************************************************************************)
EXTENDS Supervision, SequencesExt, PoolController

CONSTANTS
    Requests, Waiters,          \* the primary clients and the coalesced ones
    Request,                    \* [Requests -> request record]
    PoolMin, PoolMax,           \* serve_pool_bounds
    PREPARED_STATEMENT_CAP, BroadcastCapacity

VARIABLES
    serve_rx, \* the serve loop's queue
    loop,     \* the serve loop: [pc, req, conn]
    pool,     \* [idle, live, desired, signals, parked, recycle]
    rec,      \* the reconciler: [pc, conn]
    control,  \* the pool's controller
    conn,     \* per connection: [order, setgen, backend]
    task,     \* per request: the serve task
    bcast,    \* per request: the broadcast channel [log, open]
    waiter,   \* per waiter: its write task [pc, pos]
    client    \* per client: [wire, half, sock, reply]

serveVars == <<serve_rx, loop, pool, rec, control, conn, task, bcast, waiter, client>>

Served == 1 \* the generation whose serve path is modelled
Clients == Requests \cup Waiters
NoConn == 0
Conns == 1 .. PoolMax + 2
NewConn == [order |-> <<>>, setgen |-> FALSE, backend |-> {}]
NoTask == [pc |-> "none", conn |-> NoConn, poisoned |-> FALSE, state |-> "Done", prepare |-> {}, q |-> <<>>,
           committed |-> FALSE, sent |-> FALSE, gone |-> FALSE, pipe |-> <<>>, param |-> FALSE]

ServeInit(asked) ==
    /\ serve_rx = <<>>
    /\ loop = [pc |-> "wait", req |-> "none", conn |-> NoConn]
    /\ pool = [idle |-> [i \in 1 .. PoolMin |-> i], live |-> PoolMin, desired |-> PoolMin,
               signals |-> 0, parked |-> NoConn, recycle |-> FALSE]
    /\ rec = [pc |-> "select", conn |-> NoConn]
    /\ control = NewController(PoolMin, PoolMax)
    /\ conn = [k \in Conns |-> NewConn]
    /\ task = [r \in Requests |-> [NoTask EXCEPT !.pc = IF r \in asked THEN "none" ELSE "done"]]
    /\ bcast = [r \in Requests |-> [log |-> <<>>, open |-> FALSE]]
    /\ waiter = [w \in Waiters |-> [pc |-> "none", pos |-> 0]]
    /\ client = [c \in Clients |-> [wire |-> <<>>, half |-> FALSE, sock |-> "ok", reply |-> <<>>]]

WaitersOf(r) == Request[r].waiters
\* The connections some part of the pool holds; the others do not exist.
Out == {task[r].conn : r \in Requests} \ {NoConn}
InUse == ToSet(pool.idle) \cup Out \cup ({pool.parked, loop.conn, rec.conn} \ {NoConn})
Fresh == CHOOSE k \in Conns : k \notin InUse

Faults(f) == Spend(f) /\ UNCHANGED <<root, cancel, thread, sup, dispatch, status, accept, origin, database>>
Quiet == UNCHANGED supVars

--------------------------------------------------------------------------
(* Replies: one delivery per reply slot, the drop of an unused sender      *)
(* included.                                                               *)

Reply(cs, cl, outcome) ==
    [c \in DOMAIN cl |-> IF c \in cs THEN [cl[c] EXCEPT !.reply = Append(@, outcome)] ELSE cl[c]]
AllOf(r) == {r} \cup WaitersOf(r)

--------------------------------------------------------------------------
(* The serve loop.                                                         *)

\* pool_serve: the request is queued; a closed queue forwards it and its
\* waiters to the origin.
pool_serve(r) ==
    /\ task[r].pc = "none" /\ dispatch = Served
    /\ IF Up(Served, "serve")
       THEN /\ serve_rx' = Append(serve_rx, r)
            /\ task' = [task EXCEPT ![r].pc = "queued"]
            /\ UNCHANGED client
       ELSE /\ client' = Reply(AllOf(r), client, "Error")
            /\ task' = [task EXCEPT ![r].pc = "done"]
            /\ UNCHANGED serve_rx
    /\ Quiet /\ UNCHANGED <<loop, pool, rec, control, conn, bcast, waiter>>

LoopAt(pc) == loop.pc = pc /\ Up(Served, "serve")
LoopOnly == Quiet /\ UNCHANGED <<rec, control, conn, bcast, waiter, client>>
loop_receive ==
    /\ LoopAt("wait") /\ serve_rx # <<>>
    /\ loop' = [loop EXCEPT !.pc = "shrink", !.req = Head(serve_rx)]
    /\ serve_rx' = Tail(serve_rx)
    /\ LoopOnly /\ UNCHANGED <<pool, task>>
\* The recycle tick drops one idle connection under memory pressure, and the
\* parked one when it is expired or memory is wanted back.
recycle_tick ==
    /\ LoopAt("wait")
    /\ \E expired \in BOOLEAN :
        LET drop == pool.recycle /\ pool.idle # <<>>
        IN  /\ drop \/ ((pool.recycle \/ expired) /\ pool.parked # NoConn) \/ pool.live > pool.desired
            /\ pool' = [pool EXCEPT !.idle = IF drop THEN Tail(@) ELSE @,
                                    !.signals = IF drop THEN @ + 1 ELSE @,
                                    !.parked = IF pool.recycle \/ expired THEN NoConn ELSE @]
    /\ loop' = [loop EXCEPT !.pc = "shrink"]
    /\ LoopOnly /\ UNCHANGED <<serve_rx, task>>
\* pool_shrink_apply: the check, the withdrawal with its live_sub, the parking.
pool_shrink_check ==
    /\ LoopAt("shrink")
    /\ loop' = [loop EXCEPT !.pc = IF pool.live > pool.desired /\ pool.idle # <<>> THEN "withdraw"
                                   ELSE IF loop.req = "none" THEN "wait" ELSE "acquire"]
    /\ LoopOnly /\ UNCHANGED <<serve_rx, pool, task>>
pool_shrink_withdraw ==
    /\ LoopAt("withdraw")
    /\ loop' = [loop EXCEPT !.pc = "park", !.conn = Head(pool.idle)]
    /\ pool' = [pool EXCEPT !.idle = Tail(@), !.live = IF @ > 0 THEN @ - 1 ELSE 0]
    /\ LoopOnly /\ UNCHANGED <<serve_rx, task>>
pool_shrink_park ==
    /\ LoopAt("park")
    /\ loop' = [loop EXCEPT !.pc = "shrink", !.conn = NoConn]
    /\ pool' = [pool EXCEPT !.parked = IF @ = NoConn THEN loop.conn ELSE @]
    /\ LoopOnly /\ UNCHANGED <<serve_rx, task>>
loop_acquire ==
    /\ LoopAt("acquire") /\ pool.idle # <<>>
    /\ task' = [task EXCEPT ![loop.req].pc = "send", ![loop.req].conn = Head(pool.idle)]
    /\ pool' = [pool EXCEPT !.idle = Tail(@)]
    /\ loop' = [loop EXCEPT !.pc = "wait", !.req = "none"]
    /\ LoopOnly /\ UNCHANGED serve_rx
\* Teardown: the loop returns, dropping its queue, the request in hand and
\* the pool's receiver with the idle connections.
loop_teardown ==
    /\ LoopAt("wait") \/ (LoopAt("acquire") /\ pool.idle = <<>>)
    /\ Cancelled(Served)
    /\ Set(Served, "serve", "gone")
    /\ UNCHANGED <<root, cancel, sup, dispatch, status, accept, origin, database, budget>>
    /\ LET lost == ToSet(serve_rx) \cup ({loop.req} \ {"none"})
       IN  /\ client' = Reply(UNION {AllOf(r) : r \in lost}, client, "Dropped")
           /\ task' = [r \in Requests |-> IF r \in lost THEN [task[r] EXCEPT !.pc = "done"] ELSE task[r]]
    /\ serve_rx' = <<>>
    /\ loop' = [pc |-> "gone", req |-> "none", conn |-> NoConn]
    /\ pool' = [pool EXCEPT !.idle = <<>>]
    /\ UNCHANGED <<rec, control, conn, bcast, waiter>>

--------------------------------------------------------------------------
(* The reconciler and the controller.                                      *)

RecOnly == UNCHANGED <<serve_rx, loop, control, task, bcast, waiter, client>>
reconcile_cancel ==
    /\ rec.pc = "select" /\ Cancelled(Served)
    /\ rec' = [rec EXCEPT !.pc = "gone"]
    /\ Quiet /\ RecOnly /\ UNCHANGED <<pool, conn>>
\* A loss signal takes one off the live count; the tick finds growth.
reconcile_signal ==
    /\ rec.pc = "select" /\ pool.signals > 0
    /\ pool' = [pool EXCEPT !.signals = @ - 1, !.live = IF @ > 0 THEN @ - 1 ELSE 0]
    /\ rec' = [rec EXCEPT !.pc = "fill"]
    /\ Quiet /\ RecOnly /\ UNCHANGED conn
reconcile_tick ==
    /\ rec.pc = "select" /\ pool.live < pool.desired
    /\ rec' = [rec EXCEPT !.pc = "fill"]
    /\ Quiet /\ RecOnly /\ UNCHANGED <<pool, conn>>
\* While the pool is short: the parked connection, or a new one.
reconcile_fill ==
    /\ rec.pc = "fill"
    /\ IF pool.live >= pool.desired
       THEN rec' = [rec EXCEPT !.pc = "select"] /\ UNCHANGED <<pool, conn>>
       ELSE IF pool.parked # NoConn
       THEN /\ rec' = [pc |-> "send", conn |-> pool.parked]
            /\ pool' = [pool EXCEPT !.parked = NoConn]
            /\ UNCHANGED conn
       ELSE /\ rec' = [pc |-> "send", conn |-> Fresh]
            /\ conn' = [conn EXCEPT ![Fresh] = NewConn]
            /\ UNCHANGED pool
    /\ Quiet /\ RecOnly
\* A connect that fails backs off, raced against the teardown.
reconcile_dial_fails ==
    /\ rec.pc = "fill" /\ pool.live < pool.desired /\ pool.parked = NoConn
    /\ Faults("dial")
    /\ rec' = [rec EXCEPT !.pc = IF Cancelled(Served) THEN "gone" ELSE @]
    /\ RecOnly /\ UNCHANGED <<pool, conn>>
reconcile_send ==
    /\ rec.pc = "send"
    /\ IF Up(Served, "serve")
       THEN rec' = [pc |-> "add", conn |-> NoConn] /\ pool' = [pool EXCEPT !.idle = Append(@, rec.conn)]
       ELSE rec' = [pc |-> "gone", conn |-> NoConn] /\ UNCHANGED pool
    /\ Quiet /\ RecOnly /\ UNCHANGED conn
reconcile_add ==
    /\ rec.pc = "add"
    /\ pool' = [pool EXCEPT !.live = @ + 1]
    /\ rec' = [rec EXCEPT !.pc = "fill"]
    /\ Quiet /\ RecOnly /\ UNCHANGED conn

\* serve_pool_controller: the sample's live count is read with the counters.
serve_pool_controller ==
    /\ ~Cancelled(Served)
    /\ \E s \in Samples :
        LET next == controller_step(control, s, pool.desired, pool.live)
        IN  /\ control' = next.control
            /\ pool' = [pool EXCEPT !.desired = next.desired]
    /\ Faults("tick")
    /\ UNCHANGED <<serve_rx, loop, rec, conn, task, bcast, waiter, client>>
\* The memory monitor asks for recycling, or stops asking.
recycle_wanted ==
    /\ Faults("recycle")
    /\ pool' = [pool EXCEPT !.recycle = ~@]
    /\ UNCHANGED <<serve_rx, loop, rec, control, conn, task, bcast, waiter, client>>

--------------------------------------------------------------------------
(* The connection's statements and the response a pipeline gets.           *)

Frame(type, of) == <<type, of>>
If(c, s) == IF c THEN s ELSE <<>>
include_describe(q) == q.simple \/ q.describe # "none"

\* PreparedStatements.insert: past the cap the oldest shape is evicted.
statement_insert(order, shape) ==
    IF Len(order) < PREPARED_STATEMENT_CAP
    THEN [order |-> Append(order, shape), evicted |-> {}]
    ELSE [order |-> Append(Tail(order), shape), evicted |-> {Head(order)}]

\* What pipelined_named_query_send puts on the wire: PrepareOutcome as the
\* set of the optional messages sent, and the connection afterwards.
pipelined_named_query_send_unclosed(k, shape) ==
    LET parse == ~Contains(k.order, shape)
        ins == IF parse THEN statement_insert(k.order, shape) ELSE [order |-> k.order, evicted |-> {}]
    IN  [sent |-> (IF parse THEN {"parse"} ELSE {}) \cup (IF k.setgen THEN {} ELSE {"setgen"}),
         conn |-> [k EXCEPT !.order = ins.order, !.setgen = TRUE],
         evicted |-> {}]
pipelined_named_query_send(k, shape) ==
    LET parse == ~Contains(k.order, shape)
        ins == IF parse THEN statement_insert(k.order, shape) ELSE [order |-> k.order, evicted |-> {}]
    IN  [sent |-> (IF parse THEN {"parse"} ELSE {}) \cup (IF k.setgen THEN {} ELSE {"setgen"})
                     \cup (IF ins.evicted = {} THEN {} ELSE {"close"}),
         conn |-> [k EXCEPT !.order = ins.order, !.setgen = TRUE],
         evicted |-> ins.evicted]
\* The MV path: an unnamed statement, no generation stamp.
extended_query_unnamed_send(k) == [sent |-> {"parse"}, conn |-> k, evicted |-> {}]

\* The cache database's answer to a pipeline (external).
SelectAnswer(q, r) ==
    If(include_describe(q), <<Frame("RowDescription", r)>>)
      \o [i \in 1 .. q.rows |-> Frame("DataRows", r)] \o <<Frame("CommandComplete", r)>>
Prologue(q, sent) ==
    If(q.kind = "source",
       If("setgen" \in sent, <<Frame("ParseComplete", "gen")>>)
         \o <<Frame("BindComplete", "gen"), Frame("DataRows", "gen"), Frame("CommandComplete", "gen")>>)
      \o If("close" \in sent, <<Frame("CloseComplete", "gen")>>)
Answer(q, r, sent) ==
    Prologue(q, sent) \o If("parse" \in sent, <<Frame("ParseComplete", r)>>)
      \o <<Frame("BindComplete", r)>> \o SelectAnswer(q, r) \o <<Frame("ReadyForQuery", "db")>>
ErrorAnswer(q, r, sent, rows) ==
    Prologue(q, sent)
      \o If(rows, If("parse" \in sent, <<Frame("ParseComplete", r)>>) \o <<Frame("BindComplete", r)>>
                     \o If(include_describe(q), <<Frame("RowDescription", r)>>))
      \o <<Frame("ErrorResponse", "db"), Frame("ReadyForQuery", "db")>>

--------------------------------------------------------------------------
(* ServeResponseState: the frames consumed rather than relayed.            *)

state_initial(q, sent) ==
    IF q.kind = "mv" THEN "ParseComplete" ELSE IF "setgen" \in sent THEN "SetGenParse" ELSE "SetGenBind"
select_start(sent) == IF "parse" \in sent THEN "ParseComplete" ELSE "BindComplete"
in_set_config(state) == state \in {"SetGenParse", "SetGenBind", "SetGenData"}
state_advance(state, type, sent, describe) ==
    CASE state = "SetGenParse" /\ type = "ParseComplete" -> "SetGenBind"
      [] state = "SetGenBind" /\ type = "BindComplete" -> "SetGenData"
      [] state = "SetGenData" /\ type = "DataRows" -> "SetGenData"
      [] state = "SetGenData" /\ type = "CommandComplete" ->
            IF "close" \in sent THEN "CloseComplete" ELSE select_start(sent)
      [] state = "CloseComplete" /\ type = "CloseComplete" -> select_start(sent)
      [] state = "ParseComplete" /\ type = "ParseComplete" -> "BindComplete"
      [] state = "BindComplete" /\ type = "BindComplete" -> IF describe THEN "DescribeRow" ELSE "DataRows"
      [] type = "ReadyForQuery" /\ ~in_set_config(state) -> "Done"
      [] OTHER -> "none"
Relayed(state, type) ==
    \/ state = "DescribeRow" /\ type = "RowDescription"
    \/ state = "DataRows" /\ type \in {"DataRows", "CommandComplete"}
AsyncFrames == {"ParameterStatus", "NoticeResponse", "NotificationResponse"}

--------------------------------------------------------------------------
(* One serve.                                                              *)

TaskOnly == UNCHANGED <<serve_rx, loop, rec, control>>
\* The guard's drop: a poisoned or lost connection is discarded and signalled.
Discard(p) == [p EXCEPT !.signals = @ + 1]
Finished(t) == [t EXCEPT !.pc = "done", !.conn = NoConn, !.q = <<>>, !.pipe = <<>>]

\* push_and_broadcast of the completions the client is owed.
Opening(q, r) ==
    If(q.parse, <<Frame("ParseComplete", r)>>) \o If(q.bind, <<Frame("BindComplete", r)>>)
\* serve_query_send, broadcast_setup and the relay's start.
serve_query_send(r) ==
    /\ task[r].pc = "send" /\ Request[r].kind # "explain"
    /\ LET q == Request[r]
           k == task[r].conn
           send == IF q.kind = "mv" THEN extended_query_unnamed_send(conn[k])
                   ELSE pipelined_named_query_send(conn[k], q.shape)
           named == IF q.kind = "mv" THEN {} ELSE {q.shape, "gen"}
           closed == conn[k].backend \ send.evicted
           start == [task[r] EXCEPT !.pc = "relay", !.prepare = send.sent, !.q = Opening(q, r),
                                    !.state = state_initial(q, send.sent), !.param = q.describe = "statement"]
       IN  /\ \/ /\ Quiet
                 /\ task' = [task EXCEPT ![r] = [start EXCEPT !.pipe = Answer(q, r, send.sent)]]
                 /\ conn' = [conn EXCEPT ![k] = [send.conn EXCEPT !.backend = closed \cup named]]
              \/ \E rows \in BOOLEAN :
                 /\ Faults("error")
                 /\ task' = [task EXCEPT ![r] = [start EXCEPT !.pipe = ErrorAnswer(q, r, send.sent, rows)]]
                 /\ conn' = [conn EXCEPT ![k] =
                        [send.conn EXCEPT !.backend = closed \cup (IF rows THEN named ELSE named \ {q.shape})]]
              \/ \E type \in {"ParameterStatus", "NoData"}, i \in 0 .. Len(Answer(q, r, send.sent)) :
                 /\ Faults("noise")
                 /\ task' = [task EXCEPT ![r] =
                        [start EXCEPT !.pipe = InsertAt(Answer(q, r, send.sent), i + 1, Frame(type, "db"))]]
                 /\ conn' = [conn EXCEPT ![k] = [send.conn EXCEPT !.backend = closed \cup named]]
           /\ bcast' = [bcast EXCEPT ![r] = [log |-> If(WaitersOf(r) # {}, Opening(q, r)), open |-> WaitersOf(r) # {}]]
           /\ waiter' = [w \in Waiters |-> IF w \in WaitersOf(r) THEN [pc |-> "recv", pos |-> 0] ELSE waiter[w]]
    /\ TaskOnly /\ UNCHANGED <<pool, client>>
\* The pipeline cannot be written: poisoned, forwarded; the waiters, not yet
\* drained, are dropped with the request.
serve_query_send_fails(r) ==
    /\ task[r].pc = "send" /\ Request[r].kind # "explain"
    /\ Faults("write")
    /\ task' = [task EXCEPT ![r] = Finished(@)]
    /\ pool' = Discard(pool)
    /\ client' = Reply(WaitersOf(r), Reply({r}, client, "Error"), "Dropped")
    /\ TaskOnly /\ UNCHANGED <<conn, bcast, waiter>>

\* What the loop does after each of its arms.
Settle(t) ==
    LET committed == t.committed \/ t.state \in {"DataRows", "Done"}
    IN  [t EXCEPT !.committed = committed, !.q = IF t.gone THEN <<>> ELSE @,
                  !.pc = IF t.state = "Done" THEN "finish" ELSE @]
\* Poisoned: the broadcast is closed, its tasks are joined before anything else.
poison(r, pc) ==
    /\ task' = [task EXCEPT ![r].poisoned = TRUE, ![r].pc = pc]
    /\ bcast' = [bcast EXCEPT ![r].open = FALSE]

\* One frame of the cache database: consumed, relayed with the pending
\* ParameterDescription ahead of a RowDescription, passed over, or failing.
frame_apply(r) ==
    /\ task[r].pc = "relay" /\ task[r].pipe # <<>>
    /\ LET t == [task[r] EXCEPT !.pipe = Tail(@)]
           f == Head(task[r].pipe)
           next == state_advance(t.state, f[1], t.prepare, include_describe(Request[r]))
           row == f[1] = "RowDescription"
           out == If(row /\ t.param, <<Frame("ParameterDescription", r)>>) \o <<f>>
       IN  IF next # "none"
           THEN task' = [task EXCEPT ![r] = Settle([t EXCEPT !.state = next])] /\ UNCHANGED bcast
           ELSE IF Relayed(t.state, f[1])
           THEN /\ task' = [task EXCEPT ![r] = Settle([t EXCEPT !.q = @ \o out, !.param = IF row THEN FALSE ELSE @,
                                                         !.state = "DataRows"])]
                /\ bcast' = [bcast EXCEPT ![r].log = IF bcast[r].open THEN @ \o out ELSE @]
           ELSE IF f[1] \in AsyncFrames
           THEN task' = [task EXCEPT ![r] = Settle(t)] /\ UNCHANGED bcast
           ELSE poison(r, "fail")
    /\ Quiet /\ TaskOnly /\ UNCHANGED <<pool, conn, waiter, client>>
\* The connection closes, the deadline of the serve passes, or the cache
\* database is silent while a departed client's response is drained.
frame_missing(r) ==
    /\ task[r].pc = "relay"
    /\ Faults("stall")
    /\ poison(r, "fail") \/ (task[r].gone /\ poison(r, "drained"))
    /\ TaskOnly /\ UNCHANGED <<pool, conn, waiter, client>>

Sock(c) == client[c].sock
\* write_buf to the primary, once committed: a whole frame or the first half of one.
client_write(r) ==
    /\ task[r].pc = "relay" /\ task[r].committed /\ task[r].q # <<>> /\ ~task[r].gone
    /\ Sock(r) \in {"ok", "dead"}
    /\ IF Sock(r) = "dead"
       THEN task' = [task EXCEPT ![r] = Settle([@ EXCEPT !.gone = TRUE])] /\ UNCHANGED client
       ELSE \/ /\ client' = [client EXCEPT ![r].wire = Append(@, Head(task[r].q)), ![r].half = FALSE]
               /\ task' = [task EXCEPT ![r] = Settle([@ EXCEPT !.q = Tail(@), !.sent = TRUE])]
            \/ /\ ~client[r].half
               /\ client' = [client EXCEPT ![r].half = TRUE]
               /\ task' = [task EXCEPT ![r] = Settle([@ EXCEPT !.sent = TRUE])]
    /\ Quiet /\ TaskOnly /\ UNCHANGED <<pool, conn, bcast, waiter>>

Joined(r) == \A w \in WaitersOf(r) : waiter[w].pc \in {"none", "ok", "err"}
Rfq(q) == If(q.rfq, <<Frame("ReadyForQuery", "client")>>)
ServeError == Frame("ErrorResponse", "serve")
\* Bytes put on a wire in the middle of a frame tear that frame.
Written(cl, frames) ==
    [cl EXCEPT !.wire = @ \o If(cl.half /\ frames[1] = ServeError, <<Frame("Torn", "client")>>) \o frames,
               !.half = FALSE]

failure_resolve(r) ==
    /\ task[r].pc \in {"fail", "drained"} /\ Joined(r)
    /\ LET replied == Reply(WaitersOf(r), client, "Error")
       IN  IF task[r].pc = "drained" \/ ~task[r].sent
           THEN /\ task' = [task EXCEPT ![r] = Finished(@)]
                /\ pool' = Discard(pool)
                /\ client' = Reply({r}, replied, "Error")
           ELSE /\ task' = [task EXCEPT ![r].pc = "error",
                       ![r].q = <<ServeError>> \o (IF Request[r].block THEN <<>> ELSE Rfq(Request[r]))]
                /\ client' = replied
                /\ UNCHANGED pool
    /\ Quiet /\ TaskOnly /\ UNCHANGED <<conn, bcast, waiter>>
failure_write(r) ==
    /\ task[r].pc = "error" /\ Sock(r) # "stuck"
    /\ LET cl == IF Sock(r) = "ok" THEN [client EXCEPT ![r] = Written(@, task[r].q)] ELSE client
       IN  client' = Reply({r}, cl, IF Request[r].block THEN "Abandon" ELSE "Complete")
    /\ task' = [task EXCEPT ![r] = Finished(@)]
    /\ pool' = Discard(pool)
    /\ Quiet /\ TaskOnly /\ UNCHANGED <<conn, bcast, waiter>>

\* connection_return_or_discard and the release: a connection with unread
\* bytes is discarded; a closed pool fails the serve.
serve_release(r) ==
    /\ task[r].pc = "finish"
    /\ LET k == task[r].conn
           dirty == task[r].pipe # <<>>
           closed == ~dirty /\ ~Up(Served, "serve")
       IN  /\ pool' = IF dirty \/ closed THEN Discard(pool) ELSE [pool EXCEPT !.idle = Append(@, k)]
           /\ IF closed
              THEN task' = [task EXCEPT ![r].pc = "closed", ![r].conn = NoConn]
                   /\ bcast' = [bcast EXCEPT ![r].open = FALSE]
              ELSE /\ task' = [task EXCEPT ![r].pc = "join", ![r].conn = NoConn, ![r].pipe = <<>>,
                                           ![r].q = @ \o Rfq(Request[r])]
                   /\ bcast' = [bcast EXCEPT ![r].log = IF bcast[r].open THEN @ \o Rfq(Request[r]) ELSE @,
                                             ![r].open = FALSE]
    /\ Quiet /\ TaskOnly /\ UNCHANGED <<conn, waiter, client>>
\* connection_release's error: the waiters and the primary are forwarded.
serve_release_failed(r) ==
    /\ task[r].pc = "closed" /\ Joined(r)
    /\ task' = [task EXCEPT ![r] = Finished(@)]
    /\ client' = Reply(AllOf(r), client, "Error")
    /\ Quiet /\ TaskOnly /\ UNCHANGED <<pool, conn, bcast, waiter>>
\* broadcast_join, flush_final and the replies; a primary that cannot be
\* flushed fails the serve, and the waiters' outcomes go with it.
Outcomes(r, cl) ==
    Reply({w \in WaitersOf(r) : waiter[w].pc = "ok"}, Reply({w \in WaitersOf(r) : waiter[w].pc = "err"}, cl, "Error"), "Complete")
serve_finish(r) ==
    /\ task[r].pc = "join" /\ Joined(r)
    /\ task[r].gone \/ Sock(r) # "stuck"
    /\ IF ~task[r].gone /\ Sock(r) = "dead" /\ task[r].q # <<>>
       THEN client' = Reply(WaitersOf(r), Reply({r}, client, "Error"), "Dropped")
       ELSE client' = Outcomes(r, Reply({r}, IF task[r].gone THEN client
                                             ELSE [client EXCEPT ![r] = Written(@, task[r].q)], "Complete"))
    /\ task' = [task EXCEPT ![r] = Finished(@)]
    /\ Quiet /\ TaskOnly /\ UNCHANGED <<pool, conn, bcast, waiter>>

--------------------------------------------------------------------------
(* A waiter's write task: it copies the broadcast to its own socket; more  *)
(* frames behind than the channel holds, and it has lagged.                *)

waiter_write(r, w) ==
    /\ w \in WaitersOf(r) /\ waiter[w].pc = "recv"
    /\ LET behind == Len(bcast[r].log) - waiter[w].pos
       IN  IF behind > BroadcastCapacity \/ (behind > 0 /\ Sock(w) = "dead")
           THEN waiter' = [waiter EXCEPT ![w].pc = "err"] /\ UNCHANGED client
           ELSE IF behind > 0
           THEN /\ Sock(w) = "ok"
                /\ client' = [client EXCEPT ![w].wire = Append(@, bcast[r].log[waiter[w].pos + 1])]
                /\ waiter' = [waiter EXCEPT ![w].pos = @ + 1]
           ELSE /\ ~bcast[r].open
                /\ waiter' = [waiter EXCEPT ![w].pc = "ok"] /\ UNCHANGED client
    /\ Quiet /\ TaskOnly /\ UNCHANGED <<pool, conn, task, bcast>>

--------------------------------------------------------------------------
(* EXPLAIN: the whole answer is read before the client is written to, and  *)
(* an error of the cache database is part of it.                           *)

ExplainAnswer(r) == <<Frame("RowDescription", r), Frame("CommandComplete", r), Frame("ReadyForQuery", "client")>>
explain_collect(r) ==
    /\ task[r].pc = "send" /\ Request[r].kind = "explain"
    /\ \/ Quiet /\ task' = [task EXCEPT ![r].pc = "explain"]
       \/ Faults("stall") /\ task' = [task EXCEPT ![r].pc = "explain", ![r].poisoned = TRUE]
    /\ TaskOnly /\ UNCHANGED <<pool, conn, bcast, waiter, client>>
handle_explain_request(r) ==
    /\ task[r].pc = "explain" /\ Sock(r) # "stuck"
    /\ client' = Reply({r}, IF Sock(r) = "ok" THEN [client EXCEPT ![r] = Written(@, ExplainAnswer(r))] ELSE client,
                       "Complete")
    /\ pool' = IF ~task[r].poisoned /\ Up(Served, "serve")
               THEN [pool EXCEPT !.idle = Append(@, task[r].conn)] ELSE Discard(pool)
    /\ task' = [task EXCEPT ![r] = Finished(@)]
    /\ Quiet /\ TaskOnly /\ UNCHANGED <<conn, bcast, waiter>>

--------------------------------------------------------------------------
(* Clients that stop reading, resume, or go away.                          *)

SocketOnly == UNCHANGED <<serve_rx, loop, pool, rec, control, conn, task, bcast, waiter>>
ClientSticks(c) == Sock(c) = "ok" /\ Faults("stick") /\ client' = [client EXCEPT ![c].sock = "stuck"] /\ SocketOnly
ClientResumes(c) == Sock(c) = "stuck" /\ Quiet /\ client' = [client EXCEPT ![c].sock = "ok"] /\ SocketOnly
ClientDies(c) == Sock(c) # "dead" /\ Faults("die") /\ client' = [client EXCEPT ![c].sock = "dead"] /\ SocketOnly

ServeNext ==
    \/ loop_receive \/ recycle_tick \/ pool_shrink_check \/ pool_shrink_withdraw \/ pool_shrink_park
    \/ loop_acquire \/ loop_teardown
    \/ reconcile_cancel \/ reconcile_signal \/ reconcile_tick \/ reconcile_fill \/ reconcile_dial_fails
    \/ reconcile_send \/ reconcile_add \/ serve_pool_controller \/ recycle_wanted
    \/ \E r \in Requests :
          \/ pool_serve(r) \/ serve_query_send(r) \/ serve_query_send_fails(r) \/ frame_apply(r) \/ frame_missing(r)
          \/ client_write(r) \/ failure_resolve(r) \/ failure_write(r) \/ serve_release(r) \/ serve_release_failed(r)
          \/ serve_finish(r) \/ explain_collect(r) \/ handle_explain_request(r)
    \/ \E r \in Requests, w \in Waiters : waiter_write(r, w)
    \/ \E c \in Clients : ClientSticks(c) \/ ClientResumes(c) \/ ClientDies(c)
=============================================================================
