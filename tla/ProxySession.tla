---------------------------- MODULE ProxySession ----------------------------
(***************************************************************************)
(* One client connection from end to end: the client, the proxy's loop     *)
(* (handle_connection and its select loops) over the operators of          *)
(* ProxyConnection and ProxyExtended, the origin server, and the cache as  *)
(* far as the connection sees it: its settled watermark and the outcome of *)
(* a query handed to it.                                                   *)
(***************************************************************************)
EXTENDS ProxyExtended, OriginServer

CONSTANTS
    Profiles,        \* the connections to explore, by name; see below
    Names,           \* the names of prepared statements, Unnamed among them
    MaxRequests,     \* requests a client sends
    Faults           \* subset of {"cache_down", "abandon", "dropped", "prepared"}

(***************************************************************************)
(* A profile is the origin's version ("reported": PG 18 reports every      *)
(* search_path change; "probed": it must be asked), the requests the       *)
(* client sends (a sequence of messages each, a simple query or a group    *)
(* that ends with Sync), how many it sends ahead of their answers (depth), *)
(* whether it sends only while the proxy has no query of its own at the    *)
(* origin (patient), and the default isolation level of the client's role. *)
(***************************************************************************)

VARIABLES
    profile,         \* the connection's profile, by name
    conn,            \* ConnectionState
    wire,            \* bytes on the socket to the origin
    resp,            \* messages on the socket from the origin
    origin,          \* the origin session's state
    settled,         \* the cache's settled watermark
    sent,            \* requests sent
    client,          \* what the client still sends and what it waits for
    closed           \* the connection was closed

vars == <<profile, conn, wire, resp, origin, settled, sent, client, closed>>

-----------------------------------------------------------------------------
(* The client (external). *)

ClientStart ==
    [script |-> <<>>, owed |-> <<>>, flushed |-> FALSE, prepared |-> {}, in_block |-> FALSE, matched |-> TRUE]

\* The answers a message is due, in order.
Due(msg) ==
    CASE msg.type \in {"Query", "FunctionCall"} -> <<"Complete", "Ready">>
      [] msg.type = "Parse" -> <<"ParseComplete">>
      [] msg.type = "Bind" -> <<"BindComplete">>
      [] msg.type = "DescribeS" -> <<"ParameterDescription", "RowDescription">>
      [] msg.type = "DescribeP" -> <<"RowDescription">>
      [] msg.type = "Execute" -> <<"Complete">>
      [] msg.type = "Close" -> <<"CloseComplete">>
      [] msg.type = "Sync" -> <<"Ready">>
      [] msg.type = "Flush" -> <<>>

Owed(msg) == [i \in DOMAIN Due(msg) |-> [of |-> msg.of, type |-> Due(msg)[i], name |-> msg.name]]

Readies(owed) == {i \in DOMAIN owed : owed[i].type = "Ready"}

\* After an error the client waits for the next readiness; what it had left to
\* send shrinks to its Sync.
ErrorRead(c) ==
    LET ready == Readies(c.owed)
    IN  IF ready # {} THEN [c EXCEPT !.owed = SubSeq(@, Min(ready), Len(@))]
        ELSE [c EXCEPT !.owed = <<>>, !.script = IF @ = <<>> THEN @ ELSE <<Last(@)>>]

Read(c, msg) ==
    IF msg.type = "Parameter" THEN c
    ELSE IF c.owed = <<>> \/ Head(c.owed).of # msg.of THEN [c EXCEPT !.matched = FALSE]
    ELSE LET due == Head(c.owed).type
         IN  CASE msg.type = "Error" /\ due # "Ready" -> ErrorRead(c)
               [] msg.type = "Row" /\ due = "Complete" -> c
               [] msg.type = due ->
                    [c EXCEPT !.owed = Tail(@),
                              !.prepared = IF due = "ParseComplete" THEN @ \union {Head(c.owed).name} ELSE @]
               [] OTHER -> [c EXCEPT !.matched = FALSE]

ReadAll(c, msgs) == FoldLeft(Read, c, msgs)

StepsOf(request) == {request[i] : i \in DOMAIN request}
Runs(request) == {msg.stmt : msg \in {m \in StepsOf(request) : m.type \in {"Query", "Execute"}}}
Opens(request) == \E stmt \in Runs(request) : stmt.kind = "Begin"
Closes(request) == \E stmt \in Runs(request) : EndsBlock(stmt)

\* The client opens a block only outside one and ends one only inside; it
\* prepares a name it has not prepared, uses or closes one it has, and binds the
\* unnamed statement in the request that parses it.
MaySend(request) ==
    /\ sent < MaxRequests /\ client.script = <<>>
    /\ Cardinality(Readies(client.owed)) < Profiles[profile].depth
    /\ Profiles[profile].patient =>
          /\ origin_intercept_idle(conn) /\ conn.origin_write_buf = <<>> /\ wire = <<>> /\ resp = <<>>
    /\ Opens(request) => ~client.in_block
    /\ (Closes(request) \/ \E stmt \in Runs(request) : stmt.kind = "SetTransaction") =>
          client.in_block \/ Opens(request)
    /\ \A msg \in StepsOf(request) :
          /\ msg.type = "Parse" /\ msg.name # Unnamed => msg.name \notin client.prepared
          /\ msg.type \in {"Bind", "DescribeS", "Close"} =>
                \/ msg.name \in client.prepared
                \/ \E other \in StepsOf(request) : other.type = "Parse" /\ other.name = msg.name

InBlock(request) ==
    IF \E stmt \in Runs(request) : stmt.kind = "CommitChain" THEN TRUE
    ELSE (client.in_block \/ Opens(request)) /\ ~Closes(request)

-----------------------------------------------------------------------------
(* The origin and the cache's clock. *)

\* The origin processes the next message.
origin_execute ==
    /\ wire # <<>> /\ ~closed
    /\ LET msg == Head(wire)
       IN  \E ok \in BOOLEAN :
             LET after == Process(origin, msg, ok)
                 sends == Sends(after) \/ msg.type = "Flush"
             IN  /\ Possible(origin, msg, ok)
                 /\ origin' = IF sends THEN [after EXCEPT !.out = <<>>] ELSE after
                 /\ resp' = IF sends THEN resp \o after.out ELSE resp
    /\ wire' = Tail(wire)
    /\ UNCHANGED <<profile, conn, settled, sent, client, closed>>

\* Another session commits what this one prepared.
commit_prepared ==
    /\ "prepared" \in Faults
    /\ \E w \in origin.writes : w.lsn = None
    /\ origin' = [origin EXCEPT
                     !.wal = @ + 1,
                     !.writes = {[w EXCEPT !.lsn = IF @ = None THEN origin.wal + 1 ELSE @] : w \in @}]
    /\ UNCHANGED <<profile, conn, wire, resp, settled, sent, client, closed>>

\* The cache applies one more commit.
cdc_settle ==
    /\ settled < origin.wal
    /\ settled' = settled + 1
    /\ origin' = [origin EXCEPT !.writes = {w \in @ : w.lsn # settled + 1}]
    /\ UNCHANGED <<profile, conn, wire, resp, sent, client, closed>>

-----------------------------------------------------------------------------
(* The connection's loop. *)

Reading == conn.proxy_mode = "Read" /\ ~closed
\* connection_select_drain runs until the cache slot is at the head.
Draining == conn.proxy_mode = "OriginDrain" /\ ~cache_ready(conn.egress) /\ ~closed
Serving == conn.proxy_mode = "Serving" /\ ~closed

Watermarks == {settled} \union (IF "cache_down" \in Faults THEN {None} ELSE {})

\* The client starts a request.
client_request(request) ==
    /\ ~closed /\ MaySend(request)
    /\ sent' = sent + 1
    /\ client' = [client EXCEPT !.in_block = InBlock(request),
                                !.script = [i \in DOMAIN request |-> [request[i] EXCEPT !.of = sent + 1]]]
    /\ UNCHANGED <<profile, conn, wire, resp, origin, settled, closed>>

\* The proxy reads a message of it; past a Flush the client waits for its answers.
handle_client_message ==
    /\ Reading /\ client.script # <<>> /\ (client.flushed => client.owed = <<>>)
    /\ LET msg == Head(client.script)
       IN  /\ conn' = client_message_handle(conn, msg)
           /\ client' = [client EXCEPT !.script = Tail(@), !.owed = @ \o Owed(msg), !.flushed = msg.type = "Flush",
                                       !.prepared = IF msg.type = "Close" THEN @ \ {msg.name} ELSE @]
    /\ UNCHANGED <<profile, wire, resp, origin, settled, sent, closed>>

handle_origin_message ==
    /\ Reading \/ Draining \/ Serving
    /\ resp # <<>>
    /\ \E watermark \in Watermarks : conn' = origin_message_handle(conn, Head(resp), watermark)
    /\ resp' = Tail(resp)
    /\ UNCHANGED <<profile, wire, origin, settled, sent, client, closed>>

origin_write_flush ==
    /\ Reading \/ Draining \/ Serving
    /\ conn.origin_write_buf # <<>>
    /\ wire' = Append(wire, Head(conn.origin_write_buf))
    /\ conn' = [conn EXCEPT !.origin_write_buf = Tail(@)]
    /\ UNCHANGED <<profile, resp, origin, settled, sent, client, closed>>

client_egress_flush ==
    /\ Reading \/ Draining
    /\ has_writable(conn.egress)
    /\ client' = ReadAll(client, Head(conn.egress).buf)
    /\ conn' = [conn EXCEPT !.egress = advance(@)]
    /\ UNCHANGED <<profile, wire, resp, origin, settled, sent, closed>>

\* An explain needs neither the search path nor the write log.
GatesPass(s, stmt) ==
    (s.search_path_state # Unknown \/ stmt.kind = "Explain") /\ transaction_serve_check(s)

WriteLogServes(s, stmt, registered) ==
    \/ stmt.kind = "Explain"
    \/ decide(s.write_log, stmt, registered /\ read_column_ranges(s.write_log, stmt))

\* The cache query at the head of the queue passes the gates and is dispatched,
\* or is forwarded; a cache that is down forwards it too, and from then on no
\* batch is tried.
cache_query_dispatch ==
    /\ conn.proxy_mode = "OriginDrain" /\ cache_ready(conn.egress) /\ ~closed
    /\ LET stmt == Head(conn.egress).buf[1].stmt
           taken == [conn EXCEPT !.egress = cache_dispatch(@)]
       IN  IF ~GatesPass(conn, stmt) THEN conn' = forward_current_and_rest(taken)
           ELSE \E watermark \in Watermarks, registered \in BOOLEAN :
                  LET purged == write_log_purge(taken, watermark)
                  IN  conn' = CASE ~WriteLogServes(purged, stmt, registered) -> forward_current_and_rest(purged)
                                [] WriteLogServes(purged, stmt, registered) /\ watermark = None ->
                                      forward_current_and_rest([purged EXCEPT !.proxy_status = "Degraded"])
                                [] OTHER -> [purged EXCEPT !.proxy_mode = "Serving"]
    /\ UNCHANGED <<profile, wire, resp, origin, settled, sent, client, closed>>

\* The worker's reply: it answered the client, or hands the query back, or (a
\* serve that failed inside a block, a cache that died) ends the connection.
handle_cache_outcome ==
    /\ Serving
    /\ \/ /\ conn' = cache_complete(conn)
          /\ client' = ReadAll(client, ServedResponse(conn)) /\ UNCHANGED closed
       \/ /\ conn' = forward_current_and_rest(conn)
          /\ UNCHANGED <<client, closed>>
       \/ /\ "abandon" \in Faults /\ in_transaction(conn)
          /\ conn' = [conn EXCEPT !.egress = cache_done(@)]
          /\ closed' = TRUE /\ UNCHANGED client
       \/ /\ "dropped" \in Faults
          /\ closed' = TRUE /\ UNCHANGED <<conn, client>>
    /\ UNCHANGED <<profile, wire, resp, origin, settled, sent>>

-----------------------------------------------------------------------------
(* The connection just after the origin's first ReadyForQuery was relayed. *)

ConnectionStart(reported) ==
    [egress |-> <<>>, origin_write_buf |-> <<>>, origin_intercept |-> "None", stamp_seq |-> None,
     lazy_statement |-> Unnamed, transaction_status |-> "Idle", proxy_mode |-> "Read", proxy_status |-> "Normal",
     session_isolation |-> Unknown, block_isolation |-> Unknown, pending_block_isolation |-> NoLevel,
     begins_forwarded |-> 0, isolation_mutated_in_block |-> FALSE,
     search_path_state |-> IF reported THEN InitialPath ELSE Unknown,
     search_path_auto_reported |-> reported, search_path_just_piggyback_resolved |-> FALSE,
     write_log |-> EmptyLog, prepared |-> [name \in Names |-> NoStatement], portal |-> NoPortal,
     describe_cache |-> {}, flush_describe_pending |-> FALSE, extended |-> EmptyExtended]

Init ==
    /\ profile \in DOMAIN Profiles
    /\ LET reported == Profiles[profile].version = "reported"
       IN  /\ conn = ready_for_query_handle(ConnectionStart(reported), "Idle")
           /\ origin = OriginStart(reported, Profiles[profile].role_default, Names)
    /\ wire = <<>> /\ resp = <<>> /\ settled = 0 /\ sent = 0 /\ client = ClientStart /\ closed = FALSE

Next ==
    \/ \E request \in Profiles[profile].requests : client_request(request)
    \/ handle_client_message \/ handle_origin_message \/ origin_write_flush \/ client_egress_flush
    \/ cache_query_dispatch \/ handle_cache_outcome
    \/ origin_execute \/ commit_prepared \/ cdc_settle

Spec == Init /\ [][Next]_vars

-----------------------------------------------------------------------------
Intercepts ==
    {"None", "SearchPath", "DefaultTransactionIsolation", "WalLsnProbe", "PreShow", "InShow", "ShowError",
     "LazyParseInline"}

TypeOK ==
    /\ profile \in DOMAIN Profiles
    /\ conn.origin_intercept \in Intercepts
    /\ conn.transaction_status \in {"Idle", "InTransaction", "Failed"}
    /\ conn.proxy_mode \in {"Read", "OriginDrain", "Serving"}
    /\ conn.session_isolation \in Levels \union {Unknown}
    /\ conn.block_isolation \in Levels \union {Unknown}
    /\ conn.pending_block_isolation \in Levels \union {NoLevel}
    /\ conn.begins_forwarded \in 0..MaxRequests
    /\ \A r \in Relations : Len(conn.write_log.tables[r].waiting) <= WAITING_TIERS_MAX
    /\ sent \in 0..MaxRequests /\ settled \in 0..origin.wal

\* What the client reads is, message for message, what it is due: every answer
\* belongs to the oldest request still unanswered and has the type the protocol
\* asks for next.  Responses from the cache, from the origin and made up by the
\* proxy are in request order, none is swallowed by an intercept, and no byte of
\* an injected query or Parse reaches the client.
ResponsesMatch == TypeOK /\ client.matched

Touches(w, read) ==
    \/ w.any
    \/ /\ \E relation \in read.relations : Table(origin, relation) = w.table
       /\ w.rows \intersect read.rows # {}

ServingRead == Serving /\ Head(conn.egress).buf[1].stmt.kind = "Read"

\* A read is handed to the cache only when every earlier write of the connection
\* that it could see was rolled back or is already applied to the cache: none is
\* still on its way, uncommitted, prepared, or past the settled watermark.
ReadYourWrites ==
    ServingRead =>
        /\ \A i \in DOMAIN wire : wire[i].of = Nobody
        /\ \A i \in DOMAIN conn.origin_write_buf : conn.origin_write_buf[i].of = Nobody
        /\ \A w \in origin.writes : ~Touches(w, Head(conn.egress).buf[1].stmt)


\* An Execute runs the statement its client meant: a batch served by the cache
\* reads the statement and the values of its own Bind, and a Bind or an Execute
\* that reaches the origin finds there what the client prepared, although the
\* proxy answers some Parses itself and drops some Closes.
RunsWhatWasAsked ==
    /\ Serving /\ conn.extended.is_extended =>
          Head(conn.egress).buf[1].stmt = Last(conn.extended.pipeline.seg.msgs).stmt
    /\ wire # <<>> /\ ~origin.skip =>
          LET msg == Head(wire)
          IN  /\ msg.type = "Bind" => origin.stmts[msg.name].known
              /\ msg.type = "Execute" => origin.portal.known /\ origin.portal.sql = msg.stmt

\* Bytes are on their way, or the loop has something to do.
Moving ==
    \/ wire # <<>> \/ resp # <<>> \/ conn.origin_write_buf # <<>>
    \/ has_writable(conn.egress) \/ cache_ready(conn.egress) \/ Serving
    \/ Reading /\ client.script # <<>> /\ ~client.flushed

\* No request is stranded: while an answer is owed on an open connection, a
\* message is on its way to or from the origin, or a step of the loop is due.
\* A slot that nothing will ever seal, or a read behind one, would stop the
\* connection for good.
NoRequestStranded == client.owed # <<>> /\ ~closed => Moving
=============================================================================
