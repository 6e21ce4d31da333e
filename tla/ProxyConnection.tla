-------------------------- MODULE ProxyConnection --------------------------
(***************************************************************************)
(* One client connection of the proxy (proxy/connection) as operators on   *)
(* its ConnectionState: the transaction block and its isolation level, the *)
(* search path, the queries the proxy injects and the intercepts that      *)
(* swallow their responses, and what a message from the origin changes.    *)
(* ProxyExtended adds the extended protocol; ProxySession is the loop.     *)
(***************************************************************************)
EXTENDS WriteLog, EgressQueue

Unknown == "Unknown"
ReadCommitted == "ReadCommitted"
Serializable == "Serializable"
Levels == {ReadCommitted, Serializable}
NoLevel == ""

-----------------------------------------------------------------------------
(* What the analysis of a statement's text says of it. *)

NoRelation == [schema |-> NoSchema, name |-> ""]
NoWrite == [scope |-> "None", relation |-> NoRelation, rows |-> {}]
ConnectionWrite == [NoWrite EXCEPT !.scope = "Connection"]

\* The effects of a statement the proxy cannot classify (StatementEffects::unknown),
\* of one that does nothing the proxy tracks, and of a two-statement message.
NoEffects == [write |-> NoWrite, scope |-> "None", level |-> NoLevel, begins |-> FALSE]
UnknownEffects == [NoEffects EXCEPT !.write = ConnectionWrite, !.scope = "SessionUnknown"]
MultipleStatements == [NoEffects EXCEPT !.write = ConnectionWrite]

\* A statement: what it reads or writes, where its values are parameters the
\* Bind gives the rows.
Blank == [kind |-> "", relation |-> NoRelation, relations |-> {}, rows |-> {}, parameter |-> FALSE,
          level |-> NoLevel, path |-> ""]

\* The effects by kind of statement; only the forwarded kinds have any.
effects(stmt) ==
    CASE stmt.kind \in {"Rows", "Table"} ->
            [NoEffects EXCEPT !.write = [scope |-> stmt.kind, relation |-> stmt.relation, rows |-> stmt.rows]]
      [] stmt.kind = "Call" -> MultipleStatements
      [] stmt.kind = "FunctionCall" -> UnknownEffects
      [] stmt.kind = "PrepareTransaction" ->
            [NoEffects EXCEPT !.write = [NoWrite EXCEPT !.scope = "ConnectionUnstampable"]]
      [] stmt.kind = "Begin" ->
            [NoEffects EXCEPT !.scope = IF stmt.level = NoLevel THEN "None" ELSE "Transaction",
                              !.level = stmt.level, !.begins = TRUE]
      [] stmt.kind = "CommitChain" -> [NoEffects EXCEPT !.begins = TRUE]
      [] stmt.kind = "SetTransaction" -> [NoEffects EXCEPT !.scope = "Transaction", !.level = stmt.level]
      [] stmt.kind = "SetDefault" -> [NoEffects EXCEPT !.scope = "SessionDefault", !.level = stmt.level]
      [] stmt.kind \in {"ResetAll", "DiscardAll"} -> [NoEffects EXCEPT !.scope = "SessionUnknown"]
      [] OTHER -> NoEffects

\* search_path_mutations_raw: the statement may change the search path, and
\* whether a SHOW may ride along with it.
mutates(stmt) ==
    stmt.kind \in {"SetPath", "ResetAll", "DiscardAll", "Commit", "CommitChain", "Rollback"}
piggybackable(stmt) == mutates(stmt) /\ stmt.kind # "DiscardAll"

-----------------------------------------------------------------------------
(* Transaction state and isolation level (connection/transaction_isolation.rs). *)

in_transaction(s) == s.transaction_status # "Idle"

forwarding_into_block(s) == in_transaction(s) \/ s.begins_forwarded > 0

transaction_isolation_apply(s, level, begins) ==
    CASE level = ReadCommitted -> s
      [] level # ReadCommitted /\ begins -> [s EXCEPT !.pending_block_isolation = level]
      [] level # ReadCommitted /\ ~begins ->
            [s EXCEPT !.block_isolation = IF forwarding_into_block(s) THEN level ELSE @]

session_isolation_set(s, state) ==
    [s EXCEPT !.session_isolation = state,
              !.isolation_mutated_in_block = @ \/ forwarding_into_block(s)]

isolation_effects_apply(s, e) ==
    LET applied ==
            CASE e.scope = "None" -> s
              [] e.scope = "Transaction" -> transaction_isolation_apply(s, e.level, e.begins)
              [] e.scope = "SessionUnknown" \/ (e.scope = "SessionDefault" /\ e.level = ReadCommitted) ->
                    session_isolation_set(s, Unknown)
              [] e.scope = "SessionDefault" /\ e.level # ReadCommitted ->
                    session_isolation_set(s, e.level)
    IN  [applied EXCEPT !.begins_forwarded = IF e.begins THEN @ + 1 ELSE @]

forwarded_effects_apply(s, e) ==
    isolation_effects_apply(
        [s EXCEPT !.write_log = IF e.write.scope = "None" THEN @ ELSE record(@, e.write)], e)

transaction_serve_check(s) ==
    \/ s.transaction_status = "Idle"
    \/ s.transaction_status = "InTransaction" /\ s.block_isolation = ReadCommitted


block_enter(s) ==
    [s EXCEPT !.block_isolation = IF s.pending_block_isolation = NoLevel
                                  THEN s.session_isolation ELSE s.pending_block_isolation,
              !.pending_block_isolation = NoLevel,
              !.begins_forwarded = Max({@ - 1, 0})]

block_exit(s) ==
    [s EXCEPT !.block_isolation = Unknown,
              !.session_isolation = IF s.isolation_mutated_in_block THEN Unknown ELSE @,
              !.isolation_mutated_in_block = FALSE]

isolation_block_transition(s, was_in_block) ==
    CASE ~was_in_block /\ in_transaction(s) -> block_enter(s)
      [] was_in_block /\ ~in_transaction(s) -> block_exit(s)
      [] OTHER -> s

-----------------------------------------------------------------------------
(* Injected queries (transaction_isolation.rs, relay.rs, search_path_intercept.rs). *)

\* A message of the frontend protocol: the request it belongs to, its type, the
\* statement it carries (for Bind and Execute: the one the client means), the
\* statement name, a Bind's values, whether they decode and whether one format
\* covers all results, and whether a SHOW search_path was appended.
Unnamed == ""
Message(r, type, stmt) ==
    [of |-> r, type |-> type, stmt |-> stmt, name |-> Unnamed, rows |-> {}, decodable |-> TRUE,
     uniform |-> TRUE, show |-> FALSE]

Probe(kind) == Message(Nobody, "Query", [Blank EXCEPT !.kind = kind])

Inject(s, intercept) ==
    [s EXCEPT !.origin_intercept = intercept, !.origin_write_buf = Append(@, Probe(intercept))]

origin_intercept_idle(s) == s.origin_intercept = "None"

isolation_probe_needed(s) == s.session_isolation = Unknown /\ ~in_transaction(s)

isolation_probe_inject(s) ==
    IF isolation_probe_needed(s) /\ origin_intercept_idle(s)
    THEN Inject(s, "DefaultTransactionIsolation") ELSE s

session_discovery_inject(s) ==
    IF origin_intercept_idle(s) /\ s.search_path_state = Unknown THEN Inject(s, "SearchPath")
    ELSE isolation_probe_inject(s)

write_log_probe_ready(s) ==
    /\ s.proxy_mode = "Read" /\ ~in_transaction(s)
    /\ origin_intercept_idle(s) /\ s.origin_write_buf = <<>> /\ origin_all_sealed(s.egress)

\* The watermark is None while the cache is down.
write_log_purge(s, watermark) ==
    [s EXCEPT !.write_log = IF watermark = None THEN @ ELSE purge(@, watermark)]

write_log_maintain(s, watermark) ==
    LET purged == write_log_purge(s, watermark)
        seq == stamp_seq(purged.write_log)
    IN  IF is_empty(s.write_log) \/ ~write_log_probe_ready(purged) \/ seq = None THEN purged
        ELSE [Inject(purged, "WalLsnProbe") EXCEPT !.stamp_seq = seq]

search_path_mark_unknown(s) == [s EXCEPT !.search_path_state = Unknown, !.describe_cache = {}]

rewrites(s, stmt) == ~s.search_path_auto_reported /\ piggybackable(stmt) /\ origin_intercept_idle(s)

search_path_inspect_query(s, stmt) ==
    LET marked == IF mutates(stmt) THEN search_path_mark_unknown(s) ELSE s
    IN  IF s.search_path_auto_reported THEN s
        ELSE [marked EXCEPT !.origin_intercept = IF rewrites(s, stmt) THEN "PreShow" ELSE @]

\* The states of TrailingShowSearchPath are intercepts of their own.
\* Swallows, relaying the answer to an injected Parse.
swallows_no_parse(s, msg) ==
    \/ s.origin_intercept \in {"SearchPath", "DefaultTransactionIsolation", "WalLsnProbe"}
    \/ s.origin_intercept = "InShow" /\ msg.type \in {"Row", "Complete"}

Swallows(s, msg) ==
    \/ s.origin_intercept \in {"SearchPath", "DefaultTransactionIsolation", "WalLsnProbe"}
    \/ s.origin_intercept = "InShow" /\ msg.type \in {"Row", "Complete"}
    \/ s.origin_intercept = "LazyParseInline" /\ msg.type = "ParseComplete"

\* Anything but the ParseComplete drops the intercept.
lazy_parse_handle(s, msg) ==
    LET done == [s EXCEPT !.origin_intercept = "None"]
    IN  IF msg.type = "ParseComplete" /\ s.prepared[s.lazy_statement].known
        THEN [done EXCEPT !.prepared[s.lazy_statement].origin_prepared = TRUE] ELSE done

trailing_show_search_path_handle(s, msg) ==
    CASE s.origin_intercept = "PreShow" /\ msg.type = "Complete" -> [s EXCEPT !.origin_intercept = "InShow"]
      [] s.origin_intercept = "PreShow" /\ msg.type = "Error" -> [s EXCEPT !.origin_intercept = "ShowError"]
      [] s.origin_intercept = "InShow" /\ msg.type = "Row" ->
            [s EXCEPT !.search_path_state = msg.text, !.search_path_just_piggyback_resolved = TRUE]
      [] s.origin_intercept \in {"InShow", "ShowError"} /\ msg.type = "Ready" ->
            [s EXCEPT !.origin_intercept = "None"]
      [] OTHER -> s

\* A row that is not an isolation level, or not an LSN, is ignored.
probe_row(s, msg) ==
    CASE s.origin_intercept = "SearchPath" -> [s EXCEPT !.search_path_state = msg.text]
      [] s.origin_intercept = "DefaultTransactionIsolation" ->
            [s EXCEPT !.session_isolation = IF msg.text \in Levels THEN msg.text ELSE @]
      [] s.origin_intercept = "WalLsnProbe" ->
            [s EXCEPT !.write_log = IF msg.lsn = None THEN @ ELSE stamp(@, s.stamp_seq, msg.lsn)]

origin_intercept_handle(s, msg) ==
    CASE s.origin_intercept = "None" -> s
      [] s.origin_intercept = "LazyParseInline" -> lazy_parse_handle(s, msg)
      [] s.origin_intercept \in {"PreShow", "InShow", "ShowError"} -> trailing_show_search_path_handle(s, msg)
      [] s.origin_intercept \in {"SearchPath", "DefaultTransactionIsolation", "WalLsnProbe"} ->
            CASE msg.type = "Row" -> probe_row(s, msg)
              [] msg.type = "Ready" -> [s EXCEPT !.origin_intercept = "None"]
              [] OTHER -> s

-----------------------------------------------------------------------------
(* Messages from the origin (connection/relay.rs). *)

NoPortal == [bound |-> FALSE, name |-> Unnamed, rows |-> {}, decodable |-> TRUE, uniform |-> TRUE]

search_path_reset_needed(s, was_in_transaction) ==
    /\ was_in_transaction /\ ~in_transaction(s)
    /\ ~s.search_path_just_piggyback_resolved /\ ~s.search_path_auto_reported

ready_for_query_handle(s, status) ==
    LET was == in_transaction(s)
        now == [s EXCEPT !.transaction_status = status,
                         !.portal = IF status = "Idle" THEN NoPortal ELSE @]
        path == IF search_path_reset_needed(now, was) THEN search_path_mark_unknown(now) ELSE now
    IN  session_discovery_inject(
            isolation_block_transition([path EXCEPT !.search_path_just_piggyback_resolved = FALSE], was))

parameter_status_handle(s, value) ==
    [s EXCEPT !.search_path_state = value, !.search_path_auto_reported = TRUE]

origin_message_relay(s, msg, watermark) ==
    LET appended == origin_append(s.egress, msg)
    IN  IF msg.type # "Ready" THEN [s EXCEPT !.egress = appended]
        ELSE write_log_maintain([s EXCEPT !.egress = origin_seal(appended)], watermark)

intercept_ready_followup(s, msg, watermark) ==
    IF msg.type = "Ready" /\ origin_intercept_idle(s)
    THEN write_log_maintain(isolation_probe_inject(s), watermark) ELSE s

\* Responses to forwarded Parses and Describes, in the order they were forwarded.
parse_complete(s) ==
    IF s.extended.parses = <<>> THEN s
    ELSE LET name == Head(s.extended.parses)
         IN  [s EXCEPT !.extended.parses = Tail(@),
                       !.prepared[name].origin_prepared = @ \/ s.prepared[name].known]

parameter_description_received(s) ==
    IF s.extended.describes = <<>> \/ ~s.prepared[Head(s.extended.describes)].known THEN s
    ELSE [s EXCEPT !.prepared[Head(s.extended.describes)].described = TRUE]

describe_cache_populate(s, name) ==
    IF s.prepared[name].known /\ s.prepared[name].sql.kind = "Read" /\ s.prepared[name].described
    THEN [s EXCEPT !.describe_cache = @ \union {s.prepared[name].sql}] ELSE s

\* RowDescription, or NoData.
row_description_received(s) ==
    IF s.extended.describes = <<>> THEN s
    ELSE describe_cache_populate([s EXCEPT !.extended.describes = Tail(@)], Head(s.extended.describes))

origin_message_handle(s, msg, watermark) ==
    LET intercepted == origin_intercept_handle(s, msg)
        tracked == CASE msg.type = "Parameter" -> parameter_status_handle(intercepted, msg.text)
                     [] msg.type = "ParameterDescription" -> parameter_description_received(intercepted)
                     [] msg.type = "RowDescription" -> row_description_received(intercepted)
                     [] msg.type = "ParseComplete" -> parse_complete(intercepted)
                     [] msg.type = "Ready" -> ready_for_query_handle(intercepted, msg.text)
                     [] OTHER -> intercepted
    IN  IF Swallows(s, msg) THEN intercept_ready_followup(intercepted, msg, watermark)
        ELSE origin_message_relay(tracked, msg, watermark)

-----------------------------------------------------------------------------
(* Simple queries from the client (connection/relay.rs). *)

origin_dispatch(s, msg) ==
    [s EXCEPT !.egress = origin_open(@, msg.of), !.origin_write_buf = Append(@, msg)]

cache_dispatch_possible(s) == s.transaction_status # "Failed"

\* A cacheable read and an explain are queued; the rest is forwarded.
Queued(stmt) == stmt.kind \in {"Read", "Explain"}

simple_query_handle(s, msg) ==
    LET inspected == search_path_inspect_query(s, msg.stmt)
        show == rewrites(s, msg.stmt)
        e == IF show THEN MultipleStatements ELSE effects(msg.stmt)
    IN  IF Queued(msg.stmt) /\ cache_dispatch_possible(s)
        THEN [s EXCEPT !.egress = cache_push(@, msg.of, msg), !.proxy_mode = "OriginDrain",
                       !.extended.is_extended = FALSE]
        ELSE origin_dispatch(forwarded_effects_apply(inspected, e), [msg EXCEPT !.show = show])

\* A fast-path function call reserves no slot.
function_call_handle(s, msg) ==
    [forwarded_effects_apply(s, UnknownEffects) EXCEPT !.origin_write_buf = Append(@, msg)]
=============================================================================
