--------------------------- MODULE ProxyExtended ---------------------------
(***************************************************************************)
(* The extended query protocol of a connection (connection/extended.rs,    *)
(* extended_buffer.rs, cache_batch.rs, describe_synth.rs): Parse, Bind,    *)
(* Describe and Execute are buffered until Sync or Flush, an Execute       *)
(* snapshots what it runs, and Sync serves the batch from the cache one    *)
(* slot at a time, answers it locally, or forwards it.  The portal is the  *)
(* unnamed one.                                                            *)
(***************************************************************************)
EXTENDS ProxyConnection, SequencesExt

NoStatement == [known |-> FALSE, sql |-> Blank, described |-> FALSE, origin_prepared |-> FALSE]

EmptySegment ==
    [msgs |-> <<>>, has_parse |-> FALSE, has_bind |-> FALSE, describe |-> "None",
     parses |-> <<>>, describes |-> <<>>, dirty |-> FALSE]

EmptyBuffer == [active |-> FALSE, entries |-> <<>>, pending |-> EmptySegment]

NoCandidate == [is |-> FALSE, read |-> Blank, name |-> Unnamed, lazy_parse_needed |-> FALSE]

NoDispatch == [read |-> Blank, of |-> Nobody, seg |-> EmptySegment, emit_rfq |-> FALSE, lazy |-> Unnamed]

EmptyExtended ==
    [parses |-> <<>>, describes |-> <<>>, lazy |-> Unnamed, buffer |-> EmptyBuffer, batch |-> <<>>,
     pipeline |-> NoDispatch, is_extended |-> FALSE, closes |-> 0, group_origin_forwarded |-> FALSE]

-----------------------------------------------------------------------------
(* Statements, portals and the buffered segment. *)

statement_store(s, msg) ==
    LET fresh == [NoStatement EXCEPT !.known = TRUE, !.sql = msg.stmt]
    IN  [s EXCEPT !.prepared[msg.name] = IF msg.name = Unnamed \/ ~@.known THEN fresh ELSE @]

statement_close(s, name) == [s EXCEPT !.prepared[name] = NoStatement]

portal_store(s, msg) ==
    [s EXCEPT !.portal = [bound |-> TRUE, name |-> msg.name, rows |-> msg.rows,
                          decodable |-> msg.decodable, uniform |-> msg.uniform]]

Pending(s, msg, seg) ==
    [s EXCEPT !.extended.buffer.active = TRUE,
              !.extended.buffer.pending = [seg EXCEPT !.msgs = Append(@, msg)]]

search_path_parse_inspect(s, stmt) ==
    IF ~s.search_path_auto_reported /\ mutates(stmt) THEN search_path_mark_unknown(s) ELSE s

\* Only a statement that is not a SELECT is inspected.
statement_analyze(s, stmt) == IF Queued(stmt) THEN s ELSE search_path_parse_inspect(s, stmt)

handle_parse_message(s, msg) ==
    LET seg == s.extended.buffer.pending
    IN  Pending(statement_store(statement_analyze(s, msg.stmt), msg), msg,
                [seg EXCEPT !.dirty = @ \/ seg.has_parse, !.has_parse = TRUE, !.parses = Append(@, msg.name)])

handle_bind_message(s, msg) ==
    LET seg == s.extended.buffer.pending
    IN  Pending(portal_store(s, msg), msg, [seg EXCEPT !.dirty = @ \/ seg.has_bind, !.has_bind = TRUE])

\* A Describe of the statement (DescribeS) or of the portal (DescribeP).
handle_describe_message(s, msg) ==
    LET seg == s.extended.buffer.pending
    IN  Pending(s, msg,
                [seg EXCEPT !.dirty = @ \/ seg.describe # "None", !.describe = msg.type,
                            !.describes = IF msg.type = "DescribeS" THEN Append(@, msg.name) ELSE @])

\* The portal's statement with the portal's values.
Substituted(stmt, portal) ==
    IF stmt.parameter THEN [stmt EXCEPT !.rows = portal.rows, !.parameter = FALSE] ELSE stmt

\* A row-enumerable write whose values do not decode is a write of its table.
write_class_bind(class, portal) ==
    CASE class.scope # "Rows" -> class
      [] class.scope = "Rows" /\ portal.decodable -> class
      [] class.scope = "Rows" /\ ~portal.decodable -> [class EXCEPT !.scope = "Table"]

PortalStatement(s) == s.portal.bound /\ s.prepared[s.portal.name].known

execute_effects(s) ==
    LET stmt == s.prepared[s.portal.name].sql
        e == effects(Substituted(stmt, s.portal))
    IN  IF ~PortalStatement(s) THEN UnknownEffects
        ELSE IF stmt.parameter THEN [e EXCEPT !.write = write_class_bind(@, s.portal)] ELSE e

execute_cache_candidate(s, describe) ==
    LET statement == s.prepared[s.portal.name]
    IN  IF /\ PortalStatement(s) /\ s.portal.uniform /\ statement.sql.kind = "Read"
           /\ describe = "DescribeS" => statement.described
        THEN [is |-> TRUE, read |-> Substituted(statement.sql, s.portal), name |-> s.portal.name,
              lazy_parse_needed |-> ~statement.origin_prepared /\ s.portal.name # Unnamed]
        ELSE NoCandidate

\* The Execute seals the pending segment with its snapshot.
handle_execute_message(s, msg) ==
    LET pending == s.extended.buffer.pending
        entry == [prep |-> [pending EXCEPT !.msgs = Append(@, msg)], portal |-> s.portal.name,
                  candidate |-> execute_cache_candidate(s, pending.describe), effects |-> execute_effects(s)]
    IN  [s EXCEPT !.extended.buffer.active = TRUE, !.extended.buffer.pending = EmptySegment,
                  !.extended.buffer.entries = Append(@, entry)]

-----------------------------------------------------------------------------
(* Forwarding a buffer. *)

segments(buffer) == Append([i \in DOMAIN buffer.entries |-> buffer.entries[i].prep], buffer.pending)

parse_statements_all(buffer) == FlattenSeq([i \in DOMAIN segments(buffer) |-> segments(buffer)[i].parses])
describe_statements_all(buffer) == FlattenSeq([i \in DOMAIN segments(buffer) |-> segments(buffer)[i].describes])
bytes_concat(buffer) == FlattenSeq([i \in DOMAIN segments(buffer) |-> segments(buffer)[i].msgs])
any_has_parse(buffer) == \E i \in DOMAIN segments(buffer) : segments(buffer)[i].has_parse

ApplyEffects(s, entry) == forwarded_effects_apply(s, entry.effects)
buffer_effects(s, buffer) == FoldLeft(ApplyEffects, s, buffer.entries)

pending_statements_capture(s, buffer) ==
    [s EXCEPT !.extended.parses = parse_statements_all(buffer),
              !.extended.describes = describe_statements_all(buffer)]

forward_lazy_parse_install(s, name) ==
    IF name = Unnamed \/ ~origin_intercept_idle(s) \/ ~s.prepared[name].known \/ s.prepared[name].origin_prepared
    THEN s
    ELSE [s EXCEPT !.origin_intercept = "LazyParseInline", !.lazy_statement = name,
                   !.origin_write_buf =
                       Append(@, [Message(Nobody, "Parse", s.prepared[name].sql) EXCEPT !.name = name])]

\* forward_lazy_parse, left out.
forward_unprepared(s, buffer) == s

\* The statement of the first Execute, when no Parse is forwarded with it.
forward_lazy_parse(s, buffer) ==
    IF any_has_parse(buffer) \/ buffer.entries = <<>> \/ ~PortalStatement(s) THEN s
    ELSE forward_lazy_parse_install(s, s.portal.name)

\* Closes the buffer's place in front of a forwarded Close; reserves no slot.
extended_buffer_flush_to_origin(s) ==
    LET buffer == s.extended.buffer
        applied == pending_statements_capture(buffer_effects(s, buffer), buffer)
    IN  IF ~buffer.active THEN s
        ELSE [applied EXCEPT !.extended.buffer = EmptyBuffer,
                             !.origin_write_buf = @ \o bytes_concat(buffer)]

extended_buffer_forward_to_origin(s, buffer, trailing) ==
    LET applied == buffer_effects(forward_lazy_parse(s, buffer), buffer)
        captured == pending_statements_capture(applied, buffer)
    IN  [captured EXCEPT !.egress = origin_open(@, trailing.of),
                         !.origin_write_buf = Append(@ \o bytes_concat(buffer), trailing)]

-----------------------------------------------------------------------------
(* Serving a batch from the cache, one slot per Execute. *)

needs_lazy_parse(entry) == ~entry.prep.has_parse /\ entry.candidate.lazy_parse_needed

cache_batch_eligible(s, buffer) ==
    LET entries == buffer.entries
    IN  /\ entries # <<>> /\ buffer.pending.msgs = <<>>
        /\ cache_dispatch_possible(s) /\ s.proxy_status = "Normal"
        /\ \A i \in DOMAIN entries : ~entries[i].prep.dirty /\ entries[i].candidate.is
        /\ Cardinality({i \in DOMAIN entries : needs_lazy_parse(entries[i])}) <= 1

DispatchContext(entry, of, is_last) ==
    [read |-> entry.candidate.read, of |-> of, seg |-> entry.prep, emit_rfq |-> is_last,
     lazy |-> IF needs_lazy_parse(entry) THEN entry.candidate.name ELSE Unnamed]

cache_slot_begin(s, ctx) ==
    [s EXCEPT !.extended.is_extended = TRUE, !.extended.pipeline = ctx,
              !.extended.parses = ctx.seg.parses, !.extended.describes = ctx.seg.describes,
              !.extended.lazy = ctx.lazy, !.proxy_mode = "OriginDrain",
              !.egress = cache_push(@, ctx.of, Message(ctx.of, "Execute", ctx.read))]

cache_batch_dispatch(s, buffer, of) ==
    LET last == Len(buffer.entries)
        contexts == [i \in 1..last |-> DispatchContext(buffer.entries[i], of, i = last)]
    IN  cache_slot_begin([s EXCEPT !.extended.batch = Tail(contexts)], Head(contexts))

cache_batch_advance(s) ==
    IF s.extended.batch = <<>> THEN [s EXCEPT !.proxy_mode = "Read"]
    ELSE cache_slot_begin([s EXCEPT !.extended.batch = Tail(@)], Head(s.extended.batch))

BatchForward(s, ctx) ==
    LET installed == forward_lazy_parse_install(s, ctx.lazy)
    IN  [installed EXCEPT !.extended.parses = @ \o ctx.seg.parses,
                          !.extended.describes = @ \o ctx.seg.describes,
                          !.origin_write_buf = @ \o ctx.seg.msgs]

batch_remaining_forward(s, of) ==
    LET rest == FoldLeft(BatchForward, s, s.extended.batch)
    IN  [rest EXCEPT !.extended.batch = <<>>,
                     !.origin_write_buf = IF s.extended.is_extended
                                          THEN Append(@, Message(of, "Sync", Blank)) ELSE @]

\* The head cache slot's query goes to the origin after all, with what its batch
\* has left.
forward_current_and_rest(s) ==
    LET query == Head(s.egress).buf[1]
        msgs == IF s.extended.is_extended THEN s.extended.pipeline.seg.msgs ELSE <<query>>
        installed == forward_lazy_parse_install(
                         [s EXCEPT !.egress = cache_to_origin(@), !.extended.lazy = Unnamed], s.extended.lazy)
        sent == [installed EXCEPT !.origin_write_buf = @ \o msgs, !.proxy_mode = "Read",
                                  !.extended.pipeline = NoDispatch]
    IN  batch_remaining_forward(sent, query.of)

\* What the cache worker writes to the client for the query being served.
Response(r, types) == [i \in DOMAIN types |-> [of |-> r, type |-> types[i], text |-> "", lsn |-> None]]
If(condition, types) == IF condition THEN types ELSE <<>>

ServedResponse(s) ==
    LET ctx == s.extended.pipeline
        types == IF ~s.extended.is_extended THEN <<"Row", "Complete", "Ready">>
                 ELSE If(ctx.seg.has_parse, <<"ParseComplete">>) \o If(ctx.seg.has_bind, <<"BindComplete">>)
                      \o If(ctx.seg.describe = "DescribeS", <<"ParameterDescription">>)
                      \o If(ctx.seg.describe # "None", <<"RowDescription">>)
                      \o <<"Row", "Complete">> \o If(ctx.emit_rfq, <<"Ready">>)
    IN  Response(Head(s.egress).of, types)

cache_complete(s) ==
    cache_batch_advance([s EXCEPT !.egress = cache_done(@), !.extended.parses = <<>>,
                                  !.extended.describes = <<>>, !.extended.lazy = Unnamed,
                                  !.extended.pipeline = NoDispatch])

-----------------------------------------------------------------------------
(* Close, Sync and Flush. *)

deferred_close_completes_flush(s, of) ==
    [s EXCEPT !.extended.closes = 0,
              !.egress = synth_push(@, of, Response(of, [i \in 1..s.extended.closes |-> "CloseComplete"]))]

close_locally_handled(s, msg) ==
    /\ ~s.extended.buffer.active /\ ~s.extended.group_origin_forwarded
    /\ s.prepared[msg.name].known /\ ~s.prepared[msg.name].origin_prepared

handle_close_message(s, msg) ==
    LET flushed == extended_buffer_flush_to_origin(deferred_close_completes_flush(s, msg.of))
    IN  IF close_locally_handled(s, msg)
        THEN [statement_close(s, msg.name) EXCEPT !.extended.closes = @ + 1]
        ELSE [statement_close(flushed, msg.name) EXCEPT !.extended.group_origin_forwarded = TRUE,
                                                        !.origin_write_buf = Append(@, msg)]

\* A lone Parse, with or without its Describe, of a named statement.
synth_parse_target(seg) ==
    /\ seg.has_parse /\ ~seg.dirty /\ ~seg.has_bind /\ seg.describe # "DescribeP"
    /\ Head(seg.parses) # Unnamed

synth_eligible(s, buffer) ==
    /\ buffer.entries = <<>> /\ ~in_transaction(s) /\ synth_parse_target(buffer.pending)
    /\ LET statement == s.prepared[Head(buffer.pending.parses)]
       IN  statement.known /\ statement.sql.kind = "Read"

\* Whether the describe cache answers, and its answer.
describe_cache_hit(s, buffer) ==
    synth_eligible(s, buffer) /\ s.prepared[Head(buffer.pending.parses)].sql \in s.describe_cache

synthesize_parse_describe_response(s, buffer, of) ==
    LET types == <<"ParseComplete">>
                 \o If(buffer.pending.describe = "DescribeS", <<"ParameterDescription", "RowDescription">>)
                 \o <<"Ready">>
    IN  [s EXCEPT !.prepared[Head(buffer.pending.parses)].described = TRUE,
                  !.egress = synth_push(@, of, Response(of, types))]

handle_sync_message(s, msg) ==
    LET buffer == s.extended.buffer
        local == s.extended.closes > 0 /\ ~s.extended.group_origin_forwarded
        taken == [deferred_close_completes_flush(s, msg.of) EXCEPT
                     !.extended.group_origin_forwarded = FALSE, !.extended.buffer = EmptyBuffer]
    IN  CASE ~buffer.active /\ local -> [taken EXCEPT !.egress = synth_push(@, msg.of, Response(msg.of, <<"Ready">>))]
          [] ~buffer.active /\ ~local -> origin_dispatch(taken, msg)
          [] buffer.active /\ cache_batch_eligible(s, buffer) -> cache_batch_dispatch(taken, buffer, msg.of)
          [] buffer.active /\ ~cache_batch_eligible(s, buffer) /\ describe_cache_hit(s, buffer) ->
                synthesize_parse_describe_response(taken, buffer, msg.of)
          [] OTHER -> extended_buffer_forward_to_origin(taken, buffer, msg)

handle_flush_message(s, msg) ==
    LET buffer == s.extended.buffer
        taken == [deferred_close_completes_flush(s, msg.of) EXCEPT
                     !.extended.group_origin_forwarded = TRUE, !.extended.buffer = EmptyBuffer]
    IN  IF ~buffer.active THEN [taken EXCEPT !.origin_write_buf = Append(@, msg)]
        ELSE [extended_buffer_forward_to_origin(taken, buffer, msg) EXCEPT !.flush_describe_pending = TRUE]

\* client_message_handle, leaving a flushed slot open.
client_message_unsealed(s, msg) ==
    CASE msg.type = "Query" -> simple_query_handle(s, msg)
      [] msg.type = "Parse" -> handle_parse_message(s, msg)
      [] msg.type = "Bind" -> handle_bind_message(s, msg)
      [] msg.type = "Execute" -> handle_execute_message(s, msg)
      [] msg.type \in {"DescribeS", "DescribeP"} -> handle_describe_message(s, msg)
      [] msg.type = "Close" -> handle_close_message(s, msg)
      [] msg.type = "Sync" -> handle_sync_message(s, msg)
      [] msg.type = "Flush" -> handle_flush_message(s, msg)
      [] msg.type = "FunctionCall" -> function_call_handle(s, msg)

\* A message after a Flush seals the slot the Flush left open.
client_message_handle(s, msg) ==
    LET ready == IF s.flush_describe_pending
                 THEN [s EXCEPT !.flush_describe_pending = FALSE, !.egress = origin_seal(@)] ELSE s
    IN  CASE msg.type = "Query" -> simple_query_handle(ready, msg)
          [] msg.type = "Parse" -> handle_parse_message(ready, msg)
          [] msg.type = "Bind" -> handle_bind_message(ready, msg)
          [] msg.type = "Execute" -> handle_execute_message(ready, msg)
          [] msg.type \in {"DescribeS", "DescribeP"} -> handle_describe_message(ready, msg)
          [] msg.type = "Close" -> handle_close_message(ready, msg)
          [] msg.type = "Sync" -> handle_sync_message(ready, msg)
          [] msg.type = "Flush" -> handle_flush_message(ready, msg)
          [] msg.type = "FunctionCall" -> function_call_handle(ready, msg)
=============================================================================
