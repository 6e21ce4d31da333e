---------------------------- MODULE OriginServer ----------------------------
(***************************************************************************)
(* The origin server as one connection sees it (external), as operators on *)
(* its session: the transaction block or the implicit transaction of a     *)
(* simple query or of the messages up to a Sync, the settings an abort     *)
(* undoes, prepared statements and the unnamed portal, and the session's   *)
(* writes with their commit LSN.  Modelled from how the proxy uses it.     *)
(***************************************************************************)
EXTENDS ProxyConnection

InitialPath == "a"

NoText == [known |-> FALSE, sql |-> Blank]

OriginStart(reported, default, names) ==
    [status |-> "Idle", implicit |-> FALSE, level |-> ReadCommitted, used |-> FALSE,
     default |-> default, path |-> InitialPath, role_default |-> default,
     saved |-> [default |-> default, path |-> InitialPath],
     reported |-> reported, told |-> InitialPath,
     stmts |-> [name \in names |-> NoText], portal |-> NoText, skip |-> FALSE, out |-> <<>>,
     wal |-> 0, writes |-> {}]

EndsBlock(stmt) == stmt.kind \in {"Commit", "CommitChain", "Rollback", "PrepareTransaction"}
Queries(stmt) == stmt.kind \in {"Read", "Explain", "Rows", "Table", "Call", "FunctionCall"}
Modifies(stmt) == stmt.kind \in {"Rows", "Table", "Call", "FunctionCall"}

\* Statements the origin refuses whatever their arguments.
Refused(o, stmt) ==
    \/ o.status = "Failed" /\ ~EndsBlock(stmt)
    \/ o.status # "Idle" /\ stmt.kind = "DiscardAll"
    \/ o.status # "Idle" /\ o.used /\ stmt.kind = "SetTransaction"
    \/ o.status = "Idle" /\ stmt.kind = "CommitChain"

\* Statements that may fail by themselves.
MayFail(stmt) == Queries(stmt) \/ stmt.kind \in {"Commit", "CommitChain", "PrepareTransaction"}

\* The transaction the next statement runs in.
Started(o) ==
    IF o.status # "Idle" \/ o.implicit THEN o
    ELSE [o EXCEPT !.implicit = TRUE, !.level = o.default, !.used = FALSE,
                   !.saved = [default |-> o.default, path |-> o.path]]

\* A write of the session: its table (any table, for a call), its rows, and its
\* commit LSN: 0 while its transaction is open, None while it is prepared.
Table(o, relation) == [relation EXCEPT !.schema = IF @ = NoSchema THEN o.path ELSE @]
Written(o, stmt) ==
    [any |-> stmt.kind \notin {"Rows", "Table"}, table |-> Table(o, stmt.relation),
     rows |-> stmt.rows, lsn |-> 0]

Ended(o, lsn) ==
    [o EXCEPT !.status = "Idle", !.implicit = FALSE,
              !.writes = {[w EXCEPT !.lsn = IF @ = 0 THEN lsn ELSE @] : w \in @}]

Committed(o) ==
    [Ended(o, o.wal + 1) EXCEPT !.wal = IF \E w \in o.writes : w.lsn = 0 THEN @ + 1 ELSE @]

Aborted(o) ==
    [o EXCEPT !.status = "Idle", !.implicit = FALSE, !.default = o.saved.default, !.path = o.saved.path,
              !.writes = {w \in @ : w.lsn # 0}]

Fail(o, stmt) ==
    [Aborted(o) EXCEPT !.status = IF o.status = "Idle" \/ EndsBlock(stmt) THEN "Idle" ELSE "Failed"]

EndBlock(o, stmt) ==
    LET ended == CASE o.status = "Failed" \/ stmt.kind = "Rollback" -> Aborted(o)
                   [] o.status # "Failed" /\ stmt.kind = "PrepareTransaction" -> Ended(o, None)
                   [] OTHER -> Committed(o)
    IN  IF stmt.kind = "CommitChain"
        THEN [Started([ended EXCEPT !.default = o.level]) EXCEPT
                 !.status = "InTransaction", !.implicit = FALSE,
                 !.default = ended.default, !.saved.default = ended.default]
        ELSE ended

Succeed(o, stmt) ==
    CASE stmt.kind = "Begin" /\ o.status = "Idle" ->
            [o EXCEPT !.status = "InTransaction", !.implicit = FALSE,
                      !.level = IF stmt.level = NoLevel THEN @ ELSE stmt.level]
      [] EndsBlock(stmt) /\ o.status # "Idle" -> EndBlock(o, stmt)
      [] stmt.kind = "SetTransaction" /\ o.status # "Idle" -> [o EXCEPT !.level = stmt.level]
      [] stmt.kind = "SetDefault" -> [o EXCEPT !.default = stmt.level]
      [] stmt.kind = "SetPath" -> [o EXCEPT !.path = stmt.path]
      [] stmt.kind = "ResetAll" -> [o EXCEPT !.default = o.role_default, !.path = InitialPath]
      [] stmt.kind = "DiscardAll" ->
            [o EXCEPT !.default = o.role_default, !.path = InitialPath,
                      !.stmts = [name \in DOMAIN @ |-> NoText]]
      [] Queries(stmt) ->
            [o EXCEPT !.used = TRUE, !.writes = IF Modifies(stmt) THEN @ \union {Written(o, stmt)} ELSE @]
      [] OTHER -> o

Execute(o, stmt, ok) == IF ok THEN Succeed(o, stmt) ELSE Fail(o, stmt)

-----------------------------------------------------------------------------
(* Messages: `out` is what the server has not yet sent. *)

Reply(r, type, text, lsn) == [of |-> r, type |-> type, text |-> text, lsn |-> lsn]
Say(o, msg, type) == [o EXCEPT !.out = Append(@, Reply(msg.of, type, "", None))]

Row(o, msg, stmt) ==
    CASE stmt.kind \in {"Read", "Explain"} -> <<Reply(msg.of, "Row", "data", None)>>
      [] stmt.kind = "SearchPath" -> <<Reply(msg.of, "Row", o.path, None)>>
      [] stmt.kind = "DefaultTransactionIsolation" -> <<Reply(msg.of, "Row", o.default, None)>>
      [] stmt.kind = "WalLsnProbe" -> <<Reply(msg.of, "Row", "lsn", o.wal)>>
      [] OTHER -> <<>>

\* The rows and the completion of a statement that has run, or its error.
Result(o, msg, stmt, ok) ==
    IF ~ok THEN Say(o, msg, "Error")
    ELSE Say([o EXCEPT !.out = @ \o Row(o, msg, stmt)], msg, "Complete")

\* The implicit transaction commits, a changed path is reported where the server
\* reports it, and the unnamed portal ends with its transaction.
ReadyForQuery(o, msg) ==
    LET done == IF o.implicit THEN Committed(o) ELSE o
        news == IF done.reported /\ done.path # done.told
                THEN <<Reply(msg.of, "Parameter", done.path, None)>> ELSE <<>>
    IN  [done EXCEPT !.skip = FALSE, !.told = done.path,
                     !.portal = IF done.status = "Idle" THEN NoText ELSE @,
                     !.out = @ \o news \o <<Reply(msg.of, "Ready", done.status, None)>>]

\* A simple query, which discards the unnamed statement; an appended SHOW runs
\* after it.
RunQuery(o, msg, ok) ==
    LET ran == Result(Execute([Started(o) EXCEPT !.stmts[Unnamed] = NoText], msg.stmt, ok), msg, msg.stmt, ok)
        shown == IF ok /\ msg.show THEN Result(ran, msg, Probe("SearchPath").stmt, TRUE) ELSE ran
    IN  ReadyForQuery(shown, msg)

\* An error in the extended protocol: everything up to the Sync is skipped.
Skipping(o, msg, stmt) == [Say(Fail(o, stmt), msg, "Error") EXCEPT !.skip = TRUE]

\* The statement an extended message is about.
About(o, msg) ==
    CASE msg.type = "Parse" -> msg.stmt
      [] msg.type \in {"Bind", "DescribeS"} -> o.stmts[msg.name].sql
      [] OTHER -> o.portal.sql

\* What makes the server refuse an extended message.
Unknowable(o, msg) ==
    CASE msg.type = "Parse" -> msg.name # Unnamed /\ o.stmts[msg.name].known
      [] msg.type \in {"Bind", "DescribeS"} -> ~o.stmts[msg.name].known
      [] msg.type \in {"Execute", "DescribeP"} -> ~o.portal.known
      [] OTHER -> FALSE

RunExtended(o, msg) ==
    CASE msg.type = "Parse" ->
            Say([o EXCEPT !.stmts[msg.name] = [known |-> TRUE, sql |-> msg.stmt]], msg, "ParseComplete")
      [] msg.type = "Bind" ->
            LET sql == o.stmts[msg.name].sql
                bound == IF sql.parameter THEN [sql EXCEPT !.rows = msg.rows, !.parameter = FALSE] ELSE sql
            IN  Say([o EXCEPT !.portal = [known |-> TRUE, sql |-> bound]], msg, "BindComplete")
      [] msg.type = "DescribeS" -> Say(Say(o, msg, "ParameterDescription"), msg, "RowDescription")
      [] msg.type = "DescribeP" -> Say(o, msg, "RowDescription")
      [] msg.type = "Execute" -> Result(Succeed(o, o.portal.sql), msg, o.portal.sql, TRUE)
      [] msg.type = "Close" -> Say([o EXCEPT !.stmts[msg.name] = NoText], msg, "CloseComplete")

\* Whether the message may be answered by success (ok) or by an error (~ok).
Possible(o, msg, ok) ==
    CASE msg.type \in {"Sync", "Flush"} \/ o.skip -> ok
      [] ~o.skip /\ msg.type \in {"Query", "FunctionCall"} ->
            IF ok THEN ~Refused(o, msg.stmt) ELSE MayFail(msg.stmt) \/ Refused(o, msg.stmt)
      [] OTHER ->
            LET stmt == About(o, msg)
                refused == \/ Unknowable(o, msg)
                           \/ o.status = "Failed" /\ ~EndsBlock(stmt) /\ msg.type # "Close"
                           \/ msg.type = "Execute" /\ Refused(o, stmt)
            IN  IF ok THEN ~refused ELSE refused \/ (msg.type = "Execute" /\ MayFail(o.portal.sql))

\* One message; a server that skips looks for the Sync.
Process(o, msg, ok) ==
    CASE msg.type = "Sync" -> ReadyForQuery(o, msg)
      [] msg.type = "Flush" \/ o.skip -> o
      [] ~o.skip /\ msg.type \in {"Query", "FunctionCall"} -> RunQuery(o, msg, ok)
      [] OTHER -> IF ok THEN RunExtended(Started(o), msg) ELSE Skipping(Started(o), msg, About(o, msg))

\* Output is sent at a Sync, a Flush, the end of a query, or an error.
Sends(o) == o.out # <<>> /\ o.out[Len(o.out)].type \in {"Ready", "Error"}
=============================================================================
