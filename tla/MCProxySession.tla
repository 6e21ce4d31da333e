--------------------------- MODULE MCProxySession ---------------------------
EXTENDS ProxySession

Unqualified == [schema |-> NoSchema, name |-> "t"]
InA == [schema |-> "a", name |-> "t"]
InB == [schema |-> "b", name |-> "t"]
TheRelations == {Unqualified, InA, InB}
TheNames == {Unnamed, "s", "w"}

Kind(kind) == [Blank EXCEPT !.kind = kind]
Reads(relation, rows) == [Kind("Read") EXCEPT !.relations = {relation}, !.rows = rows]
Join == [Kind("Read") EXCEPT !.relations = {InA, InB}, !.rows = {1, 2}]
Inserts(relation, rows) == [Kind("Rows") EXCEPT !.relation = relation, !.rows = rows]
Truncates(relation) == [Kind("Table") EXCEPT !.relation = relation, !.rows = {1, 2}]
AtLevel(kind, level) == [Kind(kind) EXCEPT !.level = level]
SetsPath(path) == [Kind("SetPath") EXCEPT !.path = path]
Parameter(stmt) == [stmt EXCEPT !.parameter = TRUE, !.rows = {}]

Simple(stmts) ==
    {<<Message(Nobody, IF stmt.kind = "FunctionCall" THEN "FunctionCall" ELSE "Query", stmt)>> : stmt \in stmts}

\* Transactions and writes.
Blocks ==
    {Kind("Begin"), Kind("Commit"), Kind("Rollback"),
     Inserts(Unqualified, {1}), Reads(InA, {1}), Reads(InA, {2})}

\* Everything that changes the session.
Session ==
    {Kind("Begin"), AtLevel("Begin", Serializable), Kind("Commit"), Kind("Rollback"), Kind("CommitChain"),
     AtLevel("SetTransaction", Serializable), AtLevel("SetDefault", Serializable),
     AtLevel("SetDefault", ReadCommitted), SetsPath("b"), Kind("DiscardAll"),
     Reads(Unqualified, {1}), Kind("Explain")}

\* Every class of write.
WriteKinds ==
    {Kind("Begin"), Kind("Commit"), Kind("PrepareTransaction"), Kind("Call"), Kind("FunctionCall"),
     Inserts(Unqualified, {1}), Inserts(InB, {2}), Truncates(InB), SetsPath("b"),
     Reads(InA, {1}), Reads(Unqualified, {2}), Join}

\* The texts of the prepared statements, and groups of the extended protocol.
Text == "s" :> Parameter(Reads(InA, {})) @@ "w" :> Parameter(Inserts(Unqualified, {}))

Bound(name, rows) == [Text[name] EXCEPT !.parameter = FALSE, !.rows = rows]

Msg(type, name, stmt) == [Message(Nobody, type, stmt) EXCEPT !.name = name]
Parse(name) == Msg("Parse", name, Text[name])
DescribeS(name) == Msg("DescribeS", name, Blank)
Bind(name, rows) == [Msg("Bind", name, Blank) EXCEPT !.rows = rows]
Run(name, rows) == <<Bind(name, rows), Msg("Execute", Unnamed, Bound(name, rows))>>
RunDescribed(name, rows) ==
    <<Bind(name, rows), Msg("DescribeP", Unnamed, Blank), Msg("Execute", Unnamed, Bound(name, rows))>>
RunOnce(stmt) ==
    <<Msg("Parse", Unnamed, stmt), Msg("Bind", Unnamed, Blank), Msg("Execute", Unnamed, stmt)>>
Close(name) == Msg("Close", name, Blank)
Sync == Msg("Sync", Unnamed, Blank)
Flush == Msg("Flush", Unnamed, Blank)

Prepare == {<<Parse("s"), Sync>>, <<Parse("s"), DescribeS("s"), Sync>>, <<Parse("w"), Sync>>}
Groups ==
    Prepare \union
    {Run("s", {1}) \o <<Sync>>,
     <<Bind("s", {2}), DescribeS("s"), Msg("Execute", Unnamed, Bound("s", {2})), Sync>>,
     Run("s", {1}) \o Run("s", {2}) \o <<Sync>>,
     Run("w", {1}) \o <<Sync>>, Run("w", {1}) \o Run("s", {1}) \o <<Sync>>,
     <<Close("s"), Sync>>}

AtOnce ==
    {<<Parse("s")>> \o RunDescribed("s", {1}) \o <<Sync>>,
     RunOnce(Reads(InA, {1})) \o <<Sync>>,
     RunOnce(Inserts(InA, {1})) \o <<Sync>>,
     RunOnce(Reads(InA, {1})) \o RunOnce(Reads(InA, {2})) \o <<Sync>>,
     RunOnce(Kind("Begin")) \o <<Sync>>, RunOnce(Kind("Commit")) \o <<Sync>>,
     <<Close("s"), Parse("s"), Sync>>}

Flushed ==
    {<<Parse("s"), DescribeS("s"), Flush>> \o Run("s", {1}) \o <<Sync>>,
     <<Parse("s"), Flush, Sync>>, Run("s", {1}) \o <<Flush, Sync>>, RunOnce(Inserts(InA, {1})) \o <<Sync>>}

Profile(version, depth, patient, role_default, requests) ==
    [version |-> version, depth |-> depth, patient |-> patient, role_default |-> role_default,
     requests |-> requests]

TheProfiles ==
    [pipelined |-> Profile("reported", 3, FALSE, ReadCommitted, Simple(Blocks)),
     session_reported |-> Profile("reported", 1, TRUE, ReadCommitted, Simple(Session \union {Kind("ResetAll")})),
     session_probed |-> Profile("probed", 1, TRUE, Serializable, Simple(Session)),
     writes |-> Profile("reported", 1, TRUE, ReadCommitted, Simple(WriteKinds)),
     prepared |-> Profile("reported", 1, TRUE, ReadCommitted, Groups),
     at_once |-> Profile("probed", 1, TRUE, ReadCommitted, AtOnce \union Prepare),
     flushed |-> Profile("reported", 1, TRUE, ReadCommitted, Flushed)]

(* Evaluated once: TLC keeps the value of a definition, and evaluates what *)
(* replaces a constant at every use.                                       *)
MCRelations == LET relations == TheRelations IN relations
MCNames == LET names == TheNames IN names
AllProfiles == LET profiles == TheProfiles IN profiles

\* A client that does not wait for the proxy's own queries.
Impatient == [impatient |-> Profile("probed", 1, FALSE, ReadCommitted, Simple({Reads(InA, {1})}))]
=============================================================================
