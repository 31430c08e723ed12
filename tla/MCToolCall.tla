----------------------------- MODULE MCToolCall -----------------------------
(* Two callers that race with one small database, and one caller alone that *)
(* asks each check of every table of a small domain.                        *)
EXTENDS ToolCall, TLC

CONSTANTS c1, c2, c3, v1, v2, seg1, seg2, text

NoScope == [equals |-> << >>, time_column |-> Null, start |-> Null, end |-> Null]

Step(tool, arguments) ==
    [tool |-> tool, arguments |-> arguments, timeout |-> Absent,
     max_rows |-> Absent, metric |-> Absent, expectation |-> Absent]

----------------------------------------------------------------------------
(* SQL steps.                                                              *)

Row(i, cell) == [id |-> i, n |-> cell]

Query(rows) ==
    [count |-> 1, class |-> "SELECT", native |-> "SELECT", forbidden |-> FALSE,
     joins |-> "conditioned", aggregates |-> {"count"}, ends |-> TRUE,
     columns |-> [id |-> "INTEGER", n |-> "INT8"], answer |-> rows]

Limited(sql, max_rows) ==
    [Step("sql_query", [sql |-> sql]) EXCEPT !.max_rows = max_rows]

TwoRows == {Row(1, 0), Row(2, 7)}

Metric ==
    [types |-> [id |-> "INTEGER", n |-> "BIGINT"],
     ranges |-> [n |-> [minimum |-> 0, maximum |-> Absent]],
     aggregation |-> "count", max_result_rows |-> 2, allow_empty |-> FALSE]

Anything ==
    [types |-> << >>, ranges |-> << >>, aggregation |-> Absent,
     max_result_rows |-> Absent, allow_empty |-> TRUE]

SqlSteps ==
    {Limited(Query(TwoRows), 1), Limited(Query(TwoRows), 2),
     Limited(Query(TwoRows), 0), Limited(Query({}), Absent)}

OddSqlSteps ==
    {Limited([Query(TwoRows) EXCEPT !.joins = "cross"], 2),
     Limited([Query(TwoRows) EXCEPT !.forbidden = TRUE], 2),
     Limited([Query(TwoRows) EXCEPT !.ends = FALSE], 2),
     [Limited(Query(TwoRows), 2) EXCEPT !.metric = Metric],
     [Limited(Query({Row(1, text)}), 2) EXCEPT !.metric = Metric],
     [Limited(Query({}), 2) EXCEPT !.expectation = Anything],
     [Step("sql_query", [sql |-> Query(TwoRows)]) EXCEPT !.timeout = 0],
     Step("drop_table", [table |-> "events"])}

----------------------------------------------------------------------------
(* Data-quality steps.                                                     *)

Scopes ==
    {NoScope,
     [NoScope EXCEPT !.equals = [segment |-> {seg1}]],
     [NoScope EXCEPT !.equals = [segment |-> {seg1, Null}]],
     [NoScope EXCEPT !.time_column = "at", !.start = 1, !.end = 3],
     [NoScope EXCEPT !.time_column = "at", !.start = 3, !.end = 1]}

NullRateSteps ==
    {Step("check_null_rate", [table |-> "events", column |-> "value",
                              threshold |-> <<1, 2>>, scope |-> scope]) :
        scope \in Scopes}

DuplicateSteps ==
    {Step("check_duplicate_rate", [table |-> "events", keys |-> keys,
                                   threshold |-> <<1, 3>>]) :
        keys \in {{"value"}, {"value", "segment"}}}

FreshnessSteps ==
    {Step("check_freshness", [table |-> table, timestamp_column |-> "at",
                              reference_time |-> 2, max_age |-> 1,
                              scope |-> scope]) :
        table \in {"events"}, scope \in Scopes}

SchemaSteps == {Step("detect_schema_drift", [table |-> "events"])}

DistributionSteps ==
    {Step("detect_distribution_drift",
          [table |-> "events", column |-> "value", time_column |-> "at",
           baseline_start |-> 1, baseline_end |-> 2,
           current_start |-> start, current_end |-> 4,
           threshold |-> threshold]) :
        start \in {1, 2}, threshold \in {<<0, 1>>, <<1, 2>>}}

Unclassified ==
    {Step("check_freshness", [table |-> table, timestamp_column |-> "at",
                              reference_time |-> 2, max_age |-> 1]) :
        table \in {"scratch", "nowhere"}}

----------------------------------------------------------------------------
(* Databases.                                                              *)

EventRow(value, segment, at) == [value |-> value, segment |-> segment, at |-> at]

Database(events, snapshots) ==
    [tables |-> [events |-> events, scratch |-> <<EventRow(v1, seg1, 1)>>],
     snapshots |-> snapshots]

UpTo(n, rows) == UNION {[1 .. k -> rows] : k \in 0 .. n}

\* Cells that a NULL, a foreign segment or a boundary of the window tells apart.
ScopedRows ==
    {EventRow(value, segment, at) :
        value \in {v1, Null}, segment \in {seg1, seg2, Null}, at \in {1, 3}}

TimedRows(values) == {EventRow(value, seg1, at) : value \in values, at \in {1, 2}}

Snapshot(version, effective_at, schema) ==
    [table |-> "events", version |-> version, effective_at |-> effective_at,
     schema |-> schema]

Schemas == {[id |-> "INTEGER"], [id |-> "BIGINT"],
            [id |-> "INTEGER", n |-> "INTEGER"], Null}

Histories ==
    {{}, {Snapshot(1, 1, [id |-> "INTEGER"])}} \cup
    {{Snapshot(1, 3, s), Snapshot(2, 1, t), Snapshot(2, 2, u)} :
        s, t, u \in Schemas}

Case(db, s1, n1, s2, s3) ==
    [database |-> db,
     steps |-> (c1 :> s1) @@ (c2 :> s2) @@ (c3 :> s3),
     calls |-> (c1 :> n1) @@ (c2 :> 1) @@ (c3 :> 1)]

Alone(db, steps) == Case(db, steps, 1, {}, {})

SmallDatabase == Database(<<EventRow(v1, seg1, 1)>>, {})

MCCases ==
    {Case(SmallDatabase, SqlSteps \cup FreshnessSteps, 1, OddSqlSteps, {}),
     Case(SmallDatabase, {Limited(Query(TwoRows), 1)}, 2,
                         {Limited(Query(TwoRows), 2)}, {}),
     Case(SmallDatabase, SqlSteps \cup OddSqlSteps \cup Unclassified, 1,
                         {}, SqlSteps)}
    \cup {Alone(Database(events, {}), NullRateSteps \cup DuplicateSteps) :
             events \in UpTo(2, ScopedRows)}
    \cup {Alone(Database(events, {}), FreshnessSteps) :
             events \in UpTo(2, {EventRow(v1, segment, at) :
                            segment \in {seg1, Null}, at \in {0, 1, 2, 3, Null}})}
    \cup {Alone(Database(events, {}), DistributionSteps \cup DuplicateSteps) :
             events \in UpTo(3, TimedRows({v1, v2, Null}))
                        \cup UpTo(2, TimedRows({text, Null}))}
    \cup {Alone(Database(<< >>, history), SchemaSteps) : history \in Histories}

MCCallers == {c1, c2, c3}
MCAudited == {c1, c2}
MCKnownAssets == {"events"}
=============================================================================
