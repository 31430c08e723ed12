------------------------------ MODULE ToolCall ------------------------------
(***************************************************************************)
(* Callers that execute investigation steps through ToolExecutor and the   *)
(* read-only SQL runner, in one process.                                   *)
(*                                                                         *)
(*   - a step is checked against the tool contracts; a data-quality check  *)
(*     validates its own arguments too;                                    *)
(*   - each query has a connection and a worker thread of its own; its     *)
(*     caller waits until the deadline, then interrupts the connection,    *)
(*     waits for the worker, and drops what it brings;                     *)
(*   - the outcome is appended to the audit file under one lock, and only  *)
(*     then returned, validated or judged.                                 *)
(*                                                                         *)
(* The database is only read.  DuckDB keeps an interrupt for a running     *)
(* query and forgets it when none runs.  An append that fails writes       *)
(* nothing.                                                                *)
(***************************************************************************)
EXTENDS DataQuality, SqlResult

CONSTANTS
    Callers,
    Audited,        \* the callers whose executor has an audit path
    Cases,          \* a database, the steps each caller may ask for, and (bound)
                    \* how many calls it makes
    KnownAssets,    \* the tables of EVIDENCE_SOURCE_BY_ASSET
    DefaultMaxRows, \* the runner's own row limit
    None,           \* no query, no connection, nobody
    PromptStart,    \* does every query run before its caller's deadline?
    MaxAuditFaults  \* bound: appends that fail

ASSUME ToolCallAssumption ==
    /\ Audited \subseteq Callers
    /\ None \notin Callers
    /\ PromptStart \in BOOLEAN
    /\ DefaultMaxRows \in Nat /\ DefaultMaxRows >= 2
    /\ \A case \in Cases : case.calls \in [Callers -> Nat]
    /\ MaxAuditFaults \in Nat

VARIABLES
    database,   \* tables and schema snapshots
    offered,    \* the steps of each caller
    pc,         \* next step of each caller
    step,       \* the step each caller executes
    calls,      \* calls each caller has left
    worker,     \* the caller's worker: "none", "queued", "running", or how it ended
    brought,    \* the rows of a worker that ended with rows
    interrupted,\* has the running query been interrupted?
    connection, \* "open" or "closed"
    response,   \* what the SQL runner is going to return
    answer,     \* what the executor returned
    audit,      \* the audit file
    auditLock,  \* _AUDIT_LOCK: its holder or None
    auditFaults \* observed, read by no step

vars == <<database, offered, pc, step, calls, worker, brought, interrupted,
          connection, response, answer, audit, auditLock, auditFaults>>

runner == <<worker, brought, interrupted, connection>>

----------------------------------------------------------------------------
(* Tool contracts.                                                         *)

\* The argument schemas of the registry.
Contracts ==
    [sql_query |-> [required |-> {"sql"}, optional |-> {}],
     check_null_rate |->
        [required |-> {"table", "column"}, optional |-> {"threshold", "scope"}],
     check_duplicate_rate |->
        [required |-> {"table", "keys"}, optional |-> {"threshold"}],
     check_freshness |->
        [required |-> {"table", "timestamp_column", "reference_time", "max_age"},
         optional |-> {"scope"}],
     detect_schema_drift |-> [required |-> {"table"}, optional |-> {}],
     detect_distribution_drift |->
        [required |-> {"table", "column", "time_column", "baseline_start",
                       "baseline_end", "current_start", "current_end"},
         optional |-> {"threshold"}]]

\* The values a schema restricts.
ValuesAllowed(a) ==
    /\ "threshold" \in DOMAIN a => IsRate(a.threshold)
    /\ "max_age" \in DOMAIN a => a.max_age > 0
    /\ "keys" \in DOMAIN a => a.keys # {}

KeepsContract(s) ==
    /\ s.tool \in DOMAIN Contracts
    /\ Contracts[s.tool].required \subseteq DOMAIN s.arguments
    /\ DOMAIN s.arguments \subseteq
          Contracts[s.tool].required \cup Contracts[s.tool].optional
    /\ ValuesAllowed(s.arguments)

Defaults(s) ==
    [threshold |-> IF s.tool = "check_null_rate" THEN <<1, 100>>
                   ELSE IF s.tool = "check_duplicate_rate" THEN <<0, 1>>
                   ELSE <<1, 10>>,
     scope |-> [equals |-> << >>, time_column |-> Null,
                start |-> Null, end |-> Null]]

\* The arguments as the check receives them.
Arguments(s) ==
    [name \in DOMAIN s.arguments \cup Contracts[s.tool].optional |->
        IF name \in DOMAIN s.arguments THEN s.arguments[name]
        ELSE Defaults(s)[name]]

\* What a check validates before it asks the database.
CheckAccepts(s) ==
    LET a == Arguments(s)
    IN  /\ "scope" \in DOMAIN a => ScopeAccepted(a.scope)
        /\ s.tool = "detect_distribution_drift" =>
              /\ a.baseline_start < a.baseline_end
              /\ a.current_start < a.current_end

Accepted(s) ==
    /\ KeepsContract(s)
    /\ IF s.tool = "sql_query" THEN IsReadOnly(s.arguments.sql)
       ELSE CheckAccepts(s)

----------------------------------------------------------------------------
(* What a step's sender, the engine and the metadata promise.              *)

\* max_rows and the two parts of a threshold are integers where they are given,
\* and a statement has finitely many rows.
WellFormed(s) ==
    /\ s.max_rows = Absent \/ s.max_rows \in Int
    /\ "threshold" \in DOMAIN s.arguments => s.arguments.threshold \in Int \X Int
    /\ s.tool = "sql_query" /\ "sql" \in DOMAIN s.arguments =>
          IsFiniteSet(s.arguments.sql.answer)

\* A table is a finite sequence.  The snapshots of a table differ in version or
\* time, and a schema maps column names to types.
WellFormedData(db) ==
    /\ \A t \in DOMAIN db.tables :
          LET table == db.tables[t]
          IN  Len(table) \in Nat /\ table = [i \in 1 .. Len(table) |-> table[i]]
    /\ IsFiniteSet(db.snapshots)
    /\ \A s, t \in db.snapshots :
          /\ {s.version, s.effective_at} \subseteq Int
          /\ s.schema # Null =>
                s.schema = [column \in DOMAIN s.schema |-> s.schema[column]]
          /\ s.table = t.table /\ s # t => NewerSnapshot(s, t) \/ NewerSnapshot(t, s)

TimesIn(table, column) ==
    \A i \in DOMAIN table : table[i][column] \in Int \cup {Null}

\* A column that a check compares with times holds times and NULLs; the engine
\* answers any other comparison with an error.
ComparesTimes(s, db) ==
    LET a     == Arguments(s)
        table == db.tables[a.table]
    IN  Accepted(s) /\ s.tool # "sql_query" /\ a.table \in DOMAIN db.tables =>
            /\ s.tool \in {"check_null_rate", "check_freshness"}
                    /\ a.scope.start # Null =>
                  /\ {a.scope.start, a.scope.end} \subseteq Int
                  /\ TimesIn(table, a.scope.time_column)
            /\ s.tool = "detect_distribution_drift" =>
                  /\ {a.baseline_start, a.baseline_end,
                      a.current_start, a.current_end} \subseteq Int
                  /\ TimesIn(table, a.time_column)
            /\ s.tool = "check_freshness" =>
                  /\ {a.reference_time, a.max_age} \subseteq Int
                  /\ TimesIn(table, a.timestamp_column)

ASSUME CasesAssumption ==
    \A case \in Cases :
        /\ WellFormedData(case.database)
        /\ \A c \in Callers : \A s \in case.steps[c] :
              WellFormed(s) /\ ComparesTimes(s, case.database)

\* No query identifier is Python's None.
ASSUME NoneAssumption == None \notin Callers \X Nat

----------------------------------------------------------------------------
(* Queries and what becomes of their rows.                                 *)

RowLimit(s) ==
    IF s.tool # "sql_query" \/ s.max_rows = Absent THEN DefaultMaxRows
    ELSE s.max_rows

LimitsArePositive(s) ==
    /\ s.timeout # Absent => s.timeout > 0
    /\ RowLimit(s) > 0

\* Can the query run at all?  A missing table is an error of the engine.
Runnable(s) ==
    CASE s.tool = "sql_query" -> TRUE
      [] s.tool = "detect_schema_drift" -> TRUE
      [] OTHER -> s.arguments.table \in DOMAIN database.tables

\* Every row the query selects.
CompleteAnswer(s) ==
    LET a     == Arguments(s)
        table == database.tables[a.table]
    IN  CASE s.tool = "sql_query" -> a.sql.answer
          [] s.tool = "check_null_rate" -> NullRateQuery(table, a)
          [] s.tool = "check_duplicate_rate" -> DuplicateQuery(table, a)
          [] s.tool = "check_freshness" -> FreshnessQuery(table, a)
          [] s.tool = "detect_schema_drift" ->
                SchemaQuery({t \in database.snapshots : t.table = a.table})
          [] s.tool = "detect_distribution_drift" -> DistributionQuery(table, a)

Least(m, n) == IF m < n THEN m ELSE n

\* Mutant: fetchmany(max_rows).
FetchedToTheLimit(rows, limit) == kSubset(Least(Cardinality(rows), limit), rows)

\* fetchmany(max_rows + 1): one row beyond the limit tells of truncation.
Fetched(rows, limit) == kSubset(Least(Cardinality(rows), limit + 1), rows)

Kept(fetched, limit) == kSubset(Least(Cardinality(fetched), limit), fetched)

\* The worker's outcome for one fetch: the rows up to the limit.
Outcomes(s) ==
    UNION {{[truncated |-> Cardinality(fetched) > RowLimit(s), rows |-> rows] :
               rows \in Kept(fetched, RowLimit(s))} :
             fetched \in Fetched(CompleteAnswer(s), RowLimit(s))}

Failed(status) == [status |-> status, rows |-> {}, truncated |-> FALSE]

Succeeded(outcome) ==
    [status |-> "success", rows |-> outcome.rows, truncated |-> outcome.truncated]

\* The verdicts that a data-quality check may reach on a successful response:
\* one, but for a distance that rounding moves across its threshold.
Verdicts(s, r) ==
    LET a   == Arguments(s)
        row == CHOOSE x \in r.rows : TRUE
    IN  CASE s.tool = "check_null_rate" -> {NullRateVerdict(row, a)}
          [] s.tool = "check_duplicate_rate" -> {DuplicateVerdict(row, a)}
          [] s.tool = "check_freshness" -> {FreshnessVerdict(row, a)}
          [] s.tool = "detect_schema_drift" -> {SchemaVerdict(r.rows)}
          [] s.tool = "detect_distribution_drift" ->
                DistributionVerdicts(r.rows, r.truncated, a)

\* Schema snapshots are a source of their own; other tables must be known.
SourceKnown(s) ==
    s.tool = "detect_schema_drift" \/ s.arguments.table \in KnownAssets

\* A step's answer: usable is the SQL validation, evidence the query that the
\* data-quality evidence cites.
Told(success, id, rows, usable, verdict, evidence) ==
    [success |-> success, id |-> id, rows |-> rows, usable |-> usable,
     verdict |-> verdict, evidence |-> evidence]

Refusal(id) == Told(FALSE, id, {}, FALSE, "error", None)

SqlAnswer(s, id, r) ==
    Told(r.status = "success", id, r.rows,
         Usable(r, s.arguments.sql,
                Expectation(s.expectation, s.metric, s.arguments.sql.columns,
                            s.max_rows)),
         "error", None)

CheckAnswer(s, id, verdict) ==
    IF verdict = "error" \/ ~SourceKnown(s) THEN Refusal(id)
    ELSE Told(TRUE, id, {}, FALSE, verdict, id)

Answers(s, id, r) ==
    IF s.tool = "sql_query" THEN {SqlAnswer(s, id, r)}
    ELSE {CheckAnswer(s, id, verdict) :
            verdict \in IF r.status = "success" THEN Verdicts(s, r) ELSE {"error"}}

----------------------------------------------------------------------------
Init ==
    /\ \E case \in Cases :
          /\ database = case.database
          /\ offered = case.steps
          /\ calls = case.calls
    /\ pc = [c \in Callers |-> "idle"]
    /\ step = [c \in Callers |-> None]
    /\ worker = [c \in Callers |-> "none"]
    /\ brought = [c \in Callers |-> None]
    /\ interrupted = [c \in Callers |-> FALSE]
    /\ connection = [c \in Callers |-> "closed"]
    /\ response = [c \in Callers |-> None]
    /\ answer = [c \in Callers |-> None]
    /\ audit = << >>
    /\ auditLock = None
    /\ auditFaults = 0

\* The query identifier of a caller's current call.
Id(c) == <<c, calls[c]>>

AfterQuery(c) == IF c \in Audited THEN "auditing" ELSE "returning"

\* The runner has a response for the caller.
Respond(c, r) ==
    /\ response' = [response EXCEPT ![c] = r]
    /\ pc' = [pc EXCEPT ![c] = AfterQuery(c)]

\* The executor answers.
AnswerWith(c, told) ==
    /\ answer' = [answer EXCEPT ![c] = told]
    /\ pc' = [pc EXCEPT ![c] = "answered"]

\* An exception of the runner: no identifier, no audit record.
Escape(c) ==
    /\ AnswerWith(c, Refusal(None))
    /\ UNCHANGED response

CloseConnection(c) ==
    /\ connection' = [connection EXCEPT ![c] = "closed"]
    /\ worker' = [worker EXCEPT ![c] = "none"]
    /\ brought' = [brought EXCEPT ![c] = None]
    /\ interrupted' = [interrupted EXCEPT ![c] = FALSE]

Begin(c, s) ==
    /\ pc[c] \in {"idle", "answered"}
    /\ calls[c] > 0
    /\ pc' = [pc EXCEPT ![c] = "checking"]
    /\ step' = [step EXCEPT ![c] = s]
    /\ calls' = [calls EXCEPT ![c] = @ - 1]
    /\ answer' = [answer EXCEPT ![c] = None]
    /\ response' = [response EXCEPT ![c] = None]
    /\ UNCHANGED <<database, offered, runner, audit, auditLock, auditFaults>>

\* A refused step reaches no adapter, or a check that asks no query.
Reject(c) ==
    /\ pc[c] = "checking"
    /\ ~Accepted(step[c])
    /\ AnswerWith(c, Refusal(None))
    /\ UNCHANGED <<database, offered, step, calls, runner, response, audit,
                   auditLock, auditFaults>>

RefuseLimits(c) ==
    /\ pc[c] = "checking"
    /\ Accepted(step[c])
    /\ ~LimitsArePositive(step[c])
    /\ Respond(c, Failed("validation"))
    /\ UNCHANGED <<database, offered, step, calls, runner, answer, audit,
                   auditLock, auditFaults>>

\* No such file, or DuckDB cannot open it.
OpenFails(c) ==
    /\ pc[c] = "checking"
    /\ Accepted(step[c]) /\ LimitsArePositive(step[c])
    /\ Respond(c, Failed("execution"))
    /\ UNCHANGED <<database, offered, step, calls, runner, answer, audit,
                   auditLock, auditFaults>>

Submit(c) ==
    /\ pc[c] = "checking"
    /\ Accepted(step[c]) /\ LimitsArePositive(step[c])
    /\ pc' = [pc EXCEPT ![c] = "waiting"]
    /\ connection' = [connection EXCEPT ![c] = "open"]
    /\ worker' = [worker EXCEPT ![c] = "queued"]
    /\ UNCHANGED <<database, offered, step, calls, brought, interrupted, response,
                   answer, audit, auditLock, auditFaults>>

----------------------------------------------------------------------------
(* The worker thread.                                                      *)

StartQuery(c) ==
    /\ worker[c] = "queued"
    /\ worker' = [worker EXCEPT ![c] = "running"]
    /\ UNCHANGED <<database, offered, pc, step, calls, brought, interrupted,
                   connection, response, answer, audit, auditLock, auditFaults>>

\* Does the query end without an interrupt?
EndsByItself(s) == s.tool = "sql_query" => s.arguments.sql.ends

\* Rows, an error of DuckDB (an interrupt is one), or another exception.  An
\* interrupt may come too late to keep the rows from arriving.
EndQuery(c) ==
    /\ worker[c] = "running"
    /\ EndsByItself(step[c]) \/ interrupted[c]
    /\ \/ /\ \E ending \in {"error", "exception"} :
                worker' = [worker EXCEPT ![c] = ending]
          /\ UNCHANGED brought
       \/ /\ Runnable(step[c])
          /\ EndsByItself(step[c])
          /\ worker' = [worker EXCEPT ![c] = "rows"]
          /\ \E outcome \in Outcomes(step[c]) :
                brought' = [brought EXCEPT ![c] = outcome]
    /\ UNCHANGED <<database, offered, pc, step, calls, interrupted, connection,
                   response, answer, audit, auditLock, auditFaults>>

HasEnded(c) == worker[c] \in {"rows", "error", "exception"}

\* future.result(timeout) returns or raises; the connection is closed.
Collect(c) ==
    /\ pc[c] = "waiting"
    /\ HasEnded(c)
    /\ CASE worker[c] = "exception" -> Escape(c)
         [] worker[c] = "error" ->
               Respond(c, Failed("execution")) /\ UNCHANGED answer
         [] worker[c] = "rows" ->
               Respond(c, Succeeded(brought[c])) /\ UNCHANGED answer
    /\ CloseConnection(c)
    /\ UNCHANGED <<database, offered, step, calls, audit, auditLock, auditFaults>>

\* The deadline passes while the worker is at work.
TimeOut(c) ==
    /\ pc[c] = "waiting"
    /\ ~HasEnded(c)
    /\ PromptStart => worker[c] = "running"
    /\ pc' = [pc EXCEPT ![c] = "late"]
    /\ interrupted' = [interrupted EXCEPT ![c] = worker[c] = "running"]
    /\ UNCHANGED <<database, offered, step, calls, worker, brought, connection,
                   response, answer, audit, auditLock, auditFaults>>

\* future.result() without a deadline: rows and DuckDB errors are dropped.
CollectLate(c) ==
    /\ pc[c] = "late"
    /\ HasEnded(c)
    /\ IF worker[c] = "exception" THEN Escape(c)
       ELSE Respond(c, Failed("timeout")) /\ UNCHANGED answer
    /\ CloseConnection(c)
    /\ UNCHANGED <<database, offered, step, calls, audit, auditLock, auditFaults>>

----------------------------------------------------------------------------
(* The audit file.                                                         *)

AuditRecord(c) ==
    [id |-> Id(c), status |-> response[c].status,
     row_count |-> Cardinality(response[c].rows),
     truncated |-> response[c].truncated]

\* The directory cannot be made: the exception reaches the executor.
AuditDirectoryFails(c) ==
    /\ pc[c] = "auditing"
    /\ auditFaults < MaxAuditFaults
    /\ auditFaults' = auditFaults + 1
    /\ Escape(c)
    /\ UNCHANGED <<database, offered, step, calls, runner, audit, auditLock>>

AcquireAuditLock(c) ==
    /\ pc[c] = "auditing"
    /\ auditLock = None
    /\ auditLock' = c
    /\ pc' = [pc EXCEPT ![c] = "appending"]
    /\ UNCHANGED <<database, offered, step, calls, runner, response, answer,
                   audit, auditFaults>>

AppendRecord(c) ==
    /\ pc[c] = "appending"
    /\ audit' = Append(audit, AuditRecord(c))
    /\ auditLock' = None
    /\ pc' = [pc EXCEPT ![c] = "returning"]
    /\ UNCHANGED <<database, offered, step, calls, runner, response, answer,
                   auditFaults>>

\* Mutant: the lock is taken by hand and released after the write.
AppendRecordFailsHoldingLock(c) ==
    /\ pc[c] = "appending"
    /\ auditFaults < MaxAuditFaults
    /\ auditFaults' = auditFaults + 1
    /\ Escape(c)
    /\ UNCHANGED <<database, offered, step, calls, runner, audit, auditLock>>

\* The file cannot be opened or written; leaving the block frees the lock.
AppendRecordFails(c) ==
    /\ pc[c] = "appending"
    /\ auditFaults < MaxAuditFaults
    /\ auditFaults' = auditFaults + 1
    /\ auditLock' = None
    /\ Escape(c)
    /\ UNCHANGED <<database, offered, step, calls, runner, audit>>

Return(c) ==
    /\ pc[c] = "returning"
    /\ \E told \in Answers(step[c], Id(c), response[c]) : AnswerWith(c, told)
    /\ UNCHANGED <<database, offered, step, calls, runner, response, audit,
                   auditLock, auditFaults>>

Settle(c) ==
    \/ Reject(c) \/ RefuseLimits(c) \/ OpenFails(c) \/ Submit(c)
    \/ Collect(c) \/ CollectLate(c)
    \/ AuditDirectoryFails(c) \/ AcquireAuditLock(c)
    \/ AppendRecord(c) \/ AppendRecordFails(c) \/ Return(c)

Work(c) == StartQuery(c) \/ EndQuery(c)

Next ==
    \E c \in Callers :
        \/ \E s \in offered[c] : Begin(c, s)
        \/ TimeOut(c)
        \/ Settle(c)
        \/ Work(c)

Spec == Init /\ [][Next]_vars

\* Threads are scheduled and deadlines pass.  An engine gives up a query that it
\* was interrupted in, and ends the others that end by themselves.
FairSpec ==
    /\ Spec
    /\ \A c \in Callers :
          WF_vars(TimeOut(c)) /\ WF_vars(Settle(c)) /\ WF_vars(Work(c))

----------------------------------------------------------------------------
Records(id) == {i \in DOMAIN audit : audit[i].id = id}

\* A usable SQL answer is the complete answer, whatever the row limit.
UsableIsComplete(c) ==
    answer[c].usable => answer[c].rows = CompleteAnswer(step[c])

\* An answer that names its query has one record of it, an answer that does not
\* has none, and nobody is told of a success that the record does not state.
AnswerIsAudited(c) ==
    IF answer[c].id = None
    THEN ~answer[c].success /\ Records(Id(c)) = {}
    ELSE c \in Audited =>
           \E i \in Records(Id(c)) :
              /\ Records(Id(c)) = {i}
              /\ answer[c].success => audit[i].status = "success"
              /\ answer[c].usable =>
                    /\ ~audit[i].truncated
                    /\ audit[i].row_count = Cardinality(CompleteAnswer(step[c]))

\* Whatever raced or failed on the way (a deadline, the audit, another caller's
\* query), what a caller is told is complete where it counts and agrees with the
\* audit file, the evidence it cites is its own query, and the query's
\* connection is closed.  execute_readonly_sql and ToolExecutor.execute_step.
AnswersAreAccounted ==
    \A c \in Callers : pc[c] = "answered" =>
        /\ UsableIsComplete(c)
        /\ AnswerIsAudited(c)
        /\ answer[c].evidence \in {None, Id(c)}
        /\ connection[c] = "closed"

\* What a check may say of the table by its documented meaning.  Up to the
\* precision of a distance, a distribution that passed is stable within its
\* threshold, and one that failed is not.
Promised(s) ==
    LET a     == Arguments(s)
        table == database.tables[a.table]
    IN  CASE s.tool = "check_null_rate" -> {IfPassed(NullsAreRare(table, a))}
          [] s.tool = "check_duplicate_rate" ->
                {IfPassed(DuplicatesAreRare(table, a))}
          [] s.tool = "check_freshness" -> {IfPassed(IsFresh(table, a))}
          [] s.tool = "detect_schema_drift" ->
                LET known == {t \in database.snapshots : t.table = a.table}
                IN  IF Cardinality(known) < 2 THEN {"inconclusive"}
                    ELSE {IfPassed(SchemaIsStable(known))}
          [] s.tool = "detect_distribution_drift" ->
                {IfPassed(DistributionIsStable(table, a, bound)) :
                    bound \in Bounds(a.threshold)}

\* A check that succeeds tells what its document and docstring promise of the
\* table: NULLs of the scope count, a duplicate is a row beyond the first of its
\* keys, a timestamp of the future is not fresh, and a distribution is judged on
\* all the rows of its windows.  A distance within 1/Precision of its threshold
\* may pass or fail: the code adds rounded differences, and of a distance that
\* equals the threshold nothing is promised.  Left out are overlapping windows,
\* whose common rows the query gives to the baseline alone, and a column that
\* holds the text '<NULL>' beside NULLs.
VerdictMatchesData ==
    \A c \in Callers :
        (/\ pc[c] = "answered"
         /\ answer[c].success
         /\ step[c].tool # "sql_query"
         /\ step[c].tool = "detect_distribution_drift" =>
               LET a == step[c].arguments
               IN  /\ DisjointWindows(a)
                   /\ NullsToldApart(database.tables[a.table], a.column))
        => answer[c].verdict \in Promised(step[c])

\* Every call is answered, even if its query would never end: the deadline
\* interrupts it, its caller does not wait for more than the worker's end, and no
\* failure of the audit keeps another caller waiting for the lock.  PromptStart
\* keeps the interrupt from coming before the query, which then runs on.
CallsAreAnswered ==
    \A c \in Callers : pc[c] = "checking" ~> pc[c] = "answered"
=============================================================================
