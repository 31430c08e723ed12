---------------------------- MODULE DataQuality ----------------------------
(***************************************************************************)
(* The five data-quality checks: what each query selects, how the selected *)
(* rows become a verdict, and what the documents promise of that verdict.  *)
(*                                                                         *)
(* A table is a sequence of rows, a row a function from column names to    *)
(* cells, and Null the SQL NULL.  The rows of a query's answer are a set:  *)
(* each answer below has distinct rows, and no check depends on an order.  *)
(* Times are integers.  A threshold is a pair <<num, den>>, the number as  *)
(* the caller writes it.                                                   *)
(*                                                                         *)
(* Rounding.  A null or duplicate rate is one correctly rounded quotient,  *)
(* which compares with the threshold as the exact rate does while the      *)
(* number of rows times den stays below 2^53; AtMost is exact.  The        *)
(* distance of two distributions adds up many rounded differences and may  *)
(* land on either side of a threshold that it equals: within 1/Precision   *)
(* of the threshold either verdict is possible.                            *)
(***************************************************************************)
EXTENDS Integers, Sequences, FiniteSets, FiniteSetsExt

CONSTANTS
    Null,
    NullText,  \* the text '<NULL>', a cell like any other
    Precision  \* a computed distance is off by less than 1/Precision

ASSUME NullAssumption == Null \notin Int

ASSUME PrecisionAssumption == Precision \in Nat \ {0}

Abs(n) == IF n < 0 THEN -n ELSE n

IsRate(threshold) == 0 <= threshold[1] /\ threshold[1] <= threshold[2]

AtMost(part, whole, threshold) ==
    part * threshold[2] <= threshold[1] * whole

\* The threshold less and plus 1/Precision.  Equal shares have equal quotients,
\* so that a distance of zero is computed exactly.
Lowered(threshold) ==
    IF threshold[1] * Precision <= threshold[2] THEN <<0, 1>>
    ELSE <<threshold[1] * Precision - threshold[2], threshold[2] * Precision>>

Raised(threshold) ==
    <<threshold[1] * Precision + threshold[2], threshold[2] * Precision>>

\* A rounded distance compares like the exact one with one of these bounds.
Bounds(threshold) == {Lowered(threshold), Raised(threshold)}

----------------------------------------------------------------------------
(* Scopes: listed values per column, and a half-open time window.          *)

HalfOpen(time, start, end) == time # Null /\ start <= time /\ time < end

\* A scope the compiler accepts.
ScopeAccepted(scope) ==
    /\ \A column \in DOMAIN scope.equals : scope.equals[column] # {}
    /\ IF scope.start # Null \/ scope.end # Null
       THEN /\ Null \notin {scope.time_column, scope.start, scope.end}
            /\ scope.start < scope.end
       ELSE scope.time_column = Null

\* Mutant: NULL is a literal like any other, which no row equals.
EqualsClauseAsLiterals(row, column, values) ==
    row[column] \in values \ {Null}

\* The condition on one column: = or IN for the literals, IS NULL besides.
EqualsClause(row, column, values) ==
    \/ row[column] \in values \ {Null}
    \/ Null \in values /\ row[column] = Null

\* The rows that the compiled WHERE clause keeps.
Scoped(table, scope) ==
    {i \in DOMAIN table :
        /\ \A column \in DOMAIN scope.equals :
              EqualsClause(table[i], column, scope.equals[column])
        /\ scope.start # Null =>
              HalfOpen(table[i][scope.time_column], scope.start, scope.end)}

----------------------------------------------------------------------------
(* Queries: the complete answer, a set of rows.                            *)

NullRateQuery(table, a) ==
    LET rows == Scoped(table, a.scope)
    IN  {<<Cardinality(rows),
           Cardinality({i \in rows : table[i][a.column] = Null})>>}

\* SELECT DISTINCT takes two NULLs for the same key.
DuplicateQuery(table, a) ==
    {<<Len(table),
       Cardinality({[key \in a.keys |-> table[i][key]] :
                      i \in DOMAIN table})>>}

FreshnessQuery(table, a) ==
    LET rows  == Scoped(table, a.scope)
        times == {table[i][a.timestamp_column] : i \in rows} \ {Null}
    IN  {<<Cardinality({i \in rows : table[i][a.timestamp_column] # Null}),
           IF times = {} THEN Null ELSE Max(times)>>}

NewerSnapshot(s, t) ==
    \/ s.version > t.version
    \/ s.version = t.version /\ s.effective_at > t.effective_at

\* ORDER BY version DESC, effective_at DESC LIMIT 2.
SchemaQuery(snapshots) ==
    {s \in snapshots :
        Cardinality({t \in snapshots : NewerSnapshot(t, s)}) < 2}

InBaseline(time, a) == HalfOpen(time, a.baseline_start, a.baseline_end)
InCurrent(time, a)  == HalfOpen(time, a.current_start, a.current_end)

\* CASE gives a row of both windows to the baseline.
WindowOf(row, a) ==
    IF InBaseline(row[a.time_column], a) THEN "baseline" ELSE "current"

\* A cell cast to text, with '<NULL>' for NULL.
Category(cell) == IF cell = Null THEN NullText ELSE cell

DistributionQuery(table, a) ==
    LET windowed == {i \in DOMAIN table :
                        \/ InBaseline(table[i][a.time_column], a)
                        \/ InCurrent(table[i][a.time_column], a)}
        Group(i) == <<WindowOf(table[i], a), Category(table[i][a.column])>>
    IN  {<<Group(i), Cardinality({j \in windowed : Group(j) = Group(i)})>> :
            i \in windowed}

----------------------------------------------------------------------------
(* Verdicts: "passed", "failed" and "inconclusive" are the values of passed *)
(* in a result of status success; "error" is the other status.             *)

IfPassed(condition) == IF condition THEN "passed" ELSE "failed"

NullRateVerdict(row, a) ==
    IfPassed(row[1] # 0 /\ AtMost(row[2], row[1], a.threshold))

DuplicateVerdict(row, a) ==
    IfPassed(row[1] # 0 /\ AtMost(row[1] - row[2], row[1], a.threshold))

FreshnessVerdict(row, a) ==
    IfPassed(/\ row[1] # 0
             /\ a.reference_time - row[2] \in 0 .. a.max_age)

ChangedColumns(previous, current) ==
    SymDiff(DOMAIN previous, DOMAIN current)
        \cup {column \in DOMAIN previous \cap DOMAIN current :
                previous[column] # current[column]}

\* A snapshot whose schema_json does not parse has the schema Null.
SchemaVerdict(rows) ==
    IF \E s \in rows : s.schema = Null THEN "error"
    ELSE IF Cardinality(rows) < 2 THEN "inconclusive"
    ELSE IfPassed(\A s, t \in rows : ChangedColumns(s.schema, t.schema) = {})

CategoriesOf(rows) == {row[1][2] : row \in rows}

Counted(rows) == MapThenSumSet(LAMBDA row : row[2], rows)

CountIn(rows, window, categories) ==
    Counted({row \in rows : row[1][1] = window /\ row[1][2] \in categories})

\* By how much the shares of a category in the two windows differ, times the
\* rows of both windows: their common denominator.
ShareDifference(rows, category) ==
    Abs(CountIn(rows, "current", {category})
            * CountIn(rows, "baseline", CategoriesOf(rows))
        - CountIn(rows, "baseline", {category})
            * CountIn(rows, "current", CategoriesOf(rows)))

Distance(rows) ==
    MapThenSumSet(LAMBDA category : ShareDifference(rows, category), CategoriesOf(rows))

\* The total variation distance is half the sum of the differences; both
\* verdicts are possible where rounding decides.
DistributionVerdicts(rows, truncated, a) ==
    LET baseline == CountIn(rows, "baseline", CategoriesOf(rows))
        current  == CountIn(rows, "current", CategoriesOf(rows))
    IN  IF truncated \/ baseline = 0 \/ current = 0 THEN {"error"}
        ELSE {IfPassed(AtMost(Distance(rows), 2 * baseline * current, bound)) :
                bound \in Bounds(a.threshold)}

----------------------------------------------------------------------------
(* The same questions asked of the table itself, from the documented       *)
(* meaning of each check.                                                  *)

\* A scope names the values a row may have, NULL like any other.
InScope(row, scope) ==
    /\ \A column \in DOMAIN scope.equals : row[column] \in scope.equals[column]
    /\ scope.start # Null =>
          row[scope.time_column] \in scope.start .. (scope.end - 1)

NullsAreRare(table, a) ==
    LET rows == {i \in DOMAIN table : InScope(table[i], a.scope)}
    IN  /\ rows # {}
        /\ AtMost(Cardinality({i \in rows : table[i][a.column] = Null}),
                  Cardinality(rows), a.threshold)

\* A duplicate is a row beyond the first with its combination of keys.
DuplicatesAreRare(table, a) ==
    /\ table # << >>
    /\ AtMost(Cardinality({i \in DOMAIN table : \E j \in 1 .. i - 1 :
                    \A key \in a.keys : table[i][key] = table[j][key]}),
              Len(table), a.threshold)

\* Something in scope is recent, and nothing is later than the reference.
IsFresh(table, a) ==
    LET times == {table[i][a.timestamp_column] :
                    i \in {j \in DOMAIN table : InScope(table[j], a.scope)}}
                 \ {Null}
    IN  /\ \A time \in times : time <= a.reference_time
        /\ \E time \in times : time >= a.reference_time - a.max_age

\* The newest snapshot has the schema of the one before it.
SchemaIsStable(snapshots) ==
    \E s, t \in snapshots :
        /\ \A u \in snapshots \ {s} : NewerSnapshot(s, u)
        /\ s # t
        /\ \A u \in snapshots \ {s, t} : NewerSnapshot(t, u)
        /\ s.schema = t.schema

DisjointWindows(a) ==
    \/ a.baseline_end <= a.current_start
    \/ a.current_end <= a.baseline_start

\* No row says NULL where another says '<NULL>', which the query takes for one.
NullsToldApart(table, column) ==
    ~({Null, NullText} \subseteq {table[i][column] : i \in DOMAIN table})

\* Total variation distance: no set of categories is more likely in one window
\* than in the other by more than the bound.
DistributionIsStable(table, a, bound) ==
    LET baseline == {i \in DOMAIN table :
                        InBaseline(table[i][a.time_column], a)}
        current  == {i \in DOMAIN table :
                        InCurrent(table[i][a.time_column], a)}
        Within(rows, categories) ==
            Cardinality({i \in rows : table[i][a.column] \in categories})
    IN  \A categories \in SUBSET {table[i][a.column] :
                                    i \in baseline \cup current} :
            AtMost(Within(current, categories) * Cardinality(baseline)
                     - Within(baseline, categories) * Cardinality(current),
                   Cardinality(baseline) * Cardinality(current),
                   bound)
=============================================================================
