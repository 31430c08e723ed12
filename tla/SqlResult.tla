----------------------------- MODULE SqlResult -----------------------------
(***************************************************************************)
(* The read-only guard in front of a SQL query, and the validation of its  *)
(* bounded result.  A statement is what the two parsers say of the text:   *)
(*                                                                         *)
(*   count       how many statements it holds                              *)
(*   class       "SELECT", "DESCRIBE", "EXPLAIN" or "other"                *)
(*   native      DuckDB's own classification                               *)
(*   forbidden   does the query, or the one explained or described,        *)
(*               contain a node that writes?                               *)
(*   joins       "conditioned" unless a join is "cross" or "unconditioned" *)
(*   aggregates  the aggregation structures it matches                     *)
(*   columns     the type of each output column                            *)
(*   answer      the complete answer, a set of rows                        *)
(*   ends        does it end without being interrupted?                    *)
(*                                                                         *)
(* A response has one row count, its number of rows, and rows of the shape *)
(* of its columns: the checks for anything else cannot fail on a response  *)
(* of the SQL runner and are left out.                                     *)
(***************************************************************************)
EXTENDS Integers, FiniteSets

CONSTANT Absent     \* a bound, limit or aggregation that is not given

\* What DuckDB must call a statement of each permitted class.
NativeClass(class) == IF class = "EXPLAIN" THEN "EXPLAIN" ELSE "SELECT"

IsReadOnly(statement) ==
    /\ statement.count = 1
    /\ statement.class \in {"SELECT", "DESCRIBE", "EXPLAIN"}
    /\ ~statement.forbidden
    /\ statement.native = NativeClass(statement.class)

Aliases ==
    [INT |-> "INTEGER", INT4 |-> "INTEGER", INT8 |-> "BIGINT",
     FLOAT8 |-> "DOUBLE", BOOL |-> "BOOLEAN", DATETIME |-> "TIMESTAMP",
     STRING |-> "VARCHAR"]

Normalised(type) == IF type \in DOMAIN Aliases THEN Aliases[type] ELSE type

\* A metric's expectation applies to a result with exactly its columns.
Expectation(explicit, metric, columns, max_rows) ==
    IF explicit # Absent THEN explicit
    ELSE IF metric # Absent /\ DOMAIN columns = DOMAIN metric.types THEN metric
    ELSE [types |-> << >>, ranges |-> << >>, aggregation |-> Absent,
          max_result_rows |-> max_rows, allow_empty |-> FALSE]

InRange(cell, range) ==
    /\ cell \in Int
    /\ range.minimum # Absent => range.minimum <= cell
    /\ range.maximum # Absent => cell <= range.maximum

StructureHolds(statement, expectation) ==
    /\ statement.joins = "conditioned"
    /\ \/ expectation.aggregation = Absent
       \/ expectation.aggregation \in statement.aggregates

ColumnsHold(columns, expectation) ==
    /\ DOMAIN expectation.types \cup DOMAIN expectation.ranges
          \subseteq DOMAIN columns
    /\ \A column \in DOMAIN expectation.types :
          Normalised(columns[column]) = Normalised(expectation.types[column])

RowsHold(rows, expectation) ==
    /\ rows # {} \/ expectation.allow_empty
    /\ \A column \in DOMAIN expectation.ranges : \A row \in rows :
          InRange(row[column], expectation.ranges[column])
    /\ \/ expectation.max_result_rows = Absent
       \/ Cardinality(rows) <= expectation.max_result_rows

\* The result validation passes.
Usable(response, statement, expectation) ==
    /\ response.status = "success"
    /\ ~response.truncated
    /\ ColumnsHold(statement.columns, expectation)
    /\ StructureHolds(statement, expectation)
    /\ RowsHold(response.rows, expectation)
=============================================================================
