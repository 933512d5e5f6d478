---------------------------- MODULE Requirements ----------------------------
(***************************************************************************)
(* CheckRequires (usecase/requires_check.go): the tables, columns and      *)
(* relations a bundle requires (domain/requires.go) against the live       *)
(* database.  Every table is introspected once, by a query of its own, and *)
(* a migration may alter the schema between two of them.                   *)
(*                                                                         *)
(* A table's shape gives every column its declared type, or None where it  *)
(* has no such column; a table without columns does not exist.             *)
(***************************************************************************)
EXTENDS Naturals

CONSTANTS SchemaTables, Columns,
          Unsafe,          \* the tables whose name cannot be quoted
          Types,           \* declared column types
          Relations,       \* relation names
          Shapes,          \* what a table may look like, if it exists
          Schemas,         \* the databases a check may find
          Missing,         \* no such column, no table in a malformed spec
          MaxMigrations    \* bound on the schema changes during a check

ASSUME SchemaAssumption ==
  /\ Unsafe \subseteq SchemaTables
  /\ Missing \notin Types \cup SchemaTables
  /\ Shapes \subseteq [Columns -> Types \cup {Missing}]
  /\ MaxMigrations \in Nat

NoShape == [k \in Columns |-> Missing]
NoTables == [t \in SchemaTables |-> NoShape]

ASSUME SchemasAssumption == Schemas \subseteq [SchemaTables -> Shapes \cup {NoShape}]

(* domain.Requires: "table.column" keys with a type.  A key that is not of *)
(* that form has no table.                                                 *)
ColumnSpecs ==
  [table : SchemaTables \cup {Missing}, column : Columns, type : Types]
RequiresRecords ==
  [tables : SUBSET SchemaTables, columns : SUBSET ColumnSpecs, relations : SUBSET Relations]

IsEmpty(req) == req.tables = {} /\ req.columns = {} /\ req.relations = {}

VARIABLES schema,        \* the live database, as far as the check is concerned
          migrations,
          shapes,        \* history: each table's shapes since the check began
          stage,         \* "off", "introspect", "error" or "done"
          req,           \* the requirements being checked
          available,     \* availableRelations
          tablesToCheck,
          tableCols,     \* the shapes the check has seen
          report         \* RequiresError

checkVars ==
  <<schema, migrations, shapes, stage, req, available, tablesToCheck, tableCols, report>>

NoReport == [tables |-> {}, columns |-> {}, types |-> {}, relations |-> {}]
NoRequires == [tables |-> {}, columns |-> {}, relations |-> {}]

CheckTypeOK ==
  /\ schema \in [SchemaTables -> Shapes \cup {NoShape}]
  /\ migrations \in 0 .. MaxMigrations
  /\ shapes \in [SchemaTables -> SUBSET (Shapes \cup {NoShape})]
  /\ stage \in {"off", "introspect", "error", "done"}
  /\ req.tables \subseteq SchemaTables /\ req.columns \subseteq ColumnSpecs
  /\ req.relations \subseteq Relations /\ available \subseteq Relations
  /\ tablesToCheck \subseteq SchemaTables
  /\ tableCols \in [SchemaTables -> Shapes \cup {NoShape}]
  /\ report.tables \subseteq SchemaTables
  /\ report.columns \cup report.types \subseteq ColumnSpecs
  /\ report.relations \subseteq Relations

CheckInit ==
  /\ stage = "off" /\ req = NoRequires /\ available = {} /\ tablesToCheck = {}
  /\ schema = NoTables /\ tableCols = NoTables /\ migrations = 0
  /\ shapes = [t \in SchemaTables |-> {}] /\ report = NoReport

(* A migration creates, alters or drops a table while a check runs.        *)
Migrate(t, shape) ==
  /\ stage = "introspect"
  /\ migrations < MaxMigrations /\ shape # schema[t]
  /\ schema' = [schema EXCEPT ![t] = shape]
  /\ shapes' = [shapes EXCEPT ![t] = @ \cup {shape}]
  /\ migrations' = migrations + 1
  /\ UNCHANGED <<stage, req, available, tablesToCheck, tableCols, report>>

(* splitColumnSpec succeeds.                                               *)
WellFormed(spec) == spec.table # Missing

(* tablesToCheck, with parsedColumnTables                                  *)
Mentioned(r) == r.tables \cup {s.table : s \in {s \in r.columns : WellFormed(s)}}

Begin(r, relations, found) ==
  /\ stage = "off"
  /\ schema' = found
  /\ req' = r /\ available' = relations
  /\ tablesToCheck' = Mentioned(r)
  /\ shapes' = [t \in SchemaTables |-> {found[t]}]
  /\ stage' = IF IsEmpty(r) THEN "done" ELSE "introspect"
  /\ UNCHANGED <<migrations, tableCols, report>>

(* introspectTable; the loop runs over a map, in any order.                *)
Introspect(t) ==
  /\ stage = "introspect" /\ t \in tablesToCheck
  /\ t \notin Unsafe
  /\ tableCols' = [tableCols EXCEPT ![t] = schema[t]]
  /\ tablesToCheck' = tablesToCheck \ {t}
  /\ UNCHANGED <<schema, migrations, shapes, stage, req, available, report>>

(* A name that cannot be quoted, or a query that fails, ends the check.    *)
IntrospectFails ==
  /\ stage = "introspect" /\ tablesToCheck # {}
  /\ stage' = "error"
  /\ UNCHANGED <<schema, migrations, shapes, req, available, tablesToCheck, tableCols, report>>

normalizeType(t) ==
  CASE t \in {"text", "varchar", "string", "char", "clob", "date", "datetime", "timestamp"} -> "text"
    [] t \in {"int", "integer", "int64", "int32", "bigint", "smallint", "bool", "boolean"} -> "integer"
    [] t \in {"real", "float", "double", "decimal", "numeric"} -> "real"
    [] t \in {"blob", "bytes", ""} -> "blob"
    [] OTHER -> t

typesCompatible(expected, actual) == normalizeType(expected) = normalizeType(actual)

(* Defect: the column checks look at the database again.                   *)
ColumnsNow(t) == schema[t]

ColumnsSeen(t) == tableCols[t]

Exists(t) == tableCols[t] # NoShape

(* The columns of a table that is missing are not reported once more.      *)
MissingColumns ==
  {s \in req.columns : ~ WellFormed(s)} \cup
  {s \in req.columns : WellFormed(s) /\ Exists(s.table) /\ ColumnsSeen(s.table)[s.column] = Missing}

TypeMismatches ==
  {s \in req.columns : /\ WellFormed(s) /\ Exists(s.table)
                       /\ ColumnsSeen(s.table)[s.column] # Missing
                       /\ ~ typesCompatible(s.type, ColumnsSeen(s.table)[s.column])}

Conclude ==
  /\ stage = "introspect" /\ tablesToCheck = {}
  /\ report' = [tables |-> {t \in Mentioned(req) : ~ Exists(t)},
                columns |-> MissingColumns,
                types |-> TypeMismatches,
                relations |-> req.relations \ available]
  /\ stage' = "done"
  /\ UNCHANGED <<schema, migrations, shapes, req, available, tablesToCheck, tableCols>>

(* RequiresError.HasIssues                                                 *)
HasIssues(r) == r # NoReport

(* The consumer has the answer.                                            *)
EndCheck ==
  /\ stage \in {"error", "done"}
  /\ stage' = "off" /\ req' = NoRequires /\ available' = {} /\ tablesToCheck' = {}
  /\ schema' = NoTables /\ tableCols' = NoTables /\ migrations' = 0
  /\ shapes' = [t \in SchemaTables |-> {}] /\ report' = NoReport

CheckStep ==
  \/ \E t \in SchemaTables, shape \in Shapes \cup {NoShape} : Migrate(t, shape)
  \/ \E t \in SchemaTables : Introspect(t)
  \/ IntrospectFails \/ Conclude
-----------------------------------------------------------------------------
(* One shape per table, each of a moment during the check.                 *)
Moments == {m \in [SchemaTables -> Shapes \cup {NoShape}] :
              \A t \in SchemaTables : m[t] \in shapes[t]}

HasColumn(m, s) == m[s.table][s.column] # Missing
RightType(m, s) == typesCompatible(s.type, m[s.table][s.column])

Met(m) ==
  /\ \A t \in req.tables : m[t] # NoShape
  /\ \A s \in req.columns : WellFormed(s) /\ HasColumn(m, s) /\ RightType(m, s)
  /\ req.relations \subseteq available

(* The report agrees with one look at each table: it is clean exactly if   *)
(* all that is required was there, every table is judged as one shape it   *)
(* had, a missing one instead of its columns and never beside them, and no *)
(* column is reported both missing and mistyped, whatever a migration does *)
(* between two queries (requires_check.go 78-137).                         *)
ReportIsOneLook ==
  stage = "done" =>
    \E m \in Moments :
      /\ HasIssues(report) <=> ~ Met(m)
      /\ report.tables = {t \in Mentioned(req) : m[t] = NoShape}
      /\ report.columns \cap report.types = {}
      /\ \A s \in req.columns :
           LET judged == WellFormed(s) => s.table \notin report.tables
               bad == ~ WellFormed(s) \/ ~ HasColumn(m, s) \/ ~ RightType(m, s)
           IN  s \in report.columns \cup report.types <=> judged /\ bad
=============================================================================
