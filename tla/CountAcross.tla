---------------------------- MODULE CountAcross ----------------------------
(***************************************************************************)
(* The pure part of usecase/validator/count_across.go, of the rule gating  *)
(* in domain/rule.go and of the neighbourhood walk in                      *)
(* usecase/validate_record.go, as operators over a database value.         *)
(*                                                                         *)
(* A record is a row of one table; a row gives every column a cell: NULL,  *)
(* EMPTY (the empty string) or a value.  A rule is a record of the fields  *)
(* the code reads from domain.Rule and its parameters.                     *)
(***************************************************************************)
EXTENDS Integers, FiniteSets, Sequences

CONSTANTS Tables,
          Records,   \* primary keys of all the tables together
          TableOf,   \* the table a primary key belongs to
          Columns,
          Values,    \* the non-empty cell values
          NULL, EMPTY,
          Absent,    \* the row of a record that does not exist
          NoBound,   \* an expected.min / expected.max that is not set
          Rules      \* the loader's rule list, in order

Cells == Values \cup {NULL, EMPTY}
Rows == [Columns -> Cells]
Databases == [Records -> Rows \cup {Absent}]

(* domain.Rule with the parameters parseCountParams accepts: a non-empty   *)
(* match list and at least one bound.                                      *)
Bounds == [min : Int \cup {NoBound}, max : Int \cup {NoBound}]
            \ {[min |-> NoBound, max |-> NoBound]}
RuleRecords ==
  [on : Tables, active : BOOLEAN,
   conditions : SUBSET [field : Columns, value : Values],
   validator : {"count_across", "presence"}, field : Columns,
   table : Tables, match : (SUBSET [target : Columns, self : Columns]) \ {{}},
   excludeSelf : BOOLEAN, skip : BOOLEAN,
   expected : Bounds]

ASSUME RecordsAssumption == IsFiniteSet(Records)
ASSUME BoundAssumption == NoBound \notin Int
ASSUME TablesAssumption == TableOf \in [Records -> Tables]
ASSUME CellsAssumption == NULL \notin Values /\ EMPTY \notin Values
ASSUME RowsAssumption == Absent \notin Rows
ASSUME RulesAssumption == Rules \in Seq(RuleRecords)

RuleIds == 1 .. Len(Rules)
Verdicts == {"pass", "fail", "none"}

(* validator.isEmpty: nil or the empty string. *)
isEmpty(v) == v \in {NULL, EMPTY}

(* SQL "column = ?": a comparison with NULL is never true. *)
SqlEquals(a, b) == a # NULL /\ a = b

(* skip_if_any_self_empty: some self field of the record is empty. *)
Skips(row, rule) == rule.skip /\ \E m \in rule.match : isEmpty(row[m.self])

(* Defect: exclude_self is ignored.                                        *)
NeverExcluded(x, rule) == {}

(* exclude_self, ignored for cross-table lookups. *)
Excluded(x, rule) ==
  IF rule.excludeSelf /\ rule.table = TableOf[x] THEN {x} ELSE {}

(* The rows the WHERE clause of buildCountQuery and buildNeighborhoodQuery *)
(* selects in database D for record x whose fields are row.                *)
Matching(D, x, row, rule) ==
  {y \in Records : /\ TableOf[y] = rule.table
                   /\ D[y] # Absent
                   /\ \A m \in rule.match : SqlEquals(D[y][m.target], row[m.self])}
    \ Excluded(x, rule)

(* Both bounds are inclusive; one that is not set does not constrain. *)
Within(n, expected) ==
  /\ expected.min # NoBound => n >= expected.min
  /\ expected.max # NoBound => n <= expected.max

(* CountAcrossValidator.Validate *)
CountPasses(D, x, row, rule) ==
  \/ Skips(row, rule)
  \/ Within(Cardinality(Matching(D, x, row, rule)), rule.expected)

(* EvalConditions over "equals" conditions on the record's own fields. *)
EvalConditions(row, rule) ==
  /\ rule.active
  /\ \A c \in rule.conditions : row[c.field] = c.value

(* PresenceValidator.Validate *)
PresencePasses(row, rule) == ~ isEmpty(row[rule.field])

(* What Execute reports for one rule: nothing when the rule is of another  *)
(* table, inactive or its conditions are unmet.  Only count_across looks   *)
(* at other rows; PresenceValidator stands for those that do not.          *)
Validate(D, x, row, rule) ==
  IF \/ row = Absent
     \/ rule.on # TableOf[x]
     \/ ~ EvalConditions(row, rule)
  THEN "none"
  ELSE IF \/ rule.validator = "count_across" /\ CountPasses(D, x, row, rule)
          \/ rule.validator = "presence" /\ PresencePasses(row, rule)
       THEN "pass"
       ELSE "fail"

(* Defects: only the first matching row is read (QueryRow); empty fields   *)
(* are always skipped, whatever skip_if_any_self_empty says.               *)
FirstNeighbor(D, x, row, rule) ==
  IF Skips(row, rule) \/ Matching(D, x, row, rule) = {} THEN {}
  ELSE {CHOOSE y \in Matching(D, x, row, rule) : TRUE}
NeighborhoodSkipsEmpty(D, x, row, rule) ==
  IF \E m \in rule.match : isEmpty(row[m.self]) THEN {}
  ELSE Matching(D, x, row, rule)

(* CountAcrossValidator.Neighborhood: conditions are not consulted. *)
Neighborhood(D, x, row, rule) ==
  IF Skips(row, rule) THEN {} ELSE Matching(D, x, row, rule)

(* The field values providers read from a record map: a key missing from   *)
(* a nil map reads as nil.                                                 *)
FieldsOf(row) == IF row = Absent THEN [c \in Columns |-> NULL] ELSE row

(* The rules whose turn of the loop asks: active, of x's table, with a     *)
(* validator that is a NeighborhoodProvider (validate_record.go 95-106).   *)
Provides(x, i) ==
  /\ Rules[i].on = TableOf[x]
  /\ Rules[i].active
  /\ Rules[i].validator = "count_across"

(* What rule i's turn of the loop of NeighborhoodsFromRecord yields in     *)
(* database D.                                                             *)
NeighborsBy(D, x, row, i) ==
  IF Provides(x, i) THEN Neighborhood(D, x, FieldsOf(row), Rules[i]) ELSE {}

(* The whole loop over one database, as a set: the code removes duplicates *)
(* by (table, id).                                                         *)
NeighborhoodsFromRecord(D, x, row) ==
  UNION {NeighborsBy(D, x, row, i) : i \in RuleIds}
=============================================================================
