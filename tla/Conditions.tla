----------------------------- MODULE Conditions -----------------------------
(***************************************************************************)
(* Rule conditions (domain/condition.go) and the comparisons validators    *)
(* use (domain/operator.go).  The two coerce differently: a condition      *)
(* compares as numbers whatever reads as numbers, a validator compares     *)
(* what its operands print as.                                             *)
(*                                                                         *)
(* A value is NULL or a record of what the code reads off it:              *)
(*   str    what %v prints: 1000000 for an integer a column holds, 1e+06   *)
(*          for the same number in a JSON rule                             *)
(*   num    what ParseFloat makes of it, NaN if it refuses                 *)
(*   scan   what Sscanf("%f") makes of it, which stops at the first        *)
(*          character that is not of a number                              *)
(*   len    its length in bytes                                            *)
(*   type   "text", "number" or "bool": what DeepEqual tells apart although *)
(*          it prints alike                                                *)
(* A row is a function over its columns; NoRow, a nil map, has none.       *)
(***************************************************************************)
EXTENDS Integers

CONSTANTS NULL, NaN,
          OwnRecord      \* the relation of a condition that names none

NoRow == [f \in {} |-> NULL]

(* A missing key of a Go map reads as nil.                                 *)
Get(row, f) == IF f \in DOMAIN row THEN row[f] ELSE NULL

(* resolveConditionValue: {"field": f} stands for the record's own f, also *)
(* in a condition on a related row.                                        *)
Comparison(c, record) ==
  IF c.value.kind = "field" THEN [kind |-> "literal", is |-> Get(record, c.value.is)]
  ELSE c.value

(* reflect.DeepEqual, of two scalars                                       *)
DeepEqual(a, b) == a.type = b.type /\ a.str = b.str

(* compareValues with "=="                                                 *)
Same(a, b) ==
  \/ a = NULL /\ b = NULL
  \/ a # NULL /\ b # NULL /\ IF a.num # NaN /\ b.num # NaN THEN a.num = b.num ELSE DeepEqual(a, b)

(* compareValues against an operand that is no scalar is DeepEqual: false. *)
Equal(v, w) == w.kind = "literal" /\ Same(v, w.is)

(* inSlice: an operand that is no list contains nothing.                   *)
InSlice(v, w) == w.kind = "list" /\ \E item \in w.is : Same(v, item)

Numbers(v, w) ==
  /\ w.kind = "literal" /\ v # NULL /\ w.is # NULL
  /\ v.num # NaN /\ w.is.num # NaN

(* fmt.Sprintf("%v"), against the strings a substring or pattern matches.  *)
Matches(v, w) == w.kind = "pattern" /\ (IF v = NULL THEN "<nil>" ELSE v.str) \in w.is

(* Condition.evaluate: given says that the row has the field at all.       *)
evaluate(operator, v, given, w) ==
  \/ operator = "exists" /\ given /\ v # NULL
  \/ operator = "not_exists" /\ (given => v = NULL)
  \/ operator = "equals" /\ given /\ Equal(v, w)
  \/ operator = "not_equals" /\ (given => ~ Equal(v, w))
  \/ operator = "in" /\ given /\ InSlice(v, w)
  \/ operator = "not_in" /\ (given => ~ InSlice(v, w))
  \/ operator = "greater_than" /\ given /\ Numbers(v, w) /\ v.num > w.is.num
  \/ operator = "less_than" /\ given /\ Numbers(v, w) /\ v.num < w.is.num
  \/ operator \in {"contains", "matches"} /\ given /\ Matches(v, w)

(* The condition on a row: the record itself or the related row.           *)
Holds(c, row, record) ==
  evaluate(c.operator, Get(row, c.field), c.field \in DOMAIN row, Comparison(c, record))

(* domain.isEmpty and validator.isEmpty                                    *)
isEmpty(v) == v = NULL \/ v.str = ""

(* equalValues                                                             *)
equalValues(a, b) ==
  IF a = NULL \/ b = NULL THEN a = NULL /\ b = NULL ELSE a.str = b.str

(* toString                                                                *)
toString(v) == IF v = NULL THEN "" ELSE v.str

(* inSet: the elements of a rule's JSON array, as they print.              *)
inSet(v, allowed) == \E a \in allowed : toString(a) = toString(v)
=============================================================================
