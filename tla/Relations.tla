------------------------------ MODULE Relations ------------------------------
(***************************************************************************)
(* RelationResolver (usecase/joins/resolver.go): a named relation is a     *)
(* chain of joins from a record, rendered as one SQL query.  The query is  *)
(* modelled by what it selects; a step names tables and aliases as the     *)
(* query does, so a self-join without an alias is the query that SQLite    *)
(* refuses, and a target that names the source table projects the source.  *)
(***************************************************************************)
EXTENDS Conditions, Sequences, FiniteSets

CONSTANTS Records,      \* primary keys of all the tables together
          TableOf,      \* the table a primary key belongs to
          Absent,       \* the row of a record that does not exist
          NoName        \* an alias that is not set

(* What the FROM clause brings in scope: the source, then one per step.    *)
ScopeName(source, rel, k) ==
  IF k = 0 THEN source
  ELSE IF rel.join[k].alias # NoName THEN rel.join[k].alias ELSE rel.join[k].to

(* TargetAlias names a scope if it is set, TargetTable otherwise.          *)
Target(rel) == IF rel.targetAlias # NoName THEN rel.targetAlias ELSE rel.targetTable

(* buildRelationQuery renders a query that SQLite accepts: every name is   *)
(* one table or alias of the FROM clause, be it brought in by a later join.*)
Wellformed(source, rel) ==
  LET n == Len(rel.join)
  IN  /\ n > 0
      /\ \A k, l \in 0 .. n : ScopeName(source, rel, k) = ScopeName(source, rel, l) => k = l
      /\ \A k \in 1 .. n : \E l \in 0 .. n : rel.join[k].from = ScopeName(source, rel, l)
      /\ \E k \in 0 .. n : Target(rel) = ScopeName(source, rel, k)

(* ResolveOne refuses a relation that is not declared or declared many.    *)
Resolvable(relations, source, name) ==
  /\ name \in DOMAIN relations
  /\ relations[name].cardinality # "many"
  /\ Wellformed(source, relations[name])

(* SQL "a = b"                                                             *)
SqlEquals(a, b) == a # NULL /\ b # NULL /\ a = b

Filtered(row, step) == \A f \in step.where : SqlEquals(row[f.column], f.equals)

(* The ways to pick a row per scope that satisfy every ON clause.          *)
Joined(D, x, rel) ==
  {b \in [0 .. Len(rel.join) -> {y \in Records : D[y] # Absent}] :
     /\ b[0] = x
     /\ \A k \in 1 .. Len(rel.join) : TableOf[b[k]] = rel.join[k].to
     /\ \A k \in 1 .. Len(rel.join) :
          LET step == rel.join[k]
          IN  /\ \E l \in 0 .. Len(rel.join) :
                   /\ step.from = ScopeName(TableOf[x], rel, l)
                   /\ SqlEquals(D[b[l]][step.fromColumn], D[b[k]][step.toColumn])
              /\ Filtered(D[b[k]], step)}

(* The rows ResolveMany returns, as records.                               *)
Related(D, x, rel) ==
  LET at == CHOOSE k \in 0 .. Len(rel.join) : Target(rel) = ScopeName(TableOf[x], rel, k)
  IN  {b[at] : b \in Joined(D, x, rel)}

(* What ResolveOne may return: LIMIT 1 without an order picks any of the   *)
(* rows; none is a nil map and no error.                                   *)
ResolveOne(D, x, rel) ==
  IF Related(D, x, rel) = {} THEN {NoRow} ELSE {D[y] : y \in Related(D, x, rel)}
=============================================================================
