--------------------------- MODULE MCRevalidation ---------------------------
(* Instances of Revalidation for TLC: a table of books that one rule or    *)
(* several count by name, and a rule that counts across two tables.        *)
EXTENDS Revalidation, TLC

CONSTANTS r1, r2, r3, book, shelf, name, place

OneTable == [r \in Records |-> book]
ShelfAndBooks == [r \in Records |-> IF r = r1 THEN shelf ELSE book]

Same(c) == [target |-> c, self |-> c]

(* No other book has this name.                                            *)
Unique ==
  [on |-> book, active |-> TRUE, conditions |-> {}, validator |-> "count_across",
   field |-> name, table |-> book, match |-> {Same(name)}, excludeSelf |-> TRUE,
   skip |-> TRUE, expected |-> [min |-> NoBound, max |-> 0]]

(* Exactly two books have this name, itself included, empty names counted. *)
Paired == [Unique EXCEPT !.excludeSelf = FALSE, !.skip = FALSE,
                         !.expected = [min |-> 2, max |-> 2]]

(* The name is set, where it is an "a"; the rule gated by a condition.     *)
Named == [Unique EXCEPT !.validator = "presence"]
UniqueIfA == [Unique EXCEPT !.conditions = {[field |-> name, value |-> "a"]}]
Retired == [Unique EXCEPT !.active = FALSE]

(* Every shelf has a book whose place is the shelf's name.                 *)
ShelfInUse ==
  [Unique EXCEPT !.on = shelf, !.match = {[target |-> place, self |-> name]},
                 !.expected = [min |-> 1, max |-> NoBound]]

UniquePaired == <<Unique, Paired>>
MixedRules == <<UniqueIfA, Named, Retired>>
CrossTable == <<ShelfInUse>>

Twins == Permutations(Records) \cup Permutations(Writers)
=============================================================================
