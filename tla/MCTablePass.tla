----------------------------- MODULE MCTablePass -----------------------------
(* Instances of TablePass for TLC: books with a unique name.               *)
EXTENDS TablePass

CONSTANTS r1, r2, r3, book, name

OneTable == [r \in Records |-> book]

Unique ==
  [on |-> book, active |-> TRUE, conditions |-> {}, validator |-> "count_across",
   field |-> name, table |-> book, match |-> {[target |-> name, self |-> name]},
   excludeSelf |-> TRUE, skip |-> TRUE, expected |-> [min |-> NoBound, max |-> 0]]
Named == [Unique EXCEPT !.validator = "presence"]
UniqueIfA == [Unique EXCEPT !.conditions = {[field |-> name, value |-> "a"]}]
Retired == [Named EXCEPT !.active = FALSE]

Label(e, s, t) == [enforcement |-> e, severity |-> s, validationType |-> t]

(* A hard rule shown as a warning, a soft one shown as an error, a legacy  *)
(* rule and one with no labels.                                            *)
FourRules == <<Unique, Named, Retired, UniqueIfA>>
FourLabels == <<Label("hard", "warn", ""), Label("soft", "error", "other"),
                Label("", "", "hard"), Label("", "", "")>>

Setup(hasId, gated, registered) ==
  [hasId |-> hasId, gated |-> gated, registered |-> registered]
Validators == {"count_across", "presence"}

(* The plain case; a gate on the inactive rule, a gate on the rule with a  *)
(* condition, a validator nobody registered, a table keyed by another name.*)
AllSetups ==
  {Setup(TRUE, {}, Validators), Setup(TRUE, {3}, Validators),
   Setup(TRUE, {4}, Validators), Setup(TRUE, {}, {"count_across"}),
   Setup(FALSE, {}, Validators)}
OtherKey == {Setup(FALSE, {}, Validators)}
Gated == {Setup(TRUE, {1}, Validators)}
=============================================================================
