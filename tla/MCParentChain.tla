---------------------------- MODULE MCParentChain ----------------------------
(* Three taxa; names of two ranks under one code and of one under another. *)
EXTENDS ParentChain, TLC

CONSTANTS t1, t2, t3, genusName, speciesName, foreignName,
          genus, species, botanical, zoological

ThreeNames ==
  genusName :> [rank |-> genus, code |-> botanical, year |-> 1] @@
  speciesName :> [rank |-> species, code |-> botanical, year |-> 2] @@
  foreignName :> [rank |-> genus, code |-> zoological, year |-> EMPTY]

Order == botanical :> <<genus, species>>

Cycle ==
  [kind |-> "no_self_cycle", join |-> TRUE, maxDepth |-> 100,
   match |-> [op |-> "in", ranks |-> {genus}], compare |-> "equals",
   requireAncestor |-> FALSE, skipIfEitherEmpty |-> TRUE]
InGenus == [Cycle EXCEPT !.kind = "ancestor_exists", !.maxDepth = 2]
NotSpecies ==
  [InGenus EXCEPT !.join = FALSE, !.maxDepth = 0,
                  !.match = [op |-> "not_in", ranks |-> {species}]]
NotBeforeGenus ==
  [InGenus EXCEPT !.kind = "ancestor_field_check", !.maxDepth = 3,
                  !.compare = "greater_than_or_equals"]
SameYear ==
  [NotBeforeGenus EXCEPT !.compare = "equals", !.requireAncestor = TRUE,
                         !.skipIfEitherEmpty = FALSE]
AllCompared == [NotBeforeGenus EXCEPT !.skipIfEitherEmpty = FALSE]
RankHigher == [Cycle EXCEPT !.kind = "parent_rank_higher"]
OwnRankHigher == [RankHigher EXCEPT !.join = FALSE]

EightRules == {Cycle, InGenus, NotSpecies, NotBeforeGenus, SameYear, AllCompared,
               RankHigher, OwnRankHigher}
=============================================================================
