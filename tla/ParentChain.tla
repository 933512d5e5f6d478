----------------------------- MODULE ParentChain -----------------------------
(***************************************************************************)
(* The validators of a tree encoded as (pk, parent): no_self_cycle,        *)
(* ancestor_exists, ancestor_field_check and parent_rank_higher            *)
(* (usecase/validator).  One call of Validate is a lookup of the record's  *)
(* own fields, where the validator makes one, and then one more statement: *)
(* a recursive query, run as SQLite runs it - a row leaves the queue, the  *)
(* recursive term is evaluated for it, and what UNION has not seen before  *)
(* is queued - or the lookup of the parent's fields.                       *)
(*                                                                         *)
(* A taxon's rank, code and year are on its name row.  With "join" they    *)
(* are read from there, and a taxon without a name yields no row; without  *)
(* it they stand for columns of the taxon, which are NULL then.            *)
(***************************************************************************)
EXTENDS Integers, Sequences

CONSTANTS Taxa, Self,      \* the taxa, and the one that is validated
          NameIds, Names,  \* the name rows: [rank, code, year]
          Ranks, Codes,
          RankOrder,       \* parent_rank_higher: code to list of ranks
          NULL, EMPTY,
          Absent,          \* no row
          RuleSet,         \* the rules to validate with
          MaxWrites        \* bound on the concurrent writes

Empty == {NULL, EMPTY}
Fields == [rank : Ranks \cup Empty, code : Codes \cup Empty, year : Nat \cup Empty]
Blank == [rank |-> NULL, code |-> NULL, year |-> NULL]
Rows == [parent : Taxa \cup Empty, name : NameIds \cup {NULL}]
Trees == [Taxa -> Rows \cup {Absent}]

Kinds == {"no_self_cycle", "ancestor_exists", "ancestor_field_check",
          "parent_rank_higher"}

(* The parameters of the four validators together.  max_depth is positive, *)
(* or 0: what a fraction below 1 is truncated to.                          *)
RuleRecords ==
  [kind : Kinds, join : BOOLEAN, maxDepth : Nat,
   match : [op : {"in", "not_in"}, ranks : (SUBSET Ranks) \ {{}}],
   compare : {"equals", "greater_than_or_equals"},
   requireAncestor : BOOLEAN, skipIfEitherEmpty : BOOLEAN]

(* What parseParentRankHigherParams accepts as rank_order.                 *)
IsRankOrder(order) ==
  /\ DOMAIN order # {} /\ DOMAIN order \subseteq Codes
  /\ \A c \in DOMAIN order : order[c] \in Seq(Ranks) /\ order[c] # <<>>

ASSUME TaxaAssumption == Self \in Taxa /\ Taxa \cap Empty = {}
ASSUME NamesAssumption == Names \in [NameIds -> Fields] /\ NULL \notin NameIds
ASSUME RanksAssumption == (Ranks \cup Codes) \cap Empty = {}
ASSUME AbsentAssumption == Absent \notin Rows /\ Absent \notin Fields
ASSUME OrderAssumption == IsRankOrder(RankOrder)
ASSUME RulesAssumption == RuleSet \subseteq RuleRecords
ASSUME WritesAssumption == MaxWrites \in Nat

VARIABLES tree,
          rule,
          pc,
          self,      \* the record's own fields, once looked up
          chain,     \* the rows of the recursive query: <<id, depth>>
          queue,     \* those the recursive term has yet to be evaluated for
          verdict,
          writes,
          upThen     \* history: the parent's fields at the first statement

vars == <<tree, rule, pc, self, chain, queue, verdict, writes, upThen>>

(* The walk of no_self_cycle has no depth column: 0 stands for it.         *)
HasDepth == rule.kind # "no_self_cycle"
Depths == IF HasDepth THEN 1 .. (IF rule.maxDepth = 0 THEN 1 ELSE rule.maxDepth)
          ELSE {0}

TypeOK ==
  /\ tree \in Trees /\ rule \in RuleSet
  /\ pc \in {"start", "second", "walk", "done"}
  /\ self \in Fields \cup {Absent}
  /\ chain \subseteq (Taxa \cup Empty) \X Depths /\ queue \subseteq chain
  /\ verdict \in {"none", "pass", "fail", "error", "failed"}
  /\ writes \in 0 .. MaxWrites /\ upThen \in Fields \cup {Absent}

Init ==
  /\ tree \in Trees /\ tree[Self] # Absent
  /\ rule \in RuleSet
  /\ pc = "start" /\ self = Absent
  /\ chain = {} /\ queue = {}
  /\ verdict = "none"
  /\ writes = 0 /\ upThen = Absent

(* Another process writes between the two statements of a call.  A         *)
(* statement reads one snapshot, so no other moment matters.               *)
Write(x, row) ==
  /\ pc = "second"
  /\ writes < MaxWrites
  /\ row # tree[x]
  /\ tree' = [tree EXCEPT ![x] = row]
  /\ writes' = writes + 1
  /\ UNCHANGED <<rule, pc, self, chain, queue, verdict, upThen>>

isEmpty(v) == v \in Empty

(* buildSelfValueQuery, buildRankCodeLookup: the fields of x in tree T, or *)
(* no row.                                                                 *)
Lookup(T, x, join) ==
  IF x \notin Taxa THEN Absent
  ELSE IF T[x] = Absent THEN Absent
  ELSE IF T[x].name # NULL THEN Names[T[x].name]
  ELSE IF join THEN Absent ELSE Blank

ParentFields(T, x, join) ==
  IF T[x] = Absent THEN Absent ELSE Lookup(T, T[x].parent, join)

Unranked(fields) == isEmpty(fields.rank) \/ isEmpty(fields.code)

Answer(v) == pc' = "done" /\ verdict' = v

(* The first statement of ancestor_field_check and parent_rank_higher.  No *)
(* row, or no rank to compare, and the record passes.                      *)
LoadSelf ==
  /\ pc = "start"
  /\ rule.kind \in {"ancestor_field_check", "parent_rank_higher"}
  /\ self' = Lookup(tree, Self, rule.join)
  /\ IF self' = Absent \/ (rule.kind = "parent_rank_higher" /\ Unranked(self'))
     THEN Answer("pass")
     ELSE pc' = "second" /\ UNCHANGED verdict
  /\ upThen' = IF rule.kind = "parent_rank_higher"
               THEN ParentFields(tree, Self, rule.join) ELSE Absent
  /\ UNCHANGED <<tree, rule, chain, queue, writes>>

(* Defect: the walk starts at the record instead of its parent.            *)
SelfSeed(T, r) == {<<Self, 0>>}

(* SELECT parent FROM table WHERE pk = ?                                   *)
FirstRows(T, r) ==
  IF T[Self] = Absent THEN {}
  ELSE {<<T[Self].parent, IF r.kind = "no_self_cycle" THEN 0 ELSE 1>>}

Seed ==
  /\ \/ pc = "start" /\ rule.kind \in {"no_self_cycle", "ancestor_exists"}
     \/ pc = "second" /\ rule.kind = "ancestor_field_check"
  /\ chain' = FirstRows(tree, rule)
  /\ queue' = chain'
  /\ pc' = "walk"
  /\ UNCHANGED <<tree, rule, self, verdict, writes, upThen>>

(* Defect: the depth is capped one hop late.                               *)
BelowCapLate(depth, r) == depth <= r.maxDepth

BelowCap(depth, r) == depth < r.maxDepth

(* The recursive term for one row: the parent of the taxon it names.  The  *)
(* walk of no_self_cycle drops empty parents; the others keep them, and    *)
(* stop below max_depth.                                                   *)
Recurse(T, r, id, depth) ==
  IF id \notin Taxa THEN {}
  ELSE IF T[id] = Absent THEN {}
  ELSE IF r.kind = "no_self_cycle"
       THEN IF isEmpty(T[id].parent) THEN {} ELSE {<<T[id].parent, 0>>}
       ELSE IF BelowCap(depth, r) THEN {<<T[id].parent, depth + 1>>} ELSE {}

(* Defect: UNION ALL.                                                      *)
UnionAll(rows) == rows

Union(rows) == rows \ chain

Step(row) ==
  /\ pc = "walk"
  /\ row \in queue
  /\ LET new == Union(Recurse(tree, rule, row[1], row[2]))
     IN  /\ chain' = chain \cup new
         /\ queue' = (queue \ {row}) \cup new
  /\ UNCHANGED <<tree, rule, pc, self, verdict, writes, upThen>>

(* renderAncestorMatch: a comparison with NULL holds for neither operator. *)
Matches(fields, match) ==
  /\ fields # Absent
  /\ fields.rank # NULL
  /\ IF match.op = "in" THEN fields.rank \in match.ranks
                        ELSE fields.rank \notin match.ranks

Found == {row \in chain : Matches(Lookup(tree, row[1], rule.join), rule.match)}

(* compareFieldValues: equals compares NULLs too, the numeric operators    *)
(* refuse what is not a number.                                            *)
Compared(mine, theirs, r) ==
  IF r.skipIfEitherEmpty /\ (isEmpty(mine) \/ isEmpty(theirs)) THEN "pass"
  ELSE IF r.compare = "equals" THEN IF mine = theirs THEN "pass" ELSE "fail"
  ELSE IF isEmpty(mine) \/ isEmpty(theirs) THEN "error"
  ELSE IF mine >= theirs THEN "pass" ELSE "fail"

(* Defect: ORDER BY depth DESC.                                            *)
Farthest(rows) == CHOOSE row \in rows : \A other \in rows : row[2] >= other[2]

(* ORDER BY depth LIMIT 1 *)
Nearest(rows) == CHOOSE row \in rows : \A other \in rows : row[2] <= other[2]

(* The outer SELECT, once the queue is empty: how many rows are there that *)
(* are the record itself, of those that match, or the nearest match.       *)
Walked(kind) == pc = "walk" /\ queue = {} /\ rule.kind = kind
Keep == UNCHANGED <<tree, rule, self, chain, queue, writes, upThen>>

SelectSelf ==
  /\ Walked("no_self_cycle")
  /\ Answer(IF \E row \in chain : row[1] = Self THEN "fail" ELSE "pass")
  /\ Keep

SelectMatch ==
  /\ Walked("ancestor_exists")
  /\ Answer(IF Found # {} THEN "pass" ELSE "fail")
  /\ Keep

NoAncestor ==
  /\ Walked("ancestor_field_check")
  /\ Found = {}
  /\ Answer(IF rule.requireAncestor THEN "fail" ELSE "pass")
  /\ Keep

CompareFields ==
  /\ Walked("ancestor_field_check")
  /\ Found # {}
  /\ LET ancestor == Lookup(tree, Nearest(Found)[1], rule.join)
     IN  Answer(Compared(self.year, ancestor.year, rule))
  /\ Keep

(* indexOfString: the first place of a rank in the list, if any.           *)
Places(list, r) == {i \in DOMAIN list : list[i] = r}
IndexOf(list, r) == CHOOSE i \in Places(list, r) : \A j \in Places(list, r) : i <= j

(* Defect: a parent of the record's own rank is let through.               *)
HigherOrSame(up, own) == up <= own

Higher(up, own) == up < own

(* Whether both ranks are known, under one code that has a list.           *)
Comparable(own, up) ==
  /\ own # Absent /\ up # Absent
  /\ ~ Unranked(own) /\ ~ Unranked(up)
  /\ own.code = up.code
  /\ own.code \in DOMAIN RankOrder
  /\ Places(RankOrder[own.code], own.rank) # {}
  /\ Places(RankOrder[own.code], up.rank) # {}

RankVerdict(own, up) ==
  IF /\ Comparable(own, up)
     /\ ~ Higher(IndexOf(RankOrder[own.code], up.rank),
                 IndexOf(RankOrder[own.code], own.rank))
  THEN "fail" ELSE "pass"

(* Defect: the parent is read along with the record, by one statement.     *)
RanksCached == RankVerdict(self, upThen)

RanksAgree == RankVerdict(self, ParentFields(tree, Self, rule.join))

(* The second statement of parent_rank_higher and what follows it.         *)
CompareRanks ==
  /\ pc = "second"
  /\ rule.kind = "parent_rank_higher"
  /\ Answer(RanksAgree)
  /\ Keep

(* A statement that fails, in the middle of its walk or before, ends the   *)
(* call with its error and no result.                                      *)
QueryFails ==
  /\ pc # "done"
  /\ Answer("failed")
  /\ self' = Absent /\ chain' = {} /\ queue' = {} /\ upThen' = Absent
  /\ UNCHANGED <<tree, rule, writes>>

Done == pc = "done" /\ UNCHANGED vars

Call ==
  \/ LoadSelf \/ Seed \/ SelectSelf \/ SelectMatch \/ NoAncestor \/ CompareFields
  \/ CompareRanks
  \/ \E row \in queue : Step(row)

Next ==
  \/ Call \/ QueryFails \/ Done
  \/ \E x \in Taxa, row \in Rows \cup {Absent} : Write(x, row)

Spec == Init /\ [][Next]_vars /\ WF_vars(Call)
-----------------------------------------------------------------------------
(* The call has ended, and not with the error of a query.                  *)
Answered(kind) == pc = "done" /\ verdict # "failed" /\ rule.kind = kind

HasParent(T, x) == T[x] # Absent /\ T[x].parent \in Taxa

(* x is reached again from its parent: it is in every set of taxa that has *)
(* its parent and is closed under parents.                                 *)
OnCycle(T, x) ==
  /\ HasParent(T, x)
  /\ \A S \in SUBSET Taxa :
       /\ T[x].parent \in S
       /\ \A y \in S : HasParent(T, y) => T[y].parent \in S
       => x \in S

(* no_self_cycle fails exactly the records on a cycle of the tree, not     *)
(* those whose parents lead into one (no_self_cycle.go 11-24).             *)
CyclesAreReported ==
  Answered("no_self_cycle") =>
    (verdict = "fail" <=> OnCycle(tree, Self))

(* The ancestor k hops up, by the tree itself.                             *)
AncestorAt(T, k) ==
  LET up[n \in Nat] ==
        IF n = 0 THEN Self
        ELSE IF up[n - 1] \in Taxa
             THEN IF T[up[n - 1]] = Absent THEN NULL ELSE T[up[n - 1]].parent
             ELSE NULL
  IN  up[k]

MatchingHops ==
  {k \in Depths : Matches(Lookup(tree, AncestorAt(tree, k), rule.join), rule.match)}

(* ancestor_exists passes exactly the records with a matching ancestor     *)
(* within max_depth hops, on a cycle or not (ancestor_exists.go 11-17).    *)
AncestorIsFound ==
  Answered("ancestor_exists") =>
    (verdict = "pass" <=> MatchingHops # {})

(* ancestor_field_check compares the record with the nearest matching      *)
(* ancestor (ancestor_field_check.go 12-15), as the tree is at the second  *)
(* statement, whatever was written between the two, if only the record's   *)
(* own fields are still what the first statement read.                     *)
NearestAncestorDecides ==
  Answered("ancestor_field_check") /\ self = Lookup(tree, Self, rule.join) =>
    LET own == Lookup(tree, Self, rule.join)
    IN  verdict =
          IF own = Absent THEN "pass"
          ELSE IF MatchingHops = {}
          THEN IF rule.requireAncestor THEN "fail" ELSE "pass"
          ELSE LET k == CHOOSE n \in MatchingHops : \A m \in MatchingHops : n <= m
               IN  Compared(own.year,
                     Lookup(tree, AncestorAt(tree, k), rule.join).year, rule)

(* The verdict parent_rank_higher gives x in the tree as it is.            *)
RankVerdictOf(x) == RankVerdict(Lookup(tree, x, TRUE), ParentFields(tree, x, TRUE))

Ordinal(x) ==
  LET own == Lookup(tree, x, TRUE) IN IndexOf(RankOrder[own.code], own.rank)

(* Taxa among which every parent is found again hold a cycle; if all their *)
(* ranks can be compared, parent_rank_higher fails one of them: checking   *)
(* single hops is enough to find a cycle (parent_rank_higher.go 14-17).    *)
RanksExcludeCycles ==
  \A S \in (SUBSET Taxa) \ {{}} :
    (\A x \in S : /\ HasParent(tree, x) /\ tree[x].parent \in S
                  /\ Comparable(Lookup(tree, x, TRUE), ParentFields(tree, x, TRUE)))
      => \E x \in S : RankVerdictOf(x) = "fail"

(* A verdict of parent_rank_higher is the one of a tree that there was.    *)
(* Its second statement follows the record's parent anew: if the record's  *)
(* own fields are still what the first statement read, the verdict is that *)
(* of the present tree, of the new parent if the record was moved; if the  *)
(* parent's are, it is that of the tree at the first statement.  Only a    *)
(* write that changes both is answered with a mixture.                     *)
RankVerdictOfOneTree ==
  Answered("parent_rank_higher") =>
    LET own == Lookup(tree, Self, rule.join)
        up == ParentFields(tree, Self, rule.join)
    IN  /\ own = self => verdict = RankVerdict(own, up)
        /\ up = upThen => verdict = RankVerdict(self, upThen)

(* The recursive queries end on every tree, cyclic ones included           *)
(* (no_self_cycle.go 22-24).                                               *)
WalkEnds == <>(pc = "done")
=============================================================================
