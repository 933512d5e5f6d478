-------------------------- MODULE ParentChainProofs --------------------------
(***************************************************************************)
(* The walks of ParentChain stay within their types and depths; the set    *)
(* that no_self_cycle's query computes is the set of taxa above the record,*)
(* so it fails exactly the records on a cycle; ancestor_exists and         *)
(* ancestor_field_check find the ancestors within max_depth hops, the      *)
(* nearest first; and parent_rank_higher passes no cycle.  All of it for   *)
(* any number of taxa, any names, ranks and rules.                         *)
(***************************************************************************)
EXTENDS ParentChain, NaturalsInduction, WellFoundedInduction, TLAPS

(* A nonempty set of numbers has a least one.                              *)
LEMMA LeastOf ==
  ASSUME NEW N \in SUBSET Nat, N # {}
  PROVE  \E n \in N : \A m \in N : n <= m
<1> DEFINE Less == {p \in Nat \X Nat : p[1] < p[2]}
<1>1. OpToRel(<, Nat) = Less
  BY DEF OpToRel
<1>2. IsWellFoundedOn(Less, Nat)
  BY <1>1, NatLessThanWellFounded
<1>3. PICK n \in N : \A m \in N : <<m, n>> \notin Less
  BY <1>2, WFMin
<1>4. ASSUME NEW m \in N PROVE n <= m
  <2>1. n \in Nat /\ m \in Nat
    OBVIOUS
  <2>2. ~ (m < n)
    BY <1>3, <2>1
  <2> QED
    BY <2>1, <2>2
<1> QED
  BY <1>4

(* A set of numbers that counting does not leave holds them all.           *)
LEMMA Counting ==
  ASSUME NEW N \in SUBSET Nat, 0 \in N, \A n \in N : n + 1 \in N
  PROVE  N = Nat
<1> SUFFICES ASSUME Nat \ N # {} PROVE FALSE
  OBVIOUS
<1>1. PICK n \in Nat \ N : \A m \in Nat \ N : n <= m
  BY LeastOf
<1>2. n - 1 \in Nat /\ ~ (n <= n - 1) /\ n - 1 + 1 = n
  <2>1. n # 0 /\ n \in Nat
    BY <1>1
  <2> QED BY <2>1, SMT
<1>3. n - 1 \in N
  BY <1>1, <1>2
<1> QED
  BY <1>1, <1>2, <1>3

(* A lookup yields fields or no row.                                       *)
LEMMA LookupType ==
  ASSUME NEW T \in Trees, NEW x, NEW join \in BOOLEAN
  PROVE  Lookup(T, x, join) \in Fields \cup {Absent}
BY NamesAssumption DEF Lookup, Trees, Rows, Fields, Blank, Empty

(* The rule of a well-typed state has parameters the parsers accept.       *)
LEMMA RuleType ==
  ASSUME TypeOK
  PROVE  rule \in RuleRecords /\ rule.maxDepth \in Nat /\ rule.kind \in Kinds
BY RulesAssumption DEF TypeOK, RuleRecords

(* The recursive term stays within the taxa and the depths of the rule.    *)
LEMMA RecurseType ==
  ASSUME TypeOK, NEW row \in chain
  PROVE  Recurse(tree, rule, row[1], row[2]) \subseteq (Taxa \cup Empty) \X Depths
<1>1. row[1] \in Taxa \cup Empty /\ row[2] \in Depths
  BY DEF TypeOK
<1>2. CASE row[1] \notin Taxa \/ tree[row[1]] = Absent
  BY <1>2 DEF Recurse
<1>3. CASE row[1] \in Taxa /\ tree[row[1]] # Absent
  <2>1. tree[row[1]].parent \in Taxa \cup Empty
    BY <1>3 DEF TypeOK, Trees, Rows
  <2>2. CASE rule.kind = "no_self_cycle"
    BY <1>3, <2>1, <2>2 DEF Recurse, Depths, HasDepth
  <2>3. CASE rule.kind # "no_self_cycle" /\ row[2] < rule.maxDepth
    <3>1. row[2] + 1 \in Depths
      BY <1>1, <2>3, RuleType DEF Depths, HasDepth
    <3> QED
      BY <1>3, <2>1, <2>3, <3>1 DEF Recurse, BelowCap
  <2>4. CASE rule.kind # "no_self_cycle" /\ ~ (row[2] < rule.maxDepth)
    BY <1>3, <2>4 DEF Recurse, BelowCap
  <2> QED
    BY <2>2, <2>3, <2>4
<1> QED
  BY <1>2, <1>3

(* The seed of a walk is well typed.                                       *)
LEMMA FirstRowsType ==
  ASSUME TypeOK
  PROVE  FirstRows(tree, rule) \subseteq (Taxa \cup Empty) \X Depths
<1>1. (IF rule.kind = "no_self_cycle" THEN 0 ELSE 1) \in Depths
  BY RuleType DEF Depths, HasDepth
<1> QED
  BY <1>1, TaxaAssumption DEF FirstRows, TypeOK, Trees, Rows

(* The initial states are well typed.                                      *)
LEMMA InitTypeOK == Init => TypeOK
<1> SUFFICES ASSUME Init PROVE TypeOK
  OBVIOUS
<1>1. 0 \in 0 .. MaxWrites
  BY WritesAssumption
<1>2. chain \subseteq (Taxa \cup Empty) \X Depths /\ queue \subseteq chain
  BY DEF Init
<1> QED
  BY <1>1, <1>2 DEF Init, TypeOK

(* A comparison of two values ends in a pass, a failure or an error.       *)
LEMMA ComparedType ==
  ASSUME NEW a, NEW b, NEW r
  PROVE  Compared(a, b, r) \in {"pass", "fail", "error"}
BY DEF Compared

(* The fields of a record's parent are fields, or there is no row.         *)
LEMMA ParentFieldsType ==
  ASSUME NEW T \in Trees, NEW join \in BOOLEAN
  PROVE  ParentFields(T, Self, join) \in Fields \cup {Absent}
BY LookupType DEF ParentFields

(* Every step keeps the types.                                             *)
LEMMA StepTypeOK == TypeOK /\ [Next]_vars => TypeOK'
<1> SUFFICES ASSUME TypeOK, [Next]_vars PROVE TypeOK'
  OBVIOUS
<1>1. CASE LoadSelf
  <2>1. self' \in Fields \cup {Absent}
    BY <1>1, RuleType, LookupType DEF LoadSelf, TypeOK, RuleRecords
  <2>2. pc' \in {"start", "second", "walk", "done"}
        /\ verdict' \in {"none", "pass", "fail", "error", "failed"}
    BY <1>1 DEF LoadSelf, Answer, TypeOK
  <2>3. upThen' \in Fields \cup {Absent}
    BY <1>1, RuleType, ParentFieldsType DEF LoadSelf, TypeOK, RuleRecords
  <2> QED
    BY <1>1, <2>1, <2>2, <2>3 DEF LoadSelf, TypeOK, Depths, HasDepth
<1>2. CASE Seed
  BY <1>2, FirstRowsType DEF Seed, TypeOK, Depths, HasDepth
<1>3. ASSUME NEW row \in queue, Step(row) PROVE TypeOK'
  <2>1. Recurse(tree, rule, row[1], row[2]) \subseteq (Taxa \cup Empty) \X Depths
    BY RecurseType DEF TypeOK
  <2>2. /\ chain' \subseteq (Taxa \cup Empty) \X Depths
        /\ queue' \subseteq chain'
    BY <1>3, <2>1 DEF Step, Union, TypeOK
  <2> QED
    BY <1>3, <2>2 DEF Step, TypeOK, Depths, HasDepth
<1>4. CASE SelectSelf \/ SelectMatch \/ NoAncestor \/ CompareFields
  <2>1. pc' = "done" /\ verdict' \in {"pass", "fail", "error"} /\ Keep
    BY <1>4, ComparedType DEF SelectSelf, SelectMatch, NoAncestor, CompareFields, Answer
  <2> QED
    BY <2>1 DEF Keep, TypeOK, Depths, HasDepth
<1>5. CASE CompareRanks
  <2>1. pc' = "done" /\ verdict' \in {"pass", "fail"}
    BY <1>5 DEF CompareRanks, RanksAgree, Answer, RankVerdict
  <2> QED
    BY <1>5, <2>1 DEF CompareRanks, Keep, TypeOK, Depths, HasDepth
<1>6. ASSUME NEW x \in Taxa, NEW row \in Rows \cup {Absent}, Write(x, row)
      PROVE  TypeOK'
  <2>1. tree' \in Trees
    BY <1>6 DEF Write, TypeOK, Trees
  <2>2. writes' \in 0 .. MaxWrites
    BY <1>6, WritesAssumption DEF Write, TypeOK
  <2> QED
    BY <1>6, <2>1, <2>2 DEF Write, TypeOK, Depths, HasDepth
<1>7. CASE QueryFails
  BY <1>7 DEF QueryFails, Answer, TypeOK, Depths, HasDepth
<1>8. CASE Done \/ UNCHANGED vars
  BY <1>8 DEF Done, vars, TypeOK, Depths, HasDepth
<1> QED
  BY <1>1, <1>2, <1>3, <1>4, <1>5, <1>6, <1>7, <1>8 DEF Next, Call

(* Type correctness: the walks never leave the taxa, nor the depths that   *)
(* max_depth allows (ancestor_exists.go 39-40, the safety cap).            *)
THEOREM TypeCorrect == Spec => []TypeOK
BY InitTypeOK, StepTypeOK, PTL DEF Spec

-----------------------------------------------------------------------------
(* The sets of taxa that hold Self's parent and are closed under parents.  *)
UpClosed(S) ==
  /\ HasParent(tree, Self) => tree[Self].parent \in S
  /\ \A y \in S : HasParent(tree, y) => tree[y].parent \in S

(* The recursive query has begun, and has not failed.                      *)
Begun == pc = "walk" \/ (pc = "done" /\ verdict # "failed")

(* What the walk of no_self_cycle has collected: nothing that some closed  *)
(* set leaves out, its first row, and the parent of whatever it has        *)
(* finished with.  When it has answered, it had finished with everything.  *)
WalkBooks ==
  rule.kind = "no_self_cycle" =>
    /\ pc # "second"
    /\ Begun =>
         /\ tree[Self] # Absent => <<tree[Self].parent, 0>> \in chain
         /\ chain # {} => tree[Self] # Absent
         /\ \A row \in chain, S \in SUBSET Taxa :
              UpClosed(S) => row[1] \in S \cup Empty
         /\ \A row \in chain \ queue :
              HasParent(tree, row[1]) => <<tree[row[1]].parent, 0>> \in chain
                                         \/ row[1] \notin Taxa
    /\ Begun /\ pc = "done" =>
         queue = {} /\ (verdict = "fail" <=> \E row \in chain : row[1] = Self)

IInv == TypeOK /\ WalkBooks

(* Every step keeps the books of the walk.                                 *)
LEMMA StepWalkBooks == IInv /\ [Next]_vars => WalkBooks'
<1> SUFFICES ASSUME IInv, [Next]_vars, rule'.kind = "no_self_cycle"
             PROVE  WalkBooks'
  BY DEF WalkBooks
<1> USE DEF IInv
<1>0. rule' = rule /\ rule.kind = "no_self_cycle"
  BY DEF Next, Call, LoadSelf, Seed, Step, SelectSelf, SelectMatch, NoAncestor,
         CompareFields, CompareRanks, QueryFails, Keep, Write, Done, vars
<1>1. ~ LoadSelf /\ ~ SelectMatch /\ ~ NoAncestor /\ ~ CompareFields /\ ~ CompareRanks
      /\ \A x \in Taxa, row \in Rows \cup {Absent} : ~ Write(x, row)
  BY <1>0 DEF LoadSelf, SelectMatch, NoAncestor, CompareFields, Walked, CompareRanks,
              Write, WalkBooks
<1>2. CASE Seed
  <2>1. /\ pc' = "walk" /\ tree' = tree /\ queue' = chain'
        /\ chain' = IF tree[Self] = Absent THEN {} ELSE {<<tree[Self].parent, 0>>}
    BY <1>0, <1>2 DEF Seed, FirstRows
  <2>2. ASSUME NEW row \in chain', NEW S \in SUBSET Taxa, UpClosed(S)
        PROVE  row[1] \in S \cup Empty
    <3>1. tree[Self] # Absent /\ row[1] = tree[Self].parent
      BY <2>1, <2>2
    <3>2. row[1] \in Taxa \cup Empty
      BY <3>1, TaxaAssumption DEF TypeOK, Trees, Rows
    <3> QED
      BY <2>2, <3>1, <3>2 DEF UpClosed, HasParent
  <2>3. \A S : UpClosed(S)' <=> UpClosed(S)
    BY <2>1 DEF UpClosed, HasParent
  <2> QED
    BY <1>0, <2>1, <2>2, <2>3 DEF WalkBooks, Begun
<1>3. ASSUME NEW row \in queue, Step(row) PROVE WalkBooks'
  <2> DEFINE new == Union(Recurse(tree, rule, row[1], row[2]))
  <2>1. /\ pc = "walk" /\ pc' = "walk" /\ tree' = tree
        /\ chain' = chain \cup new /\ queue' = (queue \ {row}) \cup new
    BY <1>3 DEF Step
  <2>2. row \in chain /\ row[1] \in Taxa \cup Empty
    BY DEF TypeOK
  <2>3. ASSUME NEW n \in new
        PROVE  row[1] \in Taxa /\ tree[row[1]] # Absent /\ n = <<tree[row[1]].parent, 0>>
    BY <1>0, <2>3 DEF Recurse, Union
  <2>4. \A S : UpClosed(S)' <=> UpClosed(S)
    BY <2>1 DEF UpClosed, HasParent
  <2>5. ASSUME NEW n \in chain', NEW S \in SUBSET Taxa, UpClosed(S)
        PROVE  n[1] \in S \cup Empty
    <3>1. CASE n \in chain
      BY <1>0, <2>1, <2>5, <3>1 DEF WalkBooks, Begun
    <3>2. CASE n \in new
      <4>1. row[1] \in S \cup Empty
        BY <1>0, <2>1, <2>2, <2>5 DEF WalkBooks, Begun
      <4>2. row[1] \in S
        BY <2>3, <3>2, <4>1, TaxaAssumption
      <4>3. n[1] = tree[row[1]].parent /\ n[1] \in Taxa \cup Empty
        BY <2>3, <3>2 DEF TypeOK, Trees, Rows
      <4> QED
        BY <2>3, <2>5, <3>2, <4>2, <4>3 DEF UpClosed, HasParent
    <3> QED
      BY <2>1, <3>1, <3>2
  <2>6. ASSUME NEW n \in chain' \ queue', HasParent(tree, n[1]), n[1] \in Taxa
        PROVE  <<tree[n[1]].parent, 0>> \in chain'
    <3>1. CASE n = row
      <4>1. tree[row[1]] # Absent /\ ~ isEmpty(tree[row[1]].parent)
        BY <2>6, <3>1, TaxaAssumption DEF HasParent, isEmpty
      <4>2. <<tree[row[1]].parent, 0>> \in Recurse(tree, rule, row[1], row[2])
        BY <1>0, <2>6, <3>1, <4>1 DEF Recurse
      <4> QED
        BY <2>1, <3>1, <4>2 DEF Union
    <3>2. CASE n # row
      <4>1. n \in chain \ queue
        BY <2>1, <2>6, <3>2
      <4> QED
        BY <1>0, <2>1, <2>6, <4>1 DEF WalkBooks, Begun
    <3> QED
      BY <3>1, <3>2
  <2>7. /\ tree[Self] # Absent => <<tree[Self].parent, 0>> \in chain'
        /\ chain' # {} => tree[Self] # Absent
    BY <1>0, <2>1, <2>2 DEF WalkBooks, Begun
  <2>8. \A n : HasParent(tree', n) <=> HasParent(tree, n)
    BY <2>1
  <2> QED
    BY <1>0, <2>1, <2>4, <2>5, <2>6, <2>7, <2>8 DEF WalkBooks, Begun
<1>4. CASE SelectSelf
  <2>1. /\ pc = "walk" /\ queue = {} /\ pc' = "done" /\ tree' = tree
        /\ chain' = chain /\ queue' = queue
        /\ verdict' = IF \E row \in chain : row[1] = Self THEN "fail" ELSE "pass"
    BY <1>0, <1>4 DEF SelectSelf, Walked, Keep, Answer
  <2>2. \A S : UpClosed(S)' <=> UpClosed(S)
    BY <2>1 DEF UpClosed, HasParent
  <2> QED
    BY <1>0, <2>1, <2>2 DEF WalkBooks, Begun
<1>5. CASE QueryFails
  <2>1. pc' = "done" /\ verdict' = "failed"
    BY <1>5 DEF QueryFails, Answer
  <2> QED
    BY <2>1 DEF WalkBooks, Begun
<1>6. CASE Done \/ UNCHANGED vars
  BY <1>0, <1>6 DEF Done, vars, WalkBooks, Begun, UpClosed, HasParent
<1> QED
  BY <1>1, <1>2, <1>3, <1>4, <1>5, <1>6 DEF Next, Call

(* No walk has begun in the initial states.                                *)
LEMMA InitIInv == Init => IInv
BY InitTypeOK DEF Init, IInv, WalkBooks, Begun

(* The rows a finished walk has collected, as taxa, are a closed set: the  *)
(* record is on a cycle exactly if it is among them.                       *)
LEMMA WalkedFindsCycles == IInv => CyclesAreReported
<1> SUFFICES ASSUME IInv, Answered("no_self_cycle")
             PROVE  verdict = "fail" <=> OnCycle(tree, Self)
  BY DEF CyclesAreReported
<1> USE DEF IInv, Answered, Begun
<1> DEFINE above == {row[1] : row \in chain} \cap Taxa
<1>1. ASSUME verdict = "fail" PROVE OnCycle(tree, Self)
  <2>1. PICK row \in chain : row[1] = Self
    BY <1>1 DEF WalkBooks
  <2>2. \A S \in SUBSET Taxa : UpClosed(S) => Self \in S
    BY <2>1, TaxaAssumption DEF WalkBooks
  <2>3. HasParent(tree, Self)
    <3>1. CASE ~ HasParent(tree, Self)
      <4>1. UpClosed({})
        BY <3>1 DEF UpClosed
      <4> QED
        BY <2>2, <4>1
    <3> QED
      BY <3>1
  <2> QED
    BY <2>2, <2>3 DEF OnCycle, UpClosed
<1>2. ASSUME OnCycle(tree, Self) PROVE verdict = "fail"
  <2>1. tree[Self] # Absent /\ tree[Self].parent \in Taxa
    BY <1>2 DEF OnCycle, HasParent
  <2>2. tree[Self].parent \in above
    <3>1. <<tree[Self].parent, 0>> \in chain
      BY <2>1 DEF WalkBooks
    <3> QED
      BY <2>1, <3>1
  <2>3. ASSUME NEW y \in above, HasParent(tree, y) PROVE tree[y].parent \in above
    <3>1. PICK row \in chain : row[1] = y
      BY <2>3
    <3>2. row \in chain \ queue /\ y \in Taxa /\ tree[y].parent \in Taxa
      BY <2>3, <3>1 DEF WalkBooks, HasParent
    <3>3. <<tree[y].parent, 0>> \in chain
      BY <2>3, <3>1, <3>2 DEF WalkBooks
    <3> QED
      BY <3>2, <3>3
  <2>4. Self \in above
    BY <1>2, <2>2, <2>3 DEF OnCycle
  <2> QED
    BY <2>4 DEF WalkBooks
<1> QED
  BY <1>1, <1>2

(* no_self_cycle fails exactly the records on a cycle, in every tree.      *)
THEOREM CyclesAreFound == Spec => []CyclesAreReported
<1>1. IInv /\ [Next]_vars => IInv'
  BY StepTypeOK, StepWalkBooks DEF IInv
<1> QED
  BY <1>1, InitIInv, WalkedFindsCycles, PTL DEF Spec

-----------------------------------------------------------------------------
(* A rank that is listed has a first place, a positive number.             *)
LEMMA IndexOfType ==
  ASSUME NEW list \in Seq(Ranks), NEW r, Places(list, r) # {}
  PROVE  IndexOf(list, r) \in Nat
<1>1. Places(list, r) \subseteq Nat
  BY DEF Places
<1>2. PICK i \in Places(list, r) : \A j \in Places(list, r) : i <= j
  BY <1>1, LeastOf
<1>3. IndexOf(list, r) \in Places(list, r)
  BY <1>2 DEF IndexOf
<1> QED
  BY <1>1, <1>3

(* parent_rank_higher passes no cycle of comparable ranks: the ordinals of *)
(* the taxa have a least one, and the parent of its taxon is not below it. *)
THEOREM RanksForbidCycles == Spec => []RanksExcludeCycles
<1>1. TypeOK => RanksExcludeCycles
  <2> SUFFICES ASSUME TypeOK, NEW S \in (SUBSET Taxa) \ {{}},
                      \A x \in S :
                        /\ HasParent(tree, x) /\ tree[x].parent \in S
                        /\ Comparable(Lookup(tree, x, TRUE), ParentFields(tree, x, TRUE))
               PROVE  \E x \in S : RankVerdictOf(x) = "fail"
    BY DEF RanksExcludeCycles
  <2>1. \A x \in S : Ordinal(x) \in Nat
    <3> SUFFICES ASSUME NEW x \in S PROVE Ordinal(x) \in Nat
      OBVIOUS
    <3> DEFINE own == Lookup(tree, x, TRUE)
    <3>1. own.code \in DOMAIN RankOrder /\ Places(RankOrder[own.code], own.rank) # {}
      BY DEF Comparable
    <3> QED
      BY <3>1, IndexOfType, OrderAssumption DEF Ordinal, IsRankOrder
  <2> DEFINE ordinals == {Ordinal(x) : x \in S}
  <2>2. PICK n \in ordinals : \A m \in ordinals : n <= m
    <3>1. ordinals \subseteq Nat /\ ordinals # {}
      BY <2>1
    <3> HIDE DEF ordinals
    <3> QED
      BY <3>1, LeastOf
  <2>3. PICK x \in S : Ordinal(x) = n
    BY <2>2
  <2>4. ~ (Ordinal(tree[x].parent) < Ordinal(x))
    <3>1. tree[x].parent \in S
      OBVIOUS
    <3>2. Ordinal(tree[x].parent) \in Nat /\ Ordinal(x) \in Nat
      BY <2>1, <3>1
    <3>3. n <= Ordinal(tree[x].parent)
      BY <2>2, <3>1
    <3> QED
      BY <2>3, <3>2, <3>3
  <2>5. ParentFields(tree, x, TRUE) = Lookup(tree, tree[x].parent, TRUE)
    BY DEF ParentFields, HasParent
  <2>6. RankVerdictOf(x) = "fail"
    BY <2>4, <2>5 DEF RankVerdictOf, RankVerdict, Comparable, Higher, Ordinal
  <2> QED
    BY <2>6
<1> QED
  BY <1>1, TypeCorrect, PTL
-----------------------------------------------------------------------------
(* One hop up the tree.                                                    *)
ParentOf(T, x) == IF x \in Taxa THEN IF T[x] = Absent THEN NULL ELSE T[x].parent ELSE NULL

(* f is the way up for the first n hops.                                   *)
Climb(T, n, f) ==
  f = [k \in 0 .. n |-> IF k = 0 THEN Self ELSE ParentOf(T, f[k - 1])]

(* A longer way up begins with the shorter one.                            *)
LEMMA ClimbAgrees ==
  ASSUME NEW T, NEW n \in Nat, NEW f, NEW g, Climb(T, n, f), Climb(T, n + 1, g)
  PROVE  g[n] = f[n]
<1> DEFINE N == {m \in Nat : m <= n => g[m] = f[m]}
<1>0. /\ \A k \in 0 .. n : f[k] = IF k = 0 THEN Self ELSE ParentOf(T, f[k - 1])
      /\ \A k \in 0 .. n + 1 : g[k] = IF k = 0 THEN Self ELSE ParentOf(T, g[k - 1])
  BY DEF Climb
<1>1. 0 \in N
  <2>1. 0 \in 0 .. n /\ 0 \in 0 .. n + 1
    BY SMT
  <2> QED BY <1>0, <2>1
<1>2. ASSUME NEW m \in N PROVE m + 1 \in N
  <2> SUFFICES ASSUME m + 1 <= n PROVE g[m + 1] = f[m + 1]
    OBVIOUS
  <2>1. m + 1 \in 0 .. n /\ m + 1 \in 0 .. n + 1 /\ m + 1 # 0 /\ m + 1 - 1 = m /\ m <= n
    BY SMT
  <2> QED BY <1>0, <2>1
<1>3. N = Nat
  <2>1. N \in SUBSET Nat
    OBVIOUS
  <2> HIDE DEF N
  <2> QED BY <1>1, <1>2, <2>1, Counting
<1> QED
  BY <1>3

(* There is a way up of every length.                                      *)
LEMMA ClimbExists ==
  ASSUME NEW T, NEW n \in Nat
  PROVE  \E f : Climb(T, n, f)
<1> DEFINE N == {m \in Nat : \E f : Climb(T, m, f)}
<1>1. 0 \in N
  <2>1. Climb(T, 0, [k \in 0 .. 0 |-> Self])
    BY SMT DEF Climb
  <2> QED BY <2>1
<1>2. ASSUME NEW m \in N PROVE m + 1 \in N
  <2>1. PICK f : Climb(T, m, f)
    OBVIOUS
  <2> DEFINE g == [k \in 0 .. m + 1 |-> IF k = m + 1 THEN ParentOf(T, f[m]) ELSE f[k]]
  <2>2. /\ \A k \in 0 .. m + 1 : k = m + 1 \/ k \in 0 .. m
        /\ \A k \in 0 .. m : k # 0 => k - 1 \in 0 .. m
        /\ \A k \in 0 .. m : k # m + 1 /\ k \in 0 .. m + 1
        /\ m + 1 # 0 /\ m + 1 - 1 = m /\ m \in 0 .. m /\ m + 1 \in 0 .. m + 1
    BY SMT
  <2>3. \A k \in 0 .. m : f[k] = IF k = 0 THEN Self ELSE ParentOf(T, f[k - 1])
    BY <2>1 DEF Climb
  <2>4. \A k \in 0 .. m : g[k] = f[k]
    BY <2>2
  <2>5. g[m + 1] = ParentOf(T, f[m])
    BY <2>2
  <2>6. ASSUME NEW k \in 0 .. m + 1
        PROVE  g[k] = IF k = 0 THEN Self ELSE ParentOf(T, g[k - 1])
    <3>1. CASE k = m + 1
      BY <2>2, <2>4, <2>5, <3>1
    <3>2. CASE k \in 0 .. m
      BY <2>2, <2>3, <2>4, <3>2
    <3> QED BY <2>2, <3>1, <3>2
  <2>7. DOMAIN g = 0 .. m + 1 /\ g = [k \in 0 .. m + 1 |-> g[k]]
    OBVIOUS
  <2> HIDE DEF g
  <2>8. Climb(T, m + 1, g)
    BY <2>6, <2>7 DEF Climb
  <2> QED BY <2>8
<1>3. N = Nat
  <2>1. N \in SUBSET Nat
    OBVIOUS
  <2> HIDE DEF N
  <2> QED BY <1>1, <1>2, <2>1, Counting
<1> QED
  BY <1>3

(* The ancestor of k + 1 hops is the parent of that of k hops.             *)
LEMMA Hops ==
  ASSUME NEW T
  PROVE  /\ AncestorAt(T, 0) = Self
         /\ \A k \in Nat : AncestorAt(T, k + 1) = ParentOf(T, AncestorAt(T, k))
<1> DEFINE Way(n) == CHOOSE f : Climb(T, n, f)
           way == [n \in Nat |-> Way(n)[n]]
           up == CHOOSE f : f = [n \in Nat |->
                   IF n = 0 THEN Self
                   ELSE IF f[n - 1] \in Taxa
                        THEN IF T[f[n - 1]] = Absent THEN NULL ELSE T[f[n - 1]].parent
                        ELSE NULL]
<1>1. \A n \in Nat : Climb(T, n, Way(n))
  BY ClimbExists
<1>2. way[0] = Self
  <2>1. Way(0)[0] = Self
    <3>1. Climb(T, 0, Way(0)) /\ 0 \in 0 .. 0
      BY <1>1
    <3> HIDE DEF Way
    <3> QED BY <3>1 DEF Climb
  <2> QED BY <2>1
<1>3. ASSUME NEW n \in Nat PROVE way[n + 1] = ParentOf(T, way[n])
  <2>1. Climb(T, n, Way(n)) /\ Climb(T, n + 1, Way(n + 1))
    BY <1>1
  <2>2. Way(n + 1)[n] = Way(n)[n]
    BY <2>1, ClimbAgrees
  <2>3. n + 1 \in 0 .. n + 1 /\ n + 1 # 0 /\ n + 1 - 1 = n /\ n + 1 \in Nat
    BY SMT
  <2>4. Way(n + 1)[n + 1] = ParentOf(T, Way(n + 1)[n])
    <3> HIDE DEF Way
    <3> QED BY <2>1, <2>3 DEF Climb
  <2> HIDE DEF Way
  <2> QED BY <2>2, <2>3, <2>4
<1> HIDE DEF Way
<1>4. ASSUME NEW n \in Nat
      PROVE  way[n] = IF n = 0 THEN Self ELSE ParentOf(T, way[n - 1])
  <2>1. CASE n = 0
    BY <1>2, <2>1
  <2>2. CASE n # 0
    <3>1. n - 1 \in Nat /\ n - 1 + 1 = n
      BY <2>2, SMT
    <3> HIDE DEF way
    <3> QED BY <1>3, <2>2, <3>1
  <2> QED BY <2>1, <2>2
<1>5. way = [n \in Nat |-> way[n]]
  OBVIOUS
<1> HIDE DEF way
<1>6. way = [n \in Nat |->
               IF n = 0 THEN Self
               ELSE IF way[n - 1] \in Taxa
                    THEN IF T[way[n - 1]] = Absent THEN NULL ELSE T[way[n - 1]].parent
                    ELSE NULL]
  BY <1>4, <1>5 DEF ParentOf
<1>7. up = [n \in Nat |->
              IF n = 0 THEN Self
              ELSE IF up[n - 1] \in Taxa
                   THEN IF T[up[n - 1]] = Absent THEN NULL ELSE T[up[n - 1]].parent
                   ELSE NULL]
  BY <1>6
<1>8. \A k : AncestorAt(T, k) = up[k]
  BY DEF AncestorAt
<1> HIDE DEF up
<1>9. up[0] = Self
  BY <1>7
<1>10. ASSUME NEW k \in Nat PROVE up[k + 1] = ParentOf(T, up[k])
  <2>1. k + 1 \in Nat /\ k + 1 # 0 /\ k + 1 - 1 = k
    BY SMT
  <2> QED BY <1>7, <2>1 DEF ParentOf
<1> QED
  BY <1>8, <1>9, <1>10
-----------------------------------------------------------------------------
Climbs == rule.kind \in {"ancestor_exists", "ancestor_field_check"}

(* The rows of a climb: k hops up is the ancestor of k hops, and a row     *)
(* that is done with has its parent's row among them.                      *)
HopBooks ==
  Climbs /\ pc = "walk" =>
    /\ FirstRows(tree, rule) \subseteq chain
    /\ \A row \in chain : row[1] = AncestorAt(tree, row[2])
    /\ \A row \in chain \ queue : Recurse(tree, rule, row[1], row[2]) \subseteq chain

(* A second statement is made for a record that there was.                 *)
SelfBooks ==
  /\ rule.kind \in {"ancestor_field_check", "parent_rank_higher"}
  /\ pc \in {"second", "walk"}
  => self # Absent

Books == TypeOK /\ HopBooks /\ SelfBooks

(* The recursive query begins at the parent, one hop up.                   *)
LEMMA SeedHops ==
  ASSUME TypeOK, Climbs, NEW row \in FirstRows(tree, rule)
  PROVE  row[1] = AncestorAt(tree, row[2])
<1>1. tree[Self] # Absent /\ row[1] = tree[Self].parent /\ row[2] = 1
  BY DEF Climbs, FirstRows
<1>2. AncestorAt(tree, 0) = Self /\ AncestorAt(tree, 0 + 1) = ParentOf(tree, Self)
  BY Hops
<1> QED
  BY <1>1, <1>2, TaxaAssumption DEF ParentOf

(* Its recursive term goes one hop further.                                *)
LEMMA RecurseHops ==
  ASSUME TypeOK, Climbs, NEW row \in chain, row[1] = AncestorAt(tree, row[2]),
         NEW new \in Recurse(tree, rule, row[1], row[2])
  PROVE  new[1] = AncestorAt(tree, new[2])
<1>1. row[2] \in Nat
  BY RuleType DEF TypeOK, Depths, HasDepth, Climbs
<1>2. row[1] \in Taxa /\ tree[row[1]] # Absent /\ new = <<tree[row[1]].parent, row[2] + 1>>
  BY DEF Climbs, Recurse
<1>3. AncestorAt(tree, row[2] + 1) = ParentOf(tree, row[1])
  BY <1>1, Hops
<1> QED
  BY <1>2, <1>3 DEF ParentOf

(* Every step leaves the climb in order.                                   *)
LEMMA StepHopBooks == Books /\ [Next]_vars => HopBooks'
<1> SUFFICES ASSUME Books, [Next]_vars, Climbs', pc' = "walk"
             PROVE  HopBooks'
  BY DEF HopBooks
<1> USE DEF Books
<1>0. rule' = rule /\ Climbs
  BY DEF Next, Call, LoadSelf, Seed, Step, SelectSelf, SelectMatch, NoAncestor,
         CompareFields, CompareRanks, QueryFails, Keep, Write, Done, vars, Climbs
<1>1. CASE Seed
  <2>1. chain' = FirstRows(tree, rule) /\ queue' = chain' /\ tree' = tree
    BY <1>1 DEF Seed
  <2> QED BY <1>0, <2>1, SeedHops DEF HopBooks
<1>2. ASSUME NEW row \in queue, Step(row) PROVE HopBooks'
  <2>1. PICK new : new = Union(Recurse(tree, rule, row[1], row[2]))
    OBVIOUS
  <2>2. /\ chain' = chain \cup new /\ queue' = (queue \ {row}) \cup new /\ tree' = tree
        /\ pc = "walk" /\ row \in chain /\ new \subseteq Recurse(tree, rule, row[1], row[2])
        /\ Recurse(tree, rule, row[1], row[2]) \subseteq chain \cup new
    BY <1>2, <2>1 DEF Step, Union, TypeOK
  <2>3. ASSUME NEW r \in chain' PROVE r[1] = AncestorAt(tree, r[2])
    BY <1>0, <2>2, RecurseHops DEF HopBooks
  <2>4. ASSUME NEW r \in chain' \ queue'
        PROVE  Recurse(tree, rule, r[1], r[2]) \subseteq chain'
    <3>1. CASE r = row
      BY <2>2, <3>1
    <3>2. CASE r # row
      <4>1. r \in chain \ queue
        BY <2>2, <2>4, <3>2
      <4> QED BY <1>0, <2>2, <4>1 DEF HopBooks
    <3> QED BY <3>1, <3>2
  <2> QED BY <1>0, <2>2, <2>3, <2>4 DEF HopBooks
<1>3. CASE Done \/ UNCHANGED vars
  BY <1>0, <1>3 DEF Done, vars, HopBooks
<1>4. \/ Seed \/ (\E row \in queue : Step(row)) \/ Done \/ UNCHANGED vars
  BY DEF Next, Call, LoadSelf, SelectSelf, SelectMatch, NoAncestor, CompareFields,
         CompareRanks, QueryFails, Answer, Write, TypeOK
<1> QED
  BY <1>1, <1>2, <1>3, <1>4

(* Every step keeps the record there was.                                  *)
LEMMA StepSelfBooks == Books /\ [Next]_vars => SelfBooks'
<1> SUFFICES ASSUME Books, [Next]_vars PROVE SelfBooks'
  OBVIOUS
<1> USE DEF Books
<1>1. CASE LoadSelf
  BY <1>1 DEF LoadSelf, Answer, SelfBooks
<1>2. CASE Seed
  BY <1>2 DEF Seed, SelfBooks
<1>3. ASSUME NEW row \in queue, Step(row) PROVE SelfBooks'
  BY <1>3 DEF Step, SelfBooks
<1>4. CASE SelectSelf \/ SelectMatch \/ NoAncestor \/ CompareFields \/ CompareRanks
  BY <1>4 DEF SelectSelf, SelectMatch, NoAncestor, CompareFields, CompareRanks, Walked,
              Answer, Keep, SelfBooks
<1>5. ASSUME NEW x \in Taxa, NEW row \in Rows \cup {Absent}, Write(x, row)
      PROVE  SelfBooks'
  BY <1>5 DEF Write, SelfBooks
<1>6. CASE QueryFails
  BY <1>6 DEF QueryFails, Answer, SelfBooks
<1>7. CASE Done \/ UNCHANGED vars
  BY <1>7 DEF Done, vars, SelfBooks
<1> QED
  BY <1>1, <1>2, <1>3, <1>4, <1>5, <1>6, <1>7 DEF Next, Call

(* The books of the walks hold in every state.                             *)
LEMMA AlwaysBooks == Spec => []Books
<1>1. Init => Books
  BY InitTypeOK DEF Init, Books, HopBooks, SelfBooks
<1>2. Books /\ [Next]_vars => Books'
  BY StepTypeOK, StepHopBooks, StepSelfBooks DEF Books
<1> QED
  BY <1>1, <1>2, PTL DEF Spec

(* What a finished climb has collected: the ancestors within max_depth.    *)
LEMMA ClimbComplete ==
  ASSUME Books, Climbs, pc = "walk", queue = {},
         NEW k \in Depths, AncestorAt(tree, k) \in Taxa
  PROVE  <<AncestorAt(tree, k), k>> \in chain
<1> USE DEF Books
<1> DEFINE N == {n \in Nat : n + 1 \in Depths /\ AncestorAt(tree, n + 1) \in Taxa
                               => <<AncestorAt(tree, n + 1), n + 1>> \in chain}
<1>1. rule.maxDepth \in Nat
      /\ Depths = 1 .. (IF rule.maxDepth = 0 THEN 1 ELSE rule.maxDepth)
  BY RuleType DEF Climbs, Depths, HasDepth
<1>2. 0 \in N
  <2>1. AncestorAt(tree, 0 + 1) = ParentOf(tree, Self)
    BY Hops
  <2>2. AncestorAt(tree, 0 + 1) \in Taxa => <<AncestorAt(tree, 0 + 1), 1>> \in FirstRows(tree, rule)
    BY <2>1, TaxaAssumption DEF ParentOf, FirstRows, Climbs, Empty
  <2>3. FirstRows(tree, rule) \subseteq chain /\ 0 + 1 = 1
    BY DEF HopBooks
  <2> QED BY <2>2, <2>3
<1>3. ASSUME NEW n \in N PROVE n + 1 \in N
  <2> SUFFICES ASSUME n + 1 + 1 \in Depths, AncestorAt(tree, n + 1 + 1) \in Taxa
               PROVE  <<AncestorAt(tree, n + 1 + 1), n + 1 + 1>> \in chain
    OBVIOUS
  <2>1. PICK m \in Nat : m = n + 1
    OBVIOUS
  <2>2. m \in Depths /\ m < rule.maxDepth
    BY <1>1, <2>1, SMT
  <2>3. AncestorAt(tree, m + 1) = ParentOf(tree, AncestorAt(tree, m))
    BY Hops
  <2>4. /\ AncestorAt(tree, m) \in Taxa /\ tree[AncestorAt(tree, m)] # Absent
        /\ AncestorAt(tree, m + 1) = tree[AncestorAt(tree, m)].parent
    BY <2>1, <2>3, TaxaAssumption DEF ParentOf, Empty
  <2>5. <<AncestorAt(tree, m), m>> \in chain
    BY <2>1, <2>2, <2>4
  <2>6. Recurse(tree, rule, AncestorAt(tree, m), m) \subseteq chain
    BY <2>5 DEF HopBooks
  <2>7. <<AncestorAt(tree, m + 1), m + 1>> \in Recurse(tree, rule, AncestorAt(tree, m), m)
    BY <2>2, <2>4 DEF Recurse, BelowCap, Climbs
  <2> QED BY <2>1, <2>6, <2>7
<1>4. N = Nat
  <2>1. N \in SUBSET Nat
    OBVIOUS
  <2> HIDE DEF N
  <2> QED BY <1>2, <1>3, <2>1, Counting
<1>5. k - 1 \in Nat /\ k - 1 + 1 = k
  BY <1>1, SMT
<1> QED
  BY <1>4, <1>5

(* The rows that match are those of the matching hops.                     *)
LEMMA FoundHops ==
  ASSUME Books, Climbs, pc = "walk", queue = {}
  PROVE  /\ \A k \in MatchingHops : <<AncestorAt(tree, k), k>> \in Found
         /\ \A row \in Found : row[2] \in MatchingHops /\ row[1] = AncestorAt(tree, row[2])
<1> USE DEF Books
<1>1. ASSUME NEW k \in MatchingHops PROVE <<AncestorAt(tree, k), k>> \in Found
  <2>1. k \in Depths /\ Matches(Lookup(tree, AncestorAt(tree, k), rule.join), rule.match)
    BY DEF MatchingHops
  <2>2. AncestorAt(tree, k) \in Taxa
    BY <2>1 DEF Matches, Lookup
  <2>3. <<AncestorAt(tree, k), k>> \in chain
    BY <2>1, <2>2, ClimbComplete
  <2> QED BY <2>1, <2>3 DEF Found
<1>2. ASSUME NEW row \in Found
      PROVE  row[2] \in MatchingHops /\ row[1] = AncestorAt(tree, row[2])
  <2>1. row \in chain /\ Matches(Lookup(tree, row[1], rule.join), rule.match)
    BY DEF Found
  <2>2. row[1] = AncestorAt(tree, row[2]) /\ row[2] \in Depths
    BY <2>1 DEF HopBooks, TypeOK
  <2> QED BY <2>1, <2>2 DEF MatchingHops
<1> QED
  BY <1>1, <1>2

(* ancestor_exists passes exactly the records with a matching ancestor     *)
(* within max_depth hops, in every tree.                                   *)
THEOREM AncestorsAreFound == Spec => []AncestorIsFound
<1>1. Init => AncestorIsFound
  BY DEF Init, AncestorIsFound, Answered
<1>2. Books /\ AncestorIsFound /\ [Next]_vars => AncestorIsFound'
  <2> SUFFICES ASSUME Books, AncestorIsFound, [Next]_vars,
                      pc' = "done", rule'.kind = "ancestor_exists", verdict' # "failed"
               PROVE  (verdict = "pass" <=> MatchingHops # {})'
    BY DEF AncestorIsFound, Answered
  <2>1. rule' = rule /\ tree' = tree /\ (MatchingHops' = MatchingHops)
    <3>1. rule' = rule /\ tree' = tree
      BY DEF Next, Call, LoadSelf, Seed, Step, SelectSelf, SelectMatch, NoAncestor,
             CompareFields, CompareRanks, QueryFails, Keep, Write, Done, vars
    <3> QED BY <3>1 DEF MatchingHops, Depths, HasDepth
  <2>2. CASE pc = "done"
    <3>1. verdict' = verdict
      BY <2>2 DEF Next, Call, LoadSelf, Seed, Step, SelectSelf, SelectMatch, NoAncestor,
                  CompareFields, CompareRanks, Walked, QueryFails, Keep, Write, Done, vars
    <3> QED BY <2>1, <2>2, <3>1 DEF AncestorIsFound, Answered
  <2>3. CASE pc # "done"
    <3>1. /\ pc = "walk" /\ queue = {} /\ Climbs
          /\ verdict' = IF Found # {} THEN "pass" ELSE "fail"
      BY <2>1, <2>3 DEF Next, Call, LoadSelf, Seed, Step, SelectSelf, SelectMatch, NoAncestor,
                        CompareFields, CompareRanks, Walked, QueryFails, Answer,
                        Write, Done, vars, Climbs
    <3>2. Found # {} <=> MatchingHops # {}
      BY <3>1, FoundHops
    <3> QED BY <2>1, <3>1, <3>2
  <2> QED BY <2>2, <2>3
<1> QED
  BY <1>1, <1>2, AlwaysBooks, PTL DEF Spec

(* The nearest of the rows that match is that of the fewest hops.          *)
LEMMA NearestHop ==
  ASSUME Books, Climbs, pc = "walk", queue = {}, Found # {}
  PROVE  /\ MatchingHops # {}
         /\ Nearest(Found)[1] =
              AncestorAt(tree, CHOOSE n \in MatchingHops : \A m \in MatchingHops : n <= m)
<1>1. MatchingHops \in SUBSET Nat /\ MatchingHops # {}
  <2>1. Depths \subseteq Nat
    BY RuleType DEF Books, Climbs, Depths, HasDepth
  <2> QED BY <2>1, FoundHops DEF MatchingHops
<1>2. PICK k \in MatchingHops : k = CHOOSE n \in MatchingHops : \A m \in MatchingHops : n <= m
  BY <1>1, LeastOf
<1>3. \A m \in MatchingHops : k <= m
  BY <1>1, <1>2, LeastOf
<1>4. \E row \in Found : \A other \in Found : row[2] <= other[2]
  <2>1. <<AncestorAt(tree, k), k>> \in Found /\ <<AncestorAt(tree, k), k>>[2] = k
    BY FoundHops
  <2>2. \A other \in Found : k <= other[2]
    BY <1>3, FoundHops
  <2> QED BY <2>1, <2>2
<1>5. PICK row \in Found : row = Nearest(Found)
  BY <1>4 DEF Nearest
<1>6. \A other \in Found : row[2] <= other[2]
  BY <1>4, <1>5 DEF Nearest
<1>7. row[2] = k
  <2>1. <<AncestorAt(tree, k), k>> \in Found /\ <<AncestorAt(tree, k), k>>[2] = k
    BY FoundHops
  <2>2. row[2] <= k /\ k <= row[2] /\ row[2] \in Nat /\ k \in Nat
    BY <1>1, <1>3, <1>6, <2>1, FoundHops
  <2> QED BY <2>2
<1> QED
  BY <1>1, <1>2, <1>5, <1>7, FoundHops

(* What ancestor_field_check owes the record.                              *)
Owed ==
  LET own == Lookup(tree, Self, rule.join)
  IN  IF own = Absent THEN "pass"
      ELSE IF MatchingHops = {}
      THEN IF rule.requireAncestor THEN "fail" ELSE "pass"
      ELSE LET k == CHOOSE n \in MatchingHops : \A m \in MatchingHops : n <= m
           IN  Compared(own.year, Lookup(tree, AncestorAt(tree, k), rule.join).year, rule)

(* ancestor_field_check compares the record with its nearest matching      *)
(* ancestor, in every tree, unless the record's own fields are changed     *)
(* between the two statements.                                             *)
THEOREM NearestAncestorIsCompared == Spec => []NearestAncestorDecides
<1>1. Init => NearestAncestorDecides
  BY DEF Init, NearestAncestorDecides, Answered
<1>2. Books /\ NearestAncestorDecides /\ [Next]_vars => NearestAncestorDecides'
  <2> SUFFICES ASSUME Books, NearestAncestorDecides, [Next]_vars,
                      pc' = "done", rule'.kind = "ancestor_field_check",
                      verdict' # "failed", self' = Lookup(tree', Self, rule'.join)
               PROVE  verdict' = Owed'
    BY DEF NearestAncestorDecides, Answered, Owed
  <2>1. /\ rule' = rule /\ tree' = tree /\ Owed' = Owed
        /\ Climbs /\ rule.kind = "ancestor_field_check"
    <3>1. rule' = rule /\ tree' = tree
      BY DEF Next, Call, LoadSelf, Seed, Step, SelectSelf, SelectMatch, NoAncestor,
             CompareFields, CompareRanks, QueryFails, Keep, Write, Done, vars
    <3>2. MatchingHops' = MatchingHops
      BY <3>1 DEF MatchingHops, Depths, HasDepth
    <3>3. Owed' = Owed
      BY <3>1, <3>2 DEF Owed
    <3> QED BY <3>1, <3>3 DEF Climbs
  <2>2. CASE pc = "done"
    <3>1. verdict' = verdict /\ self' = self
      BY <2>2 DEF Next, Call, LoadSelf, Seed, Step, SelectSelf, SelectMatch, NoAncestor,
                  CompareFields, CompareRanks, Walked, QueryFails, Keep, Write, Done, vars
    <3> QED BY <2>1, <2>2, <3>1 DEF NearestAncestorDecides, Answered, Owed
  <2>3. CASE LoadSelf
    BY <2>1, <2>3 DEF LoadSelf, Answer, Owed
  <2>4. CASE pc # "done" /\ ~ LoadSelf
    <3>1. pc = "walk" /\ queue = {} /\ (NoAncestor \/ CompareFields)
      BY <2>1, <2>4 DEF Next, Call, Seed, Step, SelectSelf, SelectMatch, NoAncestor,
                        CompareFields, CompareRanks, QueryFails, Answer, Walked,
                        Write, Done, vars
    <3>2. self = Lookup(tree, Self, rule.join) /\ self # Absent
      BY <2>1, <3>1 DEF Books, SelfBooks, NoAncestor, CompareFields, Keep
    <3>3. CASE NoAncestor
      <4>1. MatchingHops = {}
        BY <2>1, <3>1, <3>3, FoundHops DEF NoAncestor
      <4> QED BY <2>1, <3>2, <3>3, <4>1 DEF NoAncestor, Answer, Owed
    <3>4. CASE CompareFields
      <4>1. Found # {}
        BY <3>4 DEF CompareFields
      <4>2. /\ MatchingHops # {}
            /\ Nearest(Found)[1] =
                 AncestorAt(tree, CHOOSE n \in MatchingHops : \A m \in MatchingHops : n <= m)
        BY <2>1, <3>1, <4>1, NearestHop
      <4> QED BY <2>1, <3>2, <3>4, <4>2 DEF CompareFields, Answer, Owed
    <3> QED BY <3>1, <3>3, <3>4
  <2> QED BY <2>2, <2>3, <2>4
<1> QED
  BY <1>1, <1>2, AlwaysBooks, PTL DEF Spec

(* A verdict of parent_rank_higher is that of the tree at its second       *)
(* statement unless the record's own fields changed since the first, and   *)
(* that of the tree at the first unless its parent's did, with and without *)
(* a join, for a record that is moved meanwhile too.                       *)
THEOREM RankVerdictsAreOfOneTree == Spec => []RankVerdictOfOneTree
<1>1. Init => RankVerdictOfOneTree
  BY DEF Init, RankVerdictOfOneTree, Answered
<1>2. RankVerdictOfOneTree /\ [Next]_vars => RankVerdictOfOneTree'
  <2> SUFFICES ASSUME RankVerdictOfOneTree, [Next]_vars, pc' = "done",
                      rule'.kind = "parent_rank_higher", verdict' # "failed"
               PROVE  LET own == Lookup(tree', Self, rule'.join)
                          up == ParentFields(tree', Self, rule'.join)
                      IN  /\ own = self' => verdict' = RankVerdict(own, up)
                          /\ up = upThen' => verdict' = RankVerdict(self', upThen')
    BY DEF RankVerdictOfOneTree, Answered
  <2>1. rule' = rule /\ tree' = tree /\ rule.kind = "parent_rank_higher"
    BY DEF Next, Call, LoadSelf, Seed, Step, SelectSelf, SelectMatch, NoAncestor,
           CompareFields, CompareRanks, QueryFails, Keep, Write, Done, vars
  <2>2. CASE pc = "done"
    <3>1. verdict' = verdict /\ self' = self /\ upThen' = upThen
      BY <2>2 DEF Next, Call, LoadSelf, Seed, Step, SelectSelf, SelectMatch, NoAncestor,
                  CompareFields, CompareRanks, Walked, QueryFails, Keep, Write, Done, vars
    <3> QED BY <2>1, <2>2, <3>1 DEF RankVerdictOfOneTree, Answered
  <2>3. CASE LoadSelf
    <3>1. verdict' = "pass" /\ (self' = Absent \/ Unranked(self'))
      BY <2>1, <2>3 DEF LoadSelf, Answer
    <3>2. \A up : RankVerdict(self', up) = "pass"
      BY <3>1 DEF RankVerdict, Comparable
    <3> QED BY <3>1, <3>2
  <2>4. CASE pc # "done" /\ ~ LoadSelf
    <3>1. CompareRanks
      BY <2>1, <2>4 DEF Next, Call, Seed, Step, SelectSelf, SelectMatch, NoAncestor,
                        CompareFields, QueryFails, Answer, Walked, Write, Done, vars
    <3>2. /\ self' = self /\ upThen' = upThen
          /\ verdict' = RankVerdict(self, ParentFields(tree, Self, rule.join))
      BY <3>1 DEF CompareRanks, RanksAgree, Answer, Keep
    <3> QED BY <2>1, <3>2
  <2> QED BY <2>2, <2>3, <2>4
<1> QED
  BY <1>1, <1>2, PTL DEF Spec
=============================================================================
