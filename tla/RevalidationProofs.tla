-------------------------- MODULE RevalidationProofs --------------------------
(***************************************************************************)
(* Proofs about Revalidation, for every set of writers, records, columns   *)
(* and values, every rule list and every bound.                            *)
(*                                                                         *)
(* Freshness needs SymmetricRules.  Its core is CountChangeIsMutual: if a  *)
(* write of r changes the verdict of another record x, then r was or is    *)
(* among the rows x counts, and with symmetric rules x was or is among the *)
(* rows r counts, which is what r's neighbourhood returns.                 *)
(***************************************************************************)
EXTENDS Revalidation, FiniteSetTheorems, TLAPS

USE TablesAssumption, CellsAssumption, RowsAssumption, RulesAssumption,
    NoRecordAssumption, BoundsAssumption

(* A verdict is one of the three outcomes.                                 *)
LEMMA ValidateType ==
  ASSUME NEW D, NEW x, NEW fields, NEW rule
  PROVE  Validate(D, x, fields, rule) \in Verdicts
BY DEF Validate, Verdicts

(* The rules are rule records.                                             *)
LEMMA RuleType ==
  ASSUME NEW i \in RuleIds
  PROVE  /\ Rules[i] \in RuleRecords
         /\ Len(Rules) \in Nat
BY DEF RuleIds

(* A neighbourhood is a set of records.                                    *)
LEMMA NeighborhoodsType ==
  ASSUME NEW D, NEW r, NEW fields
  PROVE  /\ \A i : NeighborsBy(D, r, fields, i) \subseteq Records
         /\ NeighborhoodsFromRecord(D, r, fields) \subseteq Records
BY DEF NeighborhoodsFromRecord, NeighborsBy, Neighborhood, Matching

(* Whether a rule's query names x depends on no row but x's own: it can    *)
(* run later than the write it is for.                                     *)
LEMMA QueryIsLocal ==
  ASSUME NEW D, NEW E, NEW r, NEW fields, NEW x, D[x] = E[x], NEW i,
         x \in NeighborsBy(D, r, fields, i)
  PROVE  x \in NeighborsBy(E, r, fields, i)
BY DEF NeighborsBy, Neighborhood, Matching

(* The same of the whole loop.                                             *)
LEMMA NeighborhoodIsLocal ==
  ASSUME NEW D, NEW E, NEW r, NEW fields, NEW x, D[x] = E[x],
         x \in NeighborhoodsFromRecord(D, r, fields)
  PROVE  x \in NeighborhoodsFromRecord(E, r, fields)
BY QueryIsLocal DEF NeighborhoodsFromRecord

(* One side of CountChangeIsMutual: if x counts r under a symmetric rule   *)
(* it does not skip, then r's neighbourhood contains x.                    *)
LEMMA CountIsMutual ==
  ASSUME SymmetricRules, NEW i \in RuleIds,
         Rules[i].validator = "count_across",
         NEW D \in Databases, NEW E \in Databases,
         NEW x \in Records, NEW r \in Records, x # r,
         E[x] = D[x], D[x] # Absent,
         Rules[i].on = TableOf[x], Rules[i].active,
         ~ Skips(D[x], Rules[i]),
         r \in Matching(D, x, D[x], Rules[i])
  PROVE  /\ D[r] # Absent
         /\ x \in NeighborhoodsFromRecord(E, r, D[r])
<1> DEFINE rule == Rules[i]
<1>1. /\ TableOf[r] = rule.table
      /\ D[r] # Absent
      /\ \A m \in rule.match : SqlEquals(D[r][m.target], D[x][m.self])
  BY DEF Matching
<1>2. /\ rule.table = rule.on
      /\ \A m \in rule.match : m.target = m.self
  BY DEF SymmetricRules
<1>3. Provides(r, i)
  BY <1>1, <1>2 DEF Provides
<1>4. \A m \in rule.match : D[r][m.self] = D[x][m.self] /\ D[x][m.self] # NULL
  BY <1>1, <1>2 DEF SqlEquals
<1>5. ~ Skips(D[r], rule)
  BY <1>4 DEF Skips
<1>6. x \in Matching(E, r, D[r], rule)
  BY <1>1, <1>2, <1>4 DEF Matching, SqlEquals, Excluded
<1>7. x \in Neighborhood(E, r, FieldsOf(D[r]), rule)
  BY <1>1, <1>5, <1>6 DEF Neighborhood, FieldsOf
<1> QED
  BY <1>1, <1>3, <1>7 DEF NeighborhoodsFromRecord, NeighborsBy

(* If changing the row of r changes the verdict of another record x under  *)
(* a symmetric rule, then x is in r's neighbourhood, by its old row or by  *)
(* its new one.                                                            *)
LEMMA CountChangeIsMutual ==
  ASSUME SymmetricRules, NEW i \in RuleIds,
         NEW D \in Databases, NEW E \in Databases,
         NEW x \in Records, NEW r \in Records, x # r,
         \A y \in Records \ {r} : E[y] = D[y],
         Validate(D, x, D[x], Rules[i]) # Validate(E, x, E[x], Rules[i])
  PROVE  \/ x \in NeighborhoodsFromRecord(E, r, D[r])
         \/ E[r] # Absent /\ x \in NeighborhoodsFromRecord(E, r, E[r])
<1> DEFINE rule == Rules[i]
<1>1. E[x] = D[x]
  OBVIOUS
<1>2. /\ D[x] # Absent
      /\ rule.on = TableOf[x]
      /\ EvalConditions(D[x], rule)
      /\ rule.validator = "count_across"
      /\ CountPasses(D, x, D[x], rule) # CountPasses(E, x, D[x], rule)
  BY <1>1 DEF Validate
<1>3. rule.active
  BY <1>2 DEF EvalConditions
<1>4. /\ ~ Skips(D[x], rule)
      /\ Matching(D, x, D[x], rule) # Matching(E, x, D[x], rule)
  BY <1>2 DEF CountPasses
<1>5. PICK y : \/ y \in Matching(D, x, D[x], rule) /\ y \notin Matching(E, x, D[x], rule)
               \/ y \in Matching(E, x, D[x], rule) /\ y \notin Matching(D, x, D[x], rule)
  BY <1>4
<1>6. y = r
  BY <1>5 DEF Matching
<1>7. CASE r \in Matching(D, x, D[x], rule)
  BY <1>1, <1>2, <1>3, <1>4, <1>7, CountIsMutual
<1>8. CASE r \in Matching(E, x, D[x], rule)
  <2>1. /\ E[x] # Absent
        /\ ~ Skips(E[x], rule)
        /\ r \in Matching(E, x, E[x], rule)
    BY <1>1, <1>2, <1>4, <1>8
  <2> QED
    BY <1>2, <1>3, <2>1, CountIsMutual
<1> QED
  BY <1>5, <1>6, <1>7, <1>8
-----------------------------------------------------------------------------
(* The initial state is well typed.                                        *)
LEMMA InitTypeOK == Init => TypeOK
BY ValidateType DEF Init, TypeOK, Phases, Current, CurrentVerdicts, Databases

(* Every step keeps the state well typed.                                  *)
LEMMA StepTypeOK == TypeOK /\ Bookkeeping /\ [Next]_vars => TypeOK'
<1> SUFFICES ASSUME TypeOK, Bookkeeping, [Next]_vars
             PROVE  TypeOK'
  OBVIOUS
<1> USE DEF TypeOK, Phases, Walking
<1>1. ASSUME NEW w \in Writers, NEW r \in Records, NEW new \in Rows \cup {Absent},
             Write(w, r, new)
      PROVE  TypeOK'
  BY <1>1 DEF Write, execution, Databases
<1>2. ASSUME NEW w \in Writers, Ask(w)
      PROVE  TypeOK'
  <2>1. NeighborsBy(db, target[w], row[w], asked[w] + 1) \subseteq Records
    BY NeighborhoodsType
  <2>2. asked' \in [Writers -> 0 .. Len(Rules)]
    BY <1>2 DEF Ask
  <2>3. found' \in [Writers -> SUBSET Records]
    BY <1>2, <2>1 DEF Ask
  <2> QED
    BY <1>2, <2>2, <2>3 DEF Ask, execution
<1>3. ASSUME NEW w \in Writers, Return(w)
      PROVE  TypeOK'
  BY <1>3 DEF Return, execution
<1>11. ASSUME NEW w \in Writers, LoadTarget(w)
      PROVE  TypeOK'
  <2>1. target[w] \in Records
    BY <1>11 DEF LoadTarget, Bookkeeping
  <2> QED
    BY <1>11, <2>1 DEF LoadTarget, execution, Databases
<1>12. ASSUME NEW w \in Writers, TargetGone(w)
      PROVE  TypeOK'
  BY <1>12 DEF TargetGone, walk, execution
<1>13. ASSUME NEW w \in Writers, FailWalk(w)
      PROVE  TypeOK'
  BY <1>13 DEF FailWalk, AfterError, execution
<1>14. ASSUME NEW w \in Writers, NEW x \in Records, FailToStart(w, x)
      PROVE  TypeOK'
  BY <1>14 DEF FailToStart, walk, execution
<1>4. ASSUME NEW w \in Writers, NEW x \in Records, Start(w, x)
      PROVE  TypeOK'
  BY <1>4 DEF Start, Unclaimed, walk, Databases
<1>5. ASSUME NEW w \in Writers, NEW x \in Records, Forget(w, x)
      PROVE  TypeOK'
  BY <1>5 DEF Forget, Unclaimed, walk, execution, Verdicts
<1>6. ASSUME NEW w \in Writers, Evaluate(w)
      PROVE  TypeOK'
  BY <1>6, ValidateType DEF Evaluate, walk
<1>7. ASSUME NEW w \in Writers, Finish(w)
      PROVE  TypeOK'
  <2>1. got[w] \in [RuleIds -> Verdicts]
    BY <1>7 DEF Finish, RuleIds
  <2> QED
    BY <1>7, <2>1 DEF Finish, walk
<1>8. ASSUME NEW w \in Writers, Fail(w)
      PROVE  TypeOK'
  BY <1>8 DEF Fail, ResultsOnError, walk
<1>9. ASSUME NEW w \in Writers, Done(w)
      PROVE  TypeOK'
  BY <1>9 DEF Done, walk, execution
<1>10. CASE UNCHANGED vars
  BY <1>10 DEF vars
<1> QED
  BY <1>1, <1>2, <1>3, <1>4, <1>5, <1>6, <1>7, <1>8, <1>9, <1>10, <1>11, <1>12,
     <1>13, <1>14 DEF Next, Propagate, Rest

-----------------------------------------------------------------------------
(* Every step keeps the writers' books.                                    *)
LEMMA StepBookkeeping == TypeOK /\ Bookkeeping /\ [Next]_vars => Bookkeeping'
<1> SUFFICES ASSUME TypeOK, Bookkeeping, [Next]_vars
             PROVE  Bookkeeping'
  OBVIOUS
<1> USE DEF TypeOK, Phases, Walking, Bookkeeping
<1>1. ASSUME NEW w \in Writers, NEW r \in Records, NEW new \in Rows \cup {Absent},
             Write(w, r, new)
      PROVE  Bookkeeping'
  BY <1>1 DEF Write, execution
<1>2. ASSUME NEW w \in Writers, Ask(w)
      PROVE  Bookkeeping'
  BY <1>2 DEF Ask, execution
<1>3. ASSUME NEW w \in Writers, Return(w)
      PROVE  Bookkeeping'
  BY <1>3 DEF Return, execution
<1>11. ASSUME NEW w \in Writers, LoadTarget(w)
      PROVE  Bookkeeping'
  BY <1>11 DEF LoadTarget, execution
<1>12. ASSUME NEW w \in Writers, TargetGone(w)
      PROVE  Bookkeeping'
  BY <1>12 DEF TargetGone, walk, execution
<1>13. ASSUME NEW w \in Writers, FailWalk(w)
      PROVE  Bookkeeping'
  BY <1>13 DEF FailWalk, AfterError, execution
<1>14. ASSUME NEW w \in Writers, NEW x \in Records, FailToStart(w, x)
      PROVE  Bookkeeping'
  BY <1>14 DEF FailToStart, walk, execution
<1>4. ASSUME NEW w \in Writers, NEW x \in Records, Start(w, x)
      PROVE  Bookkeeping'
  BY <1>4 DEF Start, Unclaimed, NotBeingExecuted, walk
<1>5. ASSUME NEW w \in Writers, NEW x \in Records, Forget(w, x)
      PROVE  Bookkeeping'
  BY <1>5 DEF Forget, Unclaimed, walk, execution
<1>6. ASSUME NEW w \in Writers, Evaluate(w)
      PROVE  Bookkeeping'
  <2>1. got[w] \in Seq(Verdicts) /\ got'[w] = Append(got[w],
             Validate(db, cur[w], loaded[w], Rules[Len(got[w]) + 1]))
    BY <1>6 DEF Evaluate
  <2>2. Len(got'[w]) = Len(got[w]) + 1
    BY <2>1, ValidateType
  <2> QED
    BY <1>6, <2>2 DEF Evaluate, walk
<1>7. ASSUME NEW w \in Writers, Finish(w)
      PROVE  Bookkeeping'
  BY <1>7 DEF Finish, walk
<1>8. ASSUME NEW w \in Writers, Fail(w)
      PROVE  Bookkeeping'
  BY <1>8 DEF Fail, ResultsOnError, walk
<1>9. ASSUME NEW w \in Writers, Done(w)
      PROVE  Bookkeeping'
  BY <1>9 DEF Done, walk, execution
<1>10. CASE UNCHANGED vars
  BY <1>10 DEF vars
<1> QED
  BY <1>1, <1>2, <1>3, <1>4, <1>5, <1>6, <1>7, <1>8, <1>9, <1>10, <1>11, <1>12,
     <1>13, <1>14 DEF Next, Propagate, Rest

(* Type correctness: every behaviour of every instance stays well typed.   *)
THEOREM TypeCorrect == Spec => []TypeOK
<1>1. Init => Bookkeeping
  BY DEF Init, Bookkeeping, Walking
<1> QED
  BY <1>1, InitTypeOK, StepTypeOK, StepBookkeeping, PTL DEF Spec

(* What StaleIsOwed says of one record and one rule.                       *)
Tracked(x, i) ==
  \/ Owed(x)
  \/ \E w \in Writers : cur[w] = x /\ OnCourse(w, i)
  \/ (\A w \in Writers : cur[w] # x) /\ stored[x][i] = Current(x, i)

(* The inductive invariant.                                                *)
IInv == TypeOK /\ Bookkeeping /\ StaleIsOwed

(* StaleIsOwed, one record and one rule at a time.                         *)
LEMMA TrackedIsStaleIsOwed ==
  StaleIsOwed <=> \A x \in Records : \A i \in RuleIds : Tracked(x, i)
BY DEF StaleIsOwed, Tracked

(* A write leaves every other record owed if its verdict changed, and in   *)
(* the state it was in if not.                                             *)
LEMMA WriteTracks ==
  ASSUME SymmetricRules, IInv,
         NEW w \in Writers, NEW r \in Records, NEW new \in Rows \cup {Absent},
         Write(w, r, new),
         NEW x \in Records, NEW i \in RuleIds
  PROVE  Tracked(x, i)'
<1> USE DEF IInv, TypeOK, Phases, Walking
<1>1. /\ pc[w] = "idle" /\ pc' = [pc EXCEPT ![w] = "oldside"]
      /\ db' = [db EXCEPT ![r] = new]
      /\ row' = [row EXCEPT ![w] = db[r]]
      /\ target' = [target EXCEPT ![w] = r]
      /\ todo' = [todo EXCEPT ![w] = {r}]
      /\ UNCHANGED <<stored, asked, found, cur, loaded, got>>
  BY DEF Write, execution
<1>2. /\ db \in Databases /\ db' \in Databases
      /\ \A y \in Records \ {r} : db'[y] = db[y]
  BY <1>1 DEF Databases
<1>3. /\ pc'[w] = "oldside" /\ target'[w] = r /\ row'[w] = db[r]
      /\ todo'[w] = {r} /\ db'[r] = new /\ asked'[w] = 0 /\ found'[w] = {}
  BY <1>1 DEF Databases, Bookkeeping
<1>4. CASE x = r
  BY <1>3, <1>4 DEF Tracked, Owed, OwedBy
<1>5. CASE x # r
  <2>1. db'[x] = db[x]
    BY <1>2, <1>5
  <2>2. ASSUME x \in NeighborhoodsFromRecord(db', r, db[r])
        PROVE  Tracked(x, i)'
    <3>1. x \in Side(w, row[w])'
      BY <1>3, <2>2 DEF Side
    <3>2. x \in Collected(w)'
      BY <1>3, <2>2 DEF Collected, NeighborhoodsFromRecord, RuleIds
    <3> QED
      BY <1>3, <3>1, <3>2 DEF Tracked, Owed, OwedBy
  <2>3. ASSUME db'[r] # Absent, x \in NeighborhoodsFromRecord(db', r, db'[r])
        PROVE  Tracked(x, i)'
    BY <1>3, <2>3 DEF Tracked, Owed, OwedBy, Side, Collected
  <2>4. ASSUME NEW v \in Writers, OwedBy(v, x)
        PROVE  Tracked(x, i)'
    <3>1. v # w
      BY <1>1, <2>4 DEF Bookkeeping, OwedBy
    <3>2. /\ pc'[v] = pc[v] /\ target'[v] = target[v] /\ row'[v] = row[v]
          /\ asked'[v] = asked[v] /\ found'[v] = found[v] /\ todo'[v] = todo[v]
      BY <1>1, <3>1
    <3>3. x \in Collected(v) => x \in Collected(v)'
      BY <2>1, <3>2, QueryIsLocal DEF Collected
    <3>4. \A s : x \in Side(v, s) => x \in NeighborhoodsFromRecord(db', target[v], s)
      BY <2>1, NeighborhoodIsLocal DEF Side
    <3>5. CASE x \in todo[v]
      BY <3>2, <3>5 DEF Tracked, Owed, OwedBy
    <3>6. CASE pc[v] = "oldside" /\ x \in Side(v, row[v]) \cap Collected(v)
      <4>1. x \in Side(v, row[v])'
        BY <3>2, <3>4, <3>6 DEF Side
      <4> QED
        BY <3>2, <3>3, <3>6, <4>1 DEF Tracked, Owed, OwedBy
    <3>7. CASE /\ pc[v] \in {"oldside", "reload"}
               /\ db[target[v]] # Absent
               /\ x \in Side(v, db[target[v]])
      <4>1. x \in NeighborhoodsFromRecord(db', target[v], db[target[v]])
        BY <3>4, <3>7
      <4>2. CASE target[v] = r
        BY <2>2, <4>1, <4>2
      <4>3. CASE target[v] # r
        <5>1. target[v] \in Records
          BY <3>7 DEF Bookkeeping
        <5>2. db'[target[v]] = db[target[v]]
          BY <1>2, <4>3, <5>1
        <5> QED
          BY <3>2, <3>7, <4>1, <5>2 DEF Tracked, Owed, OwedBy, Side, Collected
      <4> QED
        BY <4>2, <4>3
    <3>8. CASE /\ pc[v] = "newside" /\ row[v] = db[target[v]]
               /\ x \in Side(v, row[v]) \cap Collected(v)
      <4>1. x \in NeighborhoodsFromRecord(db', target[v], db[target[v]])
        BY <3>4, <3>8
      <4>2. CASE target[v] = r
        BY <2>2, <4>1, <4>2
      <4>3. CASE target[v] # r
        <5>1. target[v] \in Records
          BY <3>8 DEF Bookkeeping
        <5>2. db'[target[v]] = db[target[v]]
          BY <1>2, <4>3, <5>1
        <5>3. row'[v] = db'[target'[v]] /\ x \in Side(v, row[v])'
          BY <3>2, <3>8, <4>1, <5>2 DEF Side
        <5> QED
          BY <3>2, <3>3, <3>8, <5>3 DEF Tracked, Owed, OwedBy
      <4> QED
        BY <4>2, <4>3
    <3> QED
      BY <2>4, <3>5, <3>6, <3>7, <3>8 DEF OwedBy
  <2>5. ASSUME Current(x, i)' # Current(x, i)
        PROVE  Tracked(x, i)'
    <3>1. Validate(db, x, db[x], Rules[i]) # Validate(db', x, db'[x], Rules[i])
      BY <2>5 DEF Current
    <3>2. \/ x \in NeighborhoodsFromRecord(db', r, db[r])
          \/ db'[r] # Absent /\ x \in NeighborhoodsFromRecord(db', r, db'[r])
      BY <1>2, <1>5, <3>1, CountChangeIsMutual
    <3> QED
      BY <2>2, <2>3, <3>2
  <2>6. ASSUME Current(x, i)' = Current(x, i),
               NEW v \in Writers, cur[v] = x, OnCourse(v, i)
        PROVE  Tracked(x, i)'
    <3>1. cur'[v] = x /\ got'[v] = got[v] /\ loaded'[v] = loaded[v]
      BY <1>1, <2>6
    <3>2. OnCourse(v, i)'
      BY <2>1, <2>6, <3>1 DEF OnCourse
    <3> QED
      BY <3>1, <3>2 DEF Tracked
  <2>7. ASSUME Current(x, i)' = Current(x, i),
               \A v \in Writers : cur[v] # x, stored[x][i] = Current(x, i)
        PROVE  Tracked(x, i)'
    BY <1>1, <2>7 DEF Tracked
  <2>8. Tracked(x, i)
    BY TrackedIsStaleIsOwed
  <2> QED
    BY <2>4, <2>5, <2>6, <2>7, <2>8 DEF Tracked, Owed
<1> QED
  BY <1>4, <1>5

(* A step that leaves the database, the stored verdicts and the running    *)
(* executions alone and drops no debt keeps every verdict tracked.         *)
LEMMA DebtKept ==
  ASSUME UNCHANGED <<db, stored, cur, loaded, got>>,
         NEW x \in Records, NEW i \in RuleIds, Tracked(x, i),
         Owed(x) => Owed(x)'
  PROVE  Tracked(x, i)'
<1>1. Current(x, i)' = Current(x, i)
  BY DEF Current
<1>2. \A v \in Writers : cur[v] = x => (OnCourse(v, i)' <=> OnCourse(v, i))
  BY DEF OnCourse, Current
<1> QED
  BY <1>1, <1>2 DEF Tracked

(* Every step but Write keeps every verdict tracked.                       *)
LEMMA PropagateTracks ==
  ASSUME IInv, NEW w \in Writers,
         Propagate(w) \/ FailWalk(w) \/ Fail(w) \/ \E y \in Records : FailToStart(w, y),
         NEW x \in Records, NEW i \in RuleIds
  PROVE  Tracked(x, i)'
<1> USE DEF IInv, TypeOK, Phases, Walking
<1>0. Tracked(x, i)
  BY TrackedIsStaleIsOwed
<1>1. ASSUME db' = db PROVE Current(x, i)' = Current(x, i)
  BY <1>1 DEF Current
<1>2. CASE Ask(w)
  <2>1. \A v \in Writers \ {w} : OwedBy(v, x) => OwedBy(v, x)'
    BY <1>2 DEF Ask, OwedBy, Side, Collected
  <2>2. x \in Collected(w) => x \in Collected(w)'
    BY <1>2 DEF Ask, Collected, RuleIds
  <2>3. \A s : x \in Side(w, s) => x \in Side(w, s)'
    BY <1>2 DEF Ask, Side
  <2>4. OwedBy(w, x) => OwedBy(w, x)'
    BY <1>2, <2>2, <2>3 DEF Ask, OwedBy, Side, Collected
  <2> QED
    BY <1>0, <1>2, <2>1, <2>4, DebtKept DEF Ask, execution, Owed
<1>3. CASE Return(w)
  <2>1. \A v \in Writers \ {w} : OwedBy(v, x) => OwedBy(v, x)'
    BY <1>3 DEF Return, OwedBy, Side, Collected
  <2>2. Collected(w) = found[w]
    BY <1>3 DEF Return, Collected, RuleIds
  <2>3. OwedBy(w, x) => OwedBy(w, x)'
    BY <1>3, <2>2 DEF Return, OwedBy, Side, Collected
  <2> QED
    BY <1>0, <1>3, <2>1, <2>3, DebtKept DEF Return, execution, Owed
<1>10. CASE LoadTarget(w)
  <2>1. \A v \in Writers \ {w} : OwedBy(v, x) => OwedBy(v, x)'
    BY <1>10 DEF LoadTarget, OwedBy, Side, Collected
  <2>2. /\ pc'[w] = "newside" /\ row'[w] = db[target[w]] /\ db' = db
        /\ asked'[w] = 0 /\ found'[w] = {} /\ target' = target /\ todo' = todo
    BY <1>10 DEF LoadTarget, Bookkeeping
  <2>3. Collected(w)' = Side(w, row[w])'
    BY <2>2 DEF Collected, Side, NeighborhoodsFromRecord, RuleIds
  <2>4. OwedBy(w, x) => x \in todo[w] \/ x \in Side(w, db[target[w]])
    BY <1>10 DEF LoadTarget, OwedBy
  <2>5. Side(w, row[w])' = Side(w, db[target[w]])
    BY <2>2 DEF Side
  <2>6. OwedBy(w, x) => OwedBy(w, x)'
    BY <2>2, <2>3, <2>4, <2>5 DEF OwedBy
  <2> QED
    BY <1>0, <1>10, <2>1, <2>6, DebtKept DEF LoadTarget, execution, Owed
<1>11. CASE TargetGone(w)
  <2>1. \A v \in Writers : OwedBy(v, x) => OwedBy(v, x)'
    BY <1>11 DEF TargetGone, walk, OwedBy, Side, Collected
  <2> QED
    BY <1>0, <1>11, <2>1, DebtKept DEF TargetGone, execution, Owed
<1>12. CASE FailWalk(w)
  <2>1. \A v \in Writers \ {w} : OwedBy(v, x) => OwedBy(v, x)'
    BY <1>12 DEF FailWalk, OwedBy, Side, Collected
  <2>2. /\ db' = db /\ target' = target /\ row' = row /\ todo' = todo
        /\ asked'[w] = 0 /\ found'[w] = {}
    BY <1>12 DEF FailWalk, AfterError
  <2>3. Collected(w)' = Side(w, row[w])
    BY <2>2 DEF Collected, Side, NeighborhoodsFromRecord, RuleIds
  <2>4. \A s : Side(w, s)' = Side(w, s)
    BY <2>2 DEF Side
  <2>5. CASE pc[w] = "oldside"
    <3>1. pc'[w] = "oldside"
      BY <1>12, <2>5 DEF FailWalk
    <3>2. OwedBy(w, x) => OwedBy(w, x)'
      BY <2>2, <2>3, <2>4, <2>5, <3>1 DEF OwedBy
    <3> QED
      BY <1>0, <1>12, <2>1, <3>2, DebtKept DEF FailWalk, execution, Owed
  <2>6. CASE pc[w] # "oldside"
    <3>1. pc'[w] = "reload"
      BY <1>12, <2>6 DEF FailWalk
    <3>2. pc[w] = "newside" /\ row[w] = db[target[w]] => db[target[w]] # Absent
      BY DEF Bookkeeping
    <3>3. OwedBy(w, x) => OwedBy(w, x)'
      BY <2>2, <2>4, <2>6, <3>1, <3>2 DEF OwedBy
    <3> QED
      BY <1>0, <1>12, <2>1, <3>3, DebtKept DEF FailWalk, execution, Owed
  <2> QED
    BY <2>5, <2>6
<1>13. ASSUME NEW y \in Records, FailToStart(w, y)
      PROVE  Tracked(x, i)'
  <2>1. \A v \in Writers : OwedBy(v, x) => OwedBy(v, x)'
    BY <1>13 DEF FailToStart, walk, OwedBy, Side, Collected
  <2> QED
    BY <1>0, <1>13, <2>1, DebtKept DEF FailToStart, execution, Owed
<1>4. ASSUME NEW y \in Records, Start(w, y)
      PROVE  Tracked(x, i)'
  <2>1. CASE x = y
    <3>1. cur'[w] = x /\ loaded'[w] = db[x] /\ got'[w] = <<>> /\ db' = db
      BY <1>4, <2>1 DEF Start
    <3>2. OnCourse(w, i)'
      BY <3>1 DEF OnCourse, RuleIds
    <3> QED
      BY <3>1, <3>2 DEF Tracked
  <2>2. CASE x # y
    <3>1. \A v \in Writers : OwedBy(v, x) => OwedBy(v, x)'
      BY <1>4, <2>2 DEF Start, Unclaimed, walk, OwedBy, Side, Collected
    <3>2. \A v \in Writers : cur[v] = x =>
             cur'[v] = x /\ (OnCourse(v, i) => OnCourse(v, i)')
      BY <1>1, <1>4, <2>2 DEF Start, Unclaimed, OnCourse, Current
    <3>3. (\A v \in Writers : cur[v] # x) => (\A v \in Writers : cur'[v] # x)
      BY <1>4, <2>2 DEF Start
    <3>4. stored' = stored /\ db' = db
      BY <1>4 DEF Start
    <3> QED
      BY <1>0, <1>1, <3>1, <3>2, <3>3, <3>4 DEF Tracked, Owed
  <2> QED
    BY <2>1, <2>2
<1>5. ASSUME NEW y \in Records, Forget(w, y)
      PROVE  Tracked(x, i)'
  <2>1. CASE x = y
    <3>1. stored'[x][i] = "none" /\ cur' = cur /\ db' = db /\ db[x] = Absent
      BY <1>5, <2>1 DEF Forget, Unclaimed, execution
    <3>2. Current(x, i)' = "none"
      BY <3>1 DEF Current, Validate, PresencePasses
    <3>3. \A v \in Writers : cur'[v] # x
      BY <1>5, <2>1, <3>1 DEF Forget, Unclaimed, NotBeingExecuted
    <3> QED
      BY <3>1, <3>2, <3>3 DEF Tracked
  <2>2. CASE x # y
    <3>1. \A v \in Writers : OwedBy(v, x) => OwedBy(v, x)'
      BY <1>5, <2>2 DEF Forget, Unclaimed, walk, OwedBy, Side, Collected
    <3>2. db' = db /\ cur' = cur /\ got' = got /\ loaded' = loaded
          /\ stored'[x] = stored[x]
      BY <1>5, <2>2 DEF Forget, execution
    <3>3. \A v \in Writers : cur[v] = x => (OnCourse(v, i) => OnCourse(v, i)')
      BY <1>1, <3>2 DEF OnCourse, Current
    <3> QED
      BY <1>0, <1>1, <3>1, <3>2, <3>3 DEF Tracked, Owed
  <2> QED
    BY <2>1, <2>2
<1>6. CASE Evaluate(w)
  <2>1. \A v \in Writers : OwedBy(v, x) => OwedBy(v, x)'
    BY <1>6 DEF Evaluate, walk, OwedBy, Side, Collected
  <2>2. db' = db /\ cur' = cur /\ loaded' = loaded /\ stored' = stored
    BY <1>6 DEF Evaluate
  <2>3. ASSUME NEW v \in Writers, cur[v] = x, OnCourse(v, i)
        PROVE  OnCourse(v, i)'
    <3>1. CASE v # w
      BY <1>1, <1>6, <2>2, <2>3, <3>1 DEF Evaluate, OnCourse, Current
    <3>2. CASE v = w
      <4>1. got'[w] = Append(got[w],
                        Validate(db, x, loaded[w], Rules[Len(got[w]) + 1]))
        BY <1>6, <2>3, <3>2 DEF Evaluate
      <4>2. /\ Len(got'[w]) = Len(got[w]) + 1
            /\ got'[w][Len(got[w]) + 1] =
                 Validate(db, x, loaded[w], Rules[Len(got[w]) + 1])
            /\ \A j \in 1 .. Len(got[w]) : got'[w][j] = got[w][j]
        BY <4>1, ValidateType
      <4>3. CASE i <= Len(got[w])
        BY <1>1, <2>2, <2>3, <3>2, <4>2, <4>3 DEF OnCourse, Current, RuleIds
      <4>4. CASE i = Len(got[w]) + 1
        BY <1>1, <2>2, <2>3, <3>2, <4>2, <4>4 DEF OnCourse, Current, RuleIds
      <4>5. CASE i > Len(got[w]) + 1
        BY <2>2, <2>3, <3>2, <4>2, <4>5 DEF OnCourse, RuleIds
      <4> QED
        BY <4>3, <4>4, <4>5 DEF RuleIds
    <3> QED
      BY <3>1, <3>2
  <2> QED
    BY <1>0, <1>1, <2>1, <2>2, <2>3 DEF Tracked, Owed
<1>7. CASE Finish(w)
  <2>1. \A v \in Writers : OwedBy(v, x) => OwedBy(v, x)'
    BY <1>7 DEF Finish, walk, OwedBy, Side, Collected
  <2>2. db' = db /\ loaded' = loaded /\ got' = got
    BY <1>7 DEF Finish
  <2>3. CASE cur[w] = x
    <3>1. /\ stored'[x] = got[w]
          /\ \A v \in Writers : cur'[v] # x
          /\ Len(got[w]) = Len(Rules)
      BY <1>7, <2>3 DEF Finish, Bookkeeping
    <3>2. ASSUME NEW v \in Writers, cur[v] = x, OnCourse(v, i)
          PROVE  stored'[x][i] = Current(x, i)
      <4>1. v = w
        BY <2>3, <3>2 DEF Bookkeeping
      <4> QED
        BY <2>3, <3>1, <3>2, <4>1 DEF OnCourse, RuleIds
    <3> QED
      BY <1>0, <1>1, <2>1, <2>2, <2>3, <3>1, <3>2 DEF Tracked, Owed
  <2>4. CASE cur[w] # x
    <3>1. stored'[x] = stored[x]
      BY <1>7, <2>4 DEF Finish
    <3>2. \A v \in Writers : cur[v] = x =>
             cur'[v] = x /\ (OnCourse(v, i) => OnCourse(v, i)')
      BY <1>1, <1>7, <2>2, <2>4 DEF Finish, OnCourse, Current
    <3>3. (\A v \in Writers : cur[v] # x) => (\A v \in Writers : cur'[v] # x)
      BY <1>7 DEF Finish
    <3> QED
      BY <1>0, <1>1, <2>1, <2>2, <3>1, <3>2, <3>3 DEF Tracked, Owed
  <2> QED
    BY <2>3, <2>4
<1>8. CASE Fail(w)
  <2>1. \A v \in Writers : OwedBy(v, x) => OwedBy(v, x)'
    BY <1>8 DEF Fail, walk, OwedBy, Side, Collected
  <2>2. db' = db /\ loaded' = loaded /\ got' = got /\ stored' = stored
    BY <1>8 DEF Fail, ResultsOnError
  <2>3. CASE cur[w] = x
    BY <1>8, <2>3 DEF Fail, Tracked, Owed, OwedBy
  <2>4. CASE cur[w] # x
    <3>1. \A v \in Writers : cur[v] = x =>
             cur'[v] = x /\ (OnCourse(v, i) => OnCourse(v, i)')
      BY <1>1, <1>8, <2>2, <2>4 DEF Fail, OnCourse, Current
    <3>2. (\A v \in Writers : cur[v] # x) => (\A v \in Writers : cur'[v] # x)
      BY <1>8 DEF Fail, ResultsOnError
    <3> QED
      BY <1>0, <1>1, <2>1, <2>2, <3>1, <3>2 DEF Tracked, Owed
  <2> QED
    BY <2>3, <2>4
<1>9. CASE Done(w)
  <2>1. \A v \in Writers : OwedBy(v, x) => OwedBy(v, x)'
    BY <1>9 DEF Done, walk, OwedBy, Side, Collected
  <2> QED
    BY <1>0, <1>9, <2>1, DebtKept DEF Done, execution, Owed
<1> QED
  BY <1>2, <1>3, <1>4, <1>5, <1>6, <1>7, <1>8, <1>9, <1>10, <1>11, <1>12, <1>13
  DEF Propagate

(* Initially every stored verdict is today's and nobody is at work.        *)
LEMMA InitIInv == Init => IInv
<1> SUFFICES ASSUME Init PROVE IInv
  OBVIOUS
<1>1. TypeOK
  BY InitTypeOK
<1>2. Bookkeeping
  BY DEF Init, Bookkeeping, Walking
<1>3. StaleIsOwed
  BY DEF Init, StaleIsOwed, CurrentVerdicts
<1> QED
  BY <1>1, <1>2, <1>3 DEF IInv

(* With symmetric rules the invariant is inductive.                        *)
LEMMA StepIInv ==
  ASSUME SymmetricRules
  PROVE  IInv /\ [Next]_vars => IInv'
<1> SUFFICES ASSUME IInv, [Next]_vars PROVE IInv'
  OBVIOUS
<1>1. TypeOK'
  BY StepTypeOK DEF IInv
<1>2. Bookkeeping'
  BY StepBookkeeping DEF IInv
<1>3. ASSUME NEW x \in Records, NEW i \in RuleIds
      PROVE  Tracked(x, i)'
  <2>1. ASSUME NEW w \in Writers, NEW r \in Records, NEW new \in Rows \cup {Absent},
               Write(w, r, new)
        PROVE  Tracked(x, i)'
    BY <2>1, WriteTracks
  <2>2. ASSUME NEW w \in Writers,
               \/ Propagate(w) \/ FailWalk(w) \/ Fail(w)
               \/ \E y \in Records : FailToStart(w, y)
        PROVE  Tracked(x, i)'
    BY <2>2, PropagateTracks
  <2>3. CASE UNCHANGED vars
    <3>1. Tracked(x, i)
      BY TrackedIsStaleIsOwed DEF IInv
    <3>2. Owed(x) => Owed(x)'
      BY <2>3 DEF vars, Owed, OwedBy, Side, Collected
    <3> QED
      BY <2>3, <3>1, <3>2, DebtKept DEF vars
  <2> QED
    BY <2>1, <2>2, <2>3 DEF Next, Rest
<1>4. StaleIsOwed'
  BY <1>3 DEF StaleIsOwed, Tracked
<1> QED
  BY <1>1, <1>2, <1>4 DEF IInv

(* At quiescence nothing is owed and nothing runs, so all verdicts are     *)
(* today's.                                                                *)
LEMMA IInvIsFresh == IInv => QuiescentIsFresh
<1> SUFFICES ASSUME IInv, Quiescent, NEW x \in Records
             PROVE  stored[x] = CurrentVerdicts(x)
  BY DEF QuiescentIsFresh, AllFresh
<1> USE DEF IInv, TypeOK
<1>1. \A w \in Writers : pc[w] = "idle" /\ todo[w] = {} /\ cur[w] = NoRecord
  BY DEF Quiescent, Bookkeeping
<1>2. ~ Owed(x)
  BY <1>1 DEF Owed, OwedBy
<1>3. \A w \in Writers : cur[w] # x
  BY <1>1
<1>4. \A i \in RuleIds : stored[x][i] = Current(x, i)
  BY <1>2, <1>3 DEF StaleIsOwed
<1> QED
  BY <1>4 DEF CurrentVerdicts

(* No stale verdict is ever nobody's business (validate_record.go 45-56    *)
(* with the pre-write snapshot of 65-70), for rules that count in their    *)
(* own table and compare a column with itself.                             *)
THEOREM StaleVerdictsAreOwed ==
  ASSUME SymmetricRules
  PROVE  Spec => []StaleIsOwed
<1>1. IInv => StaleIsOwed
  BY DEF IInv
<1> QED
  BY <1>1, InitIInv, StepIInv, PTL DEF Spec

(* When the writers have finished, every stored verdict is today's.        *)
THEOREM FreshWhenQuiescent ==
  ASSUME SymmetricRules
  PROVE  Spec => []QuiescentIsFresh
BY InitIInv, StepIInv, IInvIsFresh, PTL DEF Spec

(* The two neighbourhoods of a write name every record whose verdicts the  *)
(* write changes.                                                          *)
THEOREM NeighborhoodsAreComplete ==
  ASSUME SymmetricRules
  PROVE  Spec => NeighborhoodsComplete
<1>1. TypeOK /\ [Next]_vars =>
        [\A r \in Records : db'[r] # db[r] => WriteReachesChanged(r)]_vars
  <2> SUFFICES ASSUME TypeOK, Next, NEW r \in Records, db'[r] # db[r]
               PROVE  WriteReachesChanged(r)
    OBVIOUS
  <2>1. PICK w \in Writers, s \in Records, new \in Rows \cup {Absent} : Write(w, s, new)
    BY DEF Next, Propagate, Rest, vars, Ask, Return, LoadTarget, TargetGone, FailWalk,
           Start, Forget, Evaluate, Finish, Fail, FailToStart, Done
  <2>2. /\ db \in Databases /\ db' \in Databases
        /\ s = r
        /\ \A y \in Records \ {r} : db'[y] = db[y]
    BY <2>1 DEF Write, TypeOK, Databases
  <2>3. ASSUME NEW x \in Records \ {r}, CurrentVerdicts(x) # CurrentVerdicts(x)'
        PROVE  \/ x \in NeighborhoodsFromRecord(db', r, db[r])
               \/ x \in NeighborhoodsFromRecord(db', r, db'[r])
    <3>1. PICK i \in RuleIds : Current(x, i) # Current(x, i)'
      BY <2>3 DEF CurrentVerdicts
    <3>2. Validate(db, x, db[x], Rules[i]) # Validate(db', x, db'[x], Rules[i])
      BY <3>1 DEF Current
    <3> QED
      BY <2>2, <3>2, CountChangeIsMutual
  <2> QED
    BY <2>3 DEF WriteReachesChanged
<1> QED
  BY <1>1, TypeCorrect, PTL DEF Spec, NeighborhoodsComplete

(* A record that shares a key with another fails its uniqueness rule.      *)
LEMMA DuplicateFails ==
  ASSUME NEW x \in Records, NEW y \in Records, x # y, NEW i \in RuleIds,
         IsUniqueness(Rules[i]), ShareKey(x, y, Rules[i]), db \in Databases
  PROVE  Current(x, i) = "fail"
<1> DEFINE rule == Rules[i]
           rows == Matching(db, x, db[x], rule)
<1>1. y \in rows
  BY DEF IsUniqueness, ShareKey, Matching, SqlEquals, isEmpty, Excluded
<1>2. IsFiniteSet(rows)
  BY RecordsAssumption, FS_Subset DEF Matching
<1>3. Cardinality(rows) \in Nat /\ Cardinality(rows) # 0
  BY <1>1, <1>2, FS_CardinalityType, FS_EmptySet
<1>4. rule.expected.max = 0 /\ rule.expected.max # NoBound
  BY BoundAssumption DEF IsUniqueness
<1>5. ~ Within(Cardinality(rows), rule.expected)
  BY <1>3, <1>4 DEF Within
<1>6. ~ Skips(db[x], rule)
  BY DEF ShareKey, Skips
<1>7. ~ CountPasses(db, x, db[x], rule)
  BY <1>5, <1>6 DEF CountPasses
<1>8. EvalConditions(db[x], rule)
  BY DEF EvalConditions, IsUniqueness
<1> QED
  BY <1>7, <1>8 DEF Current, Validate, IsUniqueness, ShareKey

(* Records that share a key are all reported once the writers have         *)
(* finished (count_across.go 41).                                          *)
THEOREM DuplicatesAreAllReported ==
  ASSUME SymmetricRules
  PROVE  Spec => []DuplicatesAllReported
<1>1. IInv => DuplicatesAllReported
  <2> SUFFICES ASSUME IInv, Quiescent,
                      NEW i \in RuleIds, IsUniqueness(Rules[i]),
                      NEW x \in Records, NEW y \in Records, x # y,
                      ShareKey(x, y, Rules[i])
               PROVE  stored[x][i] = "fail" /\ stored[y][i] = "fail"
    BY DEF DuplicatesAllReported
  <2>1. stored[x][i] = Current(x, i) /\ stored[y][i] = Current(y, i)
    BY IInvIsFresh DEF QuiescentIsFresh, AllFresh, CurrentVerdicts
  <2>2. ShareKey(y, x, Rules[i])
    BY DEF ShareKey
  <2> QED
    BY <2>1, <2>2, DuplicateFails DEF IInv, TypeOK
<1> QED
  BY <1>1, InitIInv, StepIInv, PTL DEF Spec
=============================================================================
