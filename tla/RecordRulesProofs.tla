-------------------------- MODULE RecordRulesProofs --------------------------
(***************************************************************************)
(* What a call of Execute reports and when it fails, for every rule list,  *)
(* every database and any number of writes and failing queries.            *)
(***************************************************************************)
EXTENDS RecordRules, CheckDigitsProofs, TLAPS

(* Where the loop is.                                                      *)
LoopBooks ==
  /\ pc = "load" => record = Absent /\ rule = 1 /\ cond = 1 /\ results = <<>>
  /\ pc = "check" => rule <= Len(S.rules) /\ Rule.active
  /\ pc = "done" => rule = Len(S.rules) + 1
  /\ rule <= Len(S.rules) => cond \in 1 .. Len(Rule.conditions) + 1

(* The type of a result.                                                   *)
ResultSet == [rule : DOMAIN S.rules, passed : BOOLEAN]

-----------------------------------------------------------------------------
(* The rule list of a call and every gate in it are sequences.             *)
LEMMA RuleLists ==
  ASSUME setup \in DOMAIN Setups
  PROVE  /\ Len(S.rules) \in Nat /\ DOMAIN S.rules = 1 .. Len(S.rules)
         /\ \A i \in DOMAIN S.rules :
              /\ Len(S.rules[i].conditions) \in Nat
              /\ DOMAIN S.rules[i].conditions = 1 .. Len(S.rules[i].conditions)
         /\ S.maxWrites \in Nat /\ S.maxFaults \in Nat
<1>1. \A q : IsSequence(q) => Len(q) \in Nat /\ DOMAIN q = 1 .. Len(q)
  BY SMT DEF IsSequence
<1> QED
  BY <1>1, CallAssumption DEF S

(* A validator's verdict is a verdict.                                     *)
LEMMA Verdicts ==
  \A r, row : OwnPasses(r) \in BOOLEAN /\ RelatedPasses(r, row) \in BOOLEAN
  BY DEF OwnPasses, RelatedPasses

(* The loop starts in order.                                               *)
LEMMA InitBooks == Init => TypeOK /\ LoopBooks
<1> SUFFICES ASSUME Init PROVE TypeOK /\ LoopBooks
  OBVIOUS
<1>1. setup \in DOMAIN Setups
  BY DEF Init
<1>2. TypeOK
  BY <1>1, RuleLists, SMT DEF Init, TypeOK
<1>3. LoopBooks
  BY <1>1, RuleLists, SMT DEF Init, LoopBooks, Rule
<1> QED
  BY <1>2, <1>3

(* A step to the next rule, with or without a result.                      *)
LEMMA NextRuleBooks ==
  ASSUME TypeOK, LoopBooks, NextRule,
         pc \in {"gate", "check"}, rule <= Len(S.rules),
         \/ results' = results
         \/ \E p \in BOOLEAN : results' = Append(results, [rule |-> rule, passed |-> p]),
         faults' \in 0 .. S.maxFaults
  PROVE  TypeOK' /\ LoopBooks'
<1>1. setup \in DOMAIN Setups
  BY DEF TypeOK
<1>2. S' = S
  BY DEF NextRule, S
<1>3. rule \in DOMAIN S.rules
  BY <1>1, RuleLists, SMT DEF TypeOK
<1>4. results' \in Seq(ResultSet) /\ Len(results') <= rule
  <2>1. results \in Seq(ResultSet) /\ Len(results) < rule /\ rule \in Nat
    BY <1>1, RuleLists, SMT DEF TypeOK, ResultSet
  <2>2. CASE results' = results
    BY <2>1, <2>2, SMT
  <2>3. CASE \E p \in BOOLEAN : results' = Append(results, [rule |-> rule, passed |-> p])
    <3>1. PICK p \in BOOLEAN : results' = Append(results, [rule |-> rule, passed |-> p])
      BY <2>3
    <3>2. [rule |-> rule, passed |-> p] \in ResultSet
      BY <1>3 DEF ResultSet
    <3> QED BY <2>1, <3>1, <3>2, SMT
  <2> QED BY <2>2, <2>3
<1>5. rule' \in 1 .. Len(S.rules) + 1 /\ rule' = rule + 1
  BY <1>1, RuleLists, SMT DEF TypeOK, NextRule
<1>6. TypeOK'
  BY <1>1, <1>2, <1>3, <1>4, <1>5, SMT DEF TypeOK, NextRule, ResultSet
<1>7. LoopBooks'
  <2>1. rule' <= Len(S.rules) => rule' \in DOMAIN S.rules
    BY <1>1, <1>5, RuleLists, SMT
  <2>2. rule' <= Len(S.rules) => Len(S.rules[rule'].conditions) \in Nat
    BY <1>1, <2>1, RuleLists
  <2> QED BY <1>2, <2>2, SMT DEF NextRule, LoopBooks, Rule
<1> QED
  BY <1>6, <1>7

(* An error return.                                                        *)
LEMMA AbortBooks ==
  ASSUME TypeOK, LoopBooks, Abort, faults' \in 0 .. S.maxFaults
  PROVE  TypeOK' /\ LoopBooks'
<1>1. S' = S
  BY DEF Abort, S
<1>2. TypeOK'
  <2>1. results' \in Seq(ResultSet) /\ Len(results') = 0
    BY SMT DEF Abort, ResultsOnError
  <2>2. rule \in Nat /\ rule >= 1
    BY RuleLists, SMT DEF TypeOK
  <2> QED BY <1>1, <2>1, <2>2, SMT DEF TypeOK, Abort, ResultSet, ResultsOnError
<1>3. LoopBooks'
  BY <1>1, SMT DEF LoopBooks, Abort, Rule
<1> QED
  BY <1>2, <1>3

(* A condition's turn, for the row the query gave.                         *)
LEMMA GateKeepsBooks ==
  ASSUME TypeOK, LoopBooks, AtCondition, NEW row, Gate(row),
         results' = results, faults' \in 0 .. S.maxFaults
  PROVE  TypeOK' /\ LoopBooks'
<1>1. setup \in DOMAIN Setups
  BY DEF TypeOK
<1>2. pc = "gate" /\ rule <= Len(S.rules)
  BY DEF AtCondition
<1>3. CASE Met(row)
  <2>1. /\ cond' = cond + 1
        /\ UNCHANGED <<setup, db, pc, record, rule, writes, seen>>
    BY <1>3 DEF Gate
  <2>2. S' = S /\ Rule' = Rule
    BY <2>1 DEF S, Rule
  <2>3. rule \in DOMAIN S.rules
    BY <1>1, <1>2, RuleLists, SMT DEF TypeOK
  <2>4. Len(Rule.conditions) \in Nat
    BY <1>1, <2>3, RuleLists DEF Rule
  <2>5. cond' \in 1 .. Len(Rule.conditions) + 1
    BY <1>2, <2>1, <2>4, SMT DEF LoopBooks, AtCondition
  <2>6. TypeOK'
    BY <1>2, <2>1, <2>2, SMT DEF TypeOK
  <2>7. LoopBooks'
    BY <1>2, <2>1, <2>2, <2>5, SMT DEF LoopBooks
  <2> QED BY <2>6, <2>7
<1>4. CASE ~ Met(row)
  <2>1. NextRule
    BY <1>4 DEF Gate
  <2> QED BY <1>2, <2>1, NextRuleBooks
<1> QED
  BY <1>3, <1>4

(* Every step leaves it in order.                                          *)
LEMMA StepBooks == TypeOK /\ LoopBooks /\ [Next]_vars => TypeOK' /\ LoopBooks'
<1> SUFFICES ASSUME TypeOK, LoopBooks, [Next]_vars
             PROVE  TypeOK' /\ LoopBooks'
  OBVIOUS
<1> setup \in DOMAIN Setups
  BY DEF TypeOK
<1>a. faults \in 0 .. S.maxFaults /\ faults + 1 \in Nat
      /\ (faults < S.maxFaults => faults + 1 \in 0 .. S.maxFaults)
  BY RuleLists, SMT DEF TypeOK
<1>1. CASE LoadRecord
  <2>1. S' = S
    BY <1>1 DEF LoadRecord, S
  <2>2. TypeOK'
    BY <1>1, <2>1, SMT DEF LoadRecord, TypeOK
  <2>3. LoopBooks'
    BY <1>1, <2>1, SMT DEF LoadRecord, LoopBooks, Rule
  <2> QED BY <2>2, <2>3
<1>2. CASE RecordGone
  <2>1. Abort /\ faults' = faults
    BY <1>2 DEF RecordGone
  <2> QED BY <1>a, <2>1, AbortBooks
<1>3. CASE SkipRule
  <2>1. NextRule /\ results' = results /\ faults' = faults /\ pc = "gate" /\ rule <= Len(S.rules)
    BY <1>3 DEF SkipRule
  <2> QED BY <1>a, <2>1, NextRuleBooks
<1>4. CASE OwnCondition
  <2>1. AtCondition /\ Gate(record) /\ results' = results /\ faults' = faults
    BY <1>4 DEF OwnCondition
  <2> QED BY <1>a, <2>1, GateKeepsBooks
<1>5. CASE RelatedCondition
  <2>1. PICK row \in Answers(Condition.relation) : Gate(row)
    BY <1>5 DEF RelatedCondition
  <2>2. AtCondition /\ results' = results /\ faults' = faults
    BY <1>5 DEF RelatedCondition
  <2> QED BY <1>a, <2>1, <2>2, GateKeepsBooks
<1>6. CASE Applies
  <2>1. /\ pc = "gate" /\ rule <= Len(S.rules) /\ Rule.active /\ cond > Len(Rule.conditions)
        /\ pc' = "check"
        /\ UNCHANGED <<setup, db, record, rule, cond, results, writes, faults, seen>>
    BY <1>6 DEF Applies
  <2>2. S' = S /\ Rule' = Rule
    BY <2>1 DEF S, Rule
  <2>3. rule \in DOMAIN S.rules
    BY <2>1, RuleLists, SMT DEF TypeOK
  <2>4. Len(Rule.conditions) \in Nat
    BY <2>3, RuleLists DEF Rule
  <2>5. cond = Len(Rule.conditions) + 1
    BY <2>1, <2>4, SMT DEF LoopBooks
  <2>6. TypeOK'
    BY <2>1, <2>2, <2>5, SMT DEF TypeOK
  <2>7. LoopBooks'
    BY <2>1, <2>2, SMT DEF LoopBooks
  <2> QED BY <2>6, <2>7
<1>7. CASE ValidateOwn
  <2>1. pc = "check" /\ rule <= Len(S.rules) /\ NextRule /\ faults' = faults
    BY <1>7 DEF ValidateOwn, Report, LoopBooks
  <2>2. \E p \in BOOLEAN : results' = Append(results, [rule |-> rule, passed |-> p])
    BY <1>7, Verdicts DEF ValidateOwn, Report
  <2> QED BY <1>a, <2>1, <2>2, NextRuleBooks
<1>8. CASE ValidateRelated
  <2>1. pc = "check" /\ rule <= Len(S.rules) /\ NextRule /\ faults' = faults
    BY <1>8 DEF ValidateRelated, Report, LoopBooks
  <2>2. \E p \in BOOLEAN : results' = Append(results, [rule |-> rule, passed |-> p])
    BY <1>8, Verdicts DEF ValidateRelated, Report
  <2> QED BY <1>a, <2>1, <2>2, NextRuleBooks
<1>9. CASE RuleError
  <2>1. Abort /\ faults' = faults
    BY <1>9 DEF RuleError
  <2> QED BY <1>a, <2>1, AbortBooks
<1>10. CASE QueryFails
  <2>1. Abort /\ faults < S.maxFaults /\ faults' = faults + 1
    BY <1>10 DEF QueryFails
  <2> QED BY <1>a, <2>1, AbortBooks
<1>11. CASE FetchFails
  <2>1. faults' \in 0 .. S.maxFaults
    BY <1>11, <1>a DEF FetchFails
  <2>2. CASE pc = "gate" /\ Gate(NoRow) /\ UNCHANGED results
    <3>1. AtCondition
      BY <1>11, <2>2 DEF FetchFails, Querying
    <3> QED BY <2>1, <2>2, <3>1, GateKeepsBooks
  <2>3. CASE pc = "check" /\ Report(RelatedPasses(Rule, NoRow))
    <3>1. rule <= Len(S.rules) /\ NextRule
      BY <2>3 DEF Report, LoopBooks
    <3>2. \E p \in BOOLEAN : results' = Append(results, [rule |-> rule, passed |-> p])
      BY <2>3, Verdicts DEF Report
    <3> QED BY <2>1, <2>3, <3>1, <3>2, NextRuleBooks
  <2> QED BY <1>11, <2>2, <2>3 DEF FetchFails
<1>12. CASE Return
  <2>1. S' = S
    BY <1>12 DEF Return, S
  <2>2. TypeOK'
    BY <1>12, <2>1, SMT DEF Return, TypeOK
  <2>3. LoopBooks'
    BY <1>12, <2>1, RuleLists, SMT DEF Return, LoopBooks, TypeOK, Rule
  <2> QED BY <2>2, <2>3
<1>13. CASE Ended \/ UNCHANGED vars
  BY <1>13 DEF Ended, vars, TypeOK, LoopBooks, S, Rule
<1>14. ASSUME NEW y \in Records, NEW row \in S.rows[y], Write(y, row)
       PROVE  TypeOK' /\ LoopBooks'
  <2>1. S' = S /\ Rule' = Rule
    BY <1>14 DEF Write, S, Rule
  <2>2. writes + 1 \in 0 .. S.maxWrites
    BY <1>14, RuleLists, SMT DEF Write, TypeOK
  <2>3. db' \in seen'
    BY <1>14 DEF Write
  <2>4. TypeOK'
    BY <1>14, <2>1, <2>2, <2>3 DEF Write, TypeOK
  <2>5. LoopBooks'
    BY <1>14, <2>1 DEF Write, LoopBooks
  <2> QED BY <2>4, <2>5
<1> QED
  BY <1>1, <1>2, <1>3, <1>4, <1>5, <1>6, <1>7, <1>8, <1>9, <1>10, <1>11, <1>12,
     <1>13, <1>14 DEF Next

(* The loop stays within the rules and the gates, and reports rules of the *)
(* list only.                                                              *)
THEOREM TypeCorrect == Spec => []TypeOK
<1>1. Spec => [](TypeOK /\ LoopBooks)
  BY InitBooks, StepBooks, PTL DEF Spec
<1> QED
  BY <1>1, PTL
-----------------------------------------------------------------------------
(* The conditions behind the loop held when they were asked.               *)
GateBooks ==
  /\ pc = "gate" /\ rule <= Len(S.rules) /\ cond > 1 => CouldReach(rule, cond)
  /\ pc = "check" => CouldReach(rule, cond)

(* The rules behind the loop are reported in order, or rightly left out.   *)
ReportBooks ==
  /\ \A k \in DOMAIN results : results[k].rule < rule
  /\ \A k, l \in DOMAIN results : k < l => results[k].rule < results[l].rule
  /\ pc # "failed" => \A i \in 1 .. rule - 1 : Explained(i)

(* A step of a call that has read its record: the call's record stays,     *)
(* what it may have seen only grows.                                       *)
Grows ==
  /\ setup' = setup /\ record' = record
  /\ seen \subseteq seen'
  /\ faults > 0 => faults' > 0

(* What a rule asks for does not depend on the database.                   *)
LEMMA RulesStay ==
  ASSUME setup' = setup, record' = record
  PROVE  /\ S' = S
         /\ \A n : Declared(n)' <=> Declared(n)
         /\ \A r : (Asks(r)' <=> Asks(r)) /\ (Misfit(r)' <=> Misfit(r))
<1>1. S' = S
  BY DEF S
<1>2. \A n : Declared(n)' <=> Declared(n)
  BY <1>1 DEF Declared
<1>3. \A r : Self(r)' = Self(r)
  BY DEF Self
<1>4. \A r : Asks(r)' <=> Asks(r)
  BY <1>3 DEF Asks
<1>5. \A r : Misfit(r)' <=> Misfit(r)
  BY <1>3 DEF Misfit, Unbounded, BadLength, Uncheckable, Shorter
<1> QED
  BY <1>1, <1>2, <1>4, <1>5

(* A condition that may have held, or failed, still may have.              *)
LEMMA ConditionsGrow ==
  ASSUME Grows
  PROVE  \A c : /\ CouldHold(c) => CouldHold(c)'
                /\ CouldFail(c) => CouldFail(c)'
<1> TAKE c
<1>1. S' = S /\ (Declared(c.relation)' <=> Declared(c.relation)) /\ record' = record
  BY RulesStay DEF Grows
<1>2. DecidedOn(c) \subseteq DecidedOn(c)'
  BY <1>1 DEF Grows, DecidedOn
<1> QED
  BY <1>1, <1>2 DEF CouldHold, CouldFail

(* So does a place the loop may have come to.                              *)
LEMMA ReachGrows ==
  ASSUME Grows
  PROVE  \A i, k : CouldReach(i, k) => CouldReach(i, k)'
<1>1. S' = S
  BY RulesStay DEF Grows
<1> QED
  BY <1>1, ConditionsGrow DEF CouldReach

(* And what explains a rule keeps explaining it.                           *)
LEMMA ExplainedGrows ==
  ASSUME Grows, NEW i, Explained(i), Reported(i)' # {} <=> Reported(i) # {}
  PROVE  Explained(i)'
<1>1. S' = S
  BY RulesStay DEF Grows
<1> QED
  BY <1>1, ConditionsGrow DEF Explained

(* On to the next rule: this one was reported with its gate open, or has   *)
(* a reason not to be.                                                     *)
LEMMA NextRuleExplains ==
  ASSUME TypeOK, LoopBooks, ReportBooks, Grows, NextRule,
         pc \in {"gate", "check"}, rule <= Len(S.rules),
         NEW n, n = rule,
         \/ /\ results' = results
            /\ \/ ~ S.rules[n].active
               \/ \E k \in DOMAIN S.rules[n].conditions : CouldFail(S.rules[n].conditions[k])'
         \/ /\ \E p \in BOOLEAN : results' = Append(results, [rule |-> n, passed |-> p])
            /\ CouldReach(n, Len(S.rules[n].conditions) + 1)
  PROVE  GateBooks' /\ ReportBooks'
<1>1. S' = S
  BY RulesStay DEF Grows
<1>2. GateBooks'
  BY SMT DEF NextRule, GateBooks
<1>3. /\ n \in DOMAIN S.rules /\ n \in Nat
      /\ Len(S.rules[n].conditions) \in Nat
      /\ DOMAIN S.rules[n].conditions = 1 .. Len(S.rules[n].conditions)
  <2>1. n \in DOMAIN S.rules /\ n \in Nat
    BY RuleLists, SMT DEF TypeOK
  <2> QED BY <2>1, RuleLists DEF TypeOK
<1>4. rule' = n + 1 /\ pc' = "gate"
  BY DEF NextRule
<1>5. results \in Seq(ResultSet) /\ \A k \in DOMAIN results : results[k].rule \in Nat
  <2>1. results \in Seq(ResultSet)
    BY DEF TypeOK, ResultSet
  <2>2. \A r \in ResultSet : r.rule \in DOMAIN S.rules
    BY DEF ResultSet
  <2>3. DOMAIN S.rules \subseteq Nat
    BY RuleLists, SMT DEF TypeOK
  <2>4. \A k \in DOMAIN results : results[k] \in ResultSet
    BY <2>1, SMT
  <2> QED BY <2>1, <2>2, <2>3, <2>4
<1>6. CASE /\ results' = results
           /\ \/ ~ S.rules[n].active
              \/ \E k \in DOMAIN S.rules[n].conditions : CouldFail(S.rules[n].conditions[k])'
  <2>1. \A k \in DOMAIN results' : results'[k].rule < rule'
    BY <1>3, <1>4, <1>5, <1>6, SMT DEF ReportBooks
  <2>2. \A i : Reported(i)' = Reported(i)
    BY <1>6 DEF Reported
  <2>3. \A i \in 1 .. n - 1 : Explained(i)'
    BY <2>2, ExplainedGrows DEF ReportBooks
  <2>4. Explained(n)'
    <3>1. Reported(n)' = {}
      <4>1. Reported(n) = {}
        BY <1>3, <1>5, SMT DEF Reported, ReportBooks
      <4> QED BY <2>2, <4>1
    <3> QED BY <1>1, <1>6, <3>1 DEF Explained
  <2>5. \A i \in 1 .. rule' - 1 : i \in 1 .. n - 1 \/ i = n
    BY <1>3, <1>4, SMT
  <2>6. \A i \in 1 .. rule' - 1 : Explained(i)'
    BY <2>3, <2>4, <2>5
  <2> QED BY <1>2, <1>6, <2>1, <2>6 DEF ReportBooks
<1>7. CASE /\ \E p \in BOOLEAN : results' = Append(results, [rule |-> n, passed |-> p])
           /\ CouldReach(n, Len(S.rules[n].conditions) + 1)
  <2>1. PICK p \in BOOLEAN : results' = Append(results, [rule |-> n, passed |-> p])
    BY <1>7
  <2>2. /\ DOMAIN results' = 1 .. Len(results) + 1 /\ Len(results) \in Nat
        /\ DOMAIN results = 1 .. Len(results)
        /\ \A k \in 1 .. Len(results) : results'[k] = results[k]
        /\ results'[Len(results) + 1].rule = n
    BY <1>5, <2>1, SMT
  <2>3. \A k \in DOMAIN results' : results'[k].rule < rule'
    BY <1>3, <1>4, <1>5, <2>2, SMT DEF ReportBooks
  <2>4. \A k, l \in DOMAIN results' : k < l => results'[k].rule < results'[l].rule
    BY <1>3, <1>5, <2>2, SMT DEF ReportBooks
  <2>5. \A i \in 1 .. n - 1 : Reported(i)' # {} <=> Reported(i) # {}
    BY <1>3, <2>2, SMT DEF Reported
  <2>6. \A i \in 1 .. n - 1 : Explained(i)'
    BY <2>5, ExplainedGrows DEF ReportBooks
  <2>7. Explained(n)'
    <3>1. Reported(n)' # {}
      BY <2>2, SMT DEF Reported
    <3>2. \A k \in DOMAIN S.rules[n].conditions : k \in 1 .. (Len(S.rules[n].conditions) + 1) - 1
      BY <1>3, SMT
    <3>3. /\ S.rules[n].active
          /\ \A k \in DOMAIN S.rules[n].conditions : CouldHold(S.rules[n].conditions[k])'
      <4>1. \A k \in DOMAIN S.rules[n].conditions : CouldHold(S.rules[n].conditions[k])
        BY <1>7, <3>2 DEF CouldReach
      <4> QED BY <1>1, <1>7, <4>1, ConditionsGrow DEF CouldReach
    <3> QED BY <1>1, <3>1, <3>3 DEF Explained
  <2>8. \A i \in 1 .. rule' - 1 : i \in 1 .. n - 1 \/ i = n
    BY <1>3, <1>4, SMT
  <2>9. \A i \in 1 .. rule' - 1 : Explained(i)'
    BY <2>6, <2>7, <2>8
  <2> QED BY <1>2, <2>3, <2>4, <2>9 DEF ReportBooks
<1> QED
  BY <1>6, <1>7

(* A condition decided on a row it may have been decided on: one more that *)
(* held, or the reason to leave the rule out.                              *)
LEMMA GateExplains ==
  ASSUME TypeOK, LoopBooks, GateBooks, ReportBooks, Grows, AtCondition,
         NEW c, c = Condition, NEW row, row \in DecidedOn(c)', Gate(row),
         results' = results
  PROVE  GateBooks' /\ ReportBooks'
<1>1. pc = "gate" /\ rule <= Len(S.rules) /\ cond <= Len(Rule.conditions) /\ Rule.active
  BY DEF AtCondition
<1>2. /\ rule \in DOMAIN S.rules /\ cond \in Nat /\ cond >= 1
      /\ DOMAIN Rule.conditions = 1 .. Len(Rule.conditions) /\ Len(Rule.conditions) \in Nat
  <2>1. rule \in DOMAIN S.rules
    BY <1>1, RuleLists, SMT DEF TypeOK
  <2>2. DOMAIN Rule.conditions = 1 .. Len(Rule.conditions) /\ Len(Rule.conditions) \in Nat
    BY <2>1, RuleLists DEF TypeOK, Rule
  <2>3. cond \in Nat /\ cond >= 1
    BY <1>1, <2>2, SMT DEF LoopBooks
  <2> QED BY <2>1, <2>2, <2>3
<1>3. S' = S
  BY RulesStay DEF Grows
<1>4. PICK n, k : n = rule /\ k = cond
  OBVIOUS
<1>5. c = S.rules[n].conditions[k]
  BY <1>4 DEF Condition, Rule
<1>6. CASE Met(row)
  <2>1. /\ cond' = k + 1
        /\ UNCHANGED <<setup, db, pc, record, rule, writes, seen>>
    BY <1>4, <1>6 DEF Gate
  <2>2. CouldHold(c)'
    <3>1. Holds(c, row, record')
      BY <1>6, <2>1 DEF Met
    <3> QED BY <3>1 DEF CouldHold
  <2>3. \A j \in 1 .. k - 1 : CouldHold(S.rules[n].conditions[j])
    <3>1. CASE k > 1
      BY <1>1, <1>4, <3>1 DEF GateBooks, CouldReach
    <3>2. CASE k = 1
      BY <3>2, SMT
    <3> QED BY <1>2, <1>4, <3>1, <3>2, SMT
  <2>4. \A j \in 1 .. (k + 1) - 1 : j \in 1 .. k - 1 \/ j = k
    BY <1>2, <1>4, SMT
  <2>5. \A j \in 1 .. (k + 1) - 1 : CouldHold(S.rules[n].conditions[j])'
    BY <1>3, <1>5, <2>2, <2>3, <2>4, ConditionsGrow
  <2>6. CouldReach(n, k + 1)'
    BY <1>1, <1>3, <1>4, <2>5 DEF CouldReach, Rule
  <2>7. GateBooks'
    <3>1. rule' = n /\ cond' = k + 1 /\ pc' = "gate"
      BY <1>1, <1>4, <2>1
    <3> QED BY <2>6, <3>1 DEF GateBooks
  <2>8. \A i : Reported(i)' = Reported(i)
    BY DEF Reported
  <2>9. \A i \in 1 .. rule - 1 : Explained(i)'
    BY <1>1, <2>8, ExplainedGrows DEF ReportBooks
  <2>10. ReportBooks'
    BY <2>1, <2>9 DEF ReportBooks
  <2> QED BY <2>7, <2>10
<1>7. CASE ~ Met(row)
  <2>1. NextRule
    BY <1>7 DEF Gate
  <2>2. CouldFail(c)'
    <3>1. ~ Holds(c, row, record')
      BY <1>7, <2>1 DEF Met, NextRule
    <3> QED BY <3>1 DEF CouldFail
  <2>3. k \in DOMAIN S.rules[n].conditions
    BY <1>1, <1>2, <1>4, SMT DEF Rule
  <2>4. \E j \in DOMAIN S.rules[n].conditions : CouldFail(S.rules[n].conditions[j])'
    BY <1>3, <1>5, <2>2, <2>3
  <2> QED BY <1>1, <1>4, <2>1, <2>4, NextRuleExplains
<1> QED
  BY <1>6, <1>7

(* A call that returns an error keeps no results.                          *)
LEMMA AbortExplains ==
  ASSUME TypeOK, Abort
  PROVE  GateBooks' /\ ReportBooks'
<1>1. pc' = "failed" /\ results' = <<>>
  BY DEF Abort, ResultsOnError
<1>2. DOMAIN results' = {}
  BY <1>1, SMT
<1> QED
  BY <1>1, <1>2 DEF GateBooks, ReportBooks

(* The rule whose turn it is has come that far, and is not in order.       *)
LEMMA RefusalIsExplained ==
  ASSUME TypeOK, LoopBooks, GateBooks, RuleError
  PROVE  FailureIsExplained'
<1>1. Grows
  BY DEF RuleError, Abort, Grows
<1>2. S' = S /\ \A n : Declared(n)' <=> Declared(n)
  BY <1>1, RulesStay DEF Grows
<1>3. \A r : (Asks(r)' <=> Asks(r)) /\ (Misfit(r)' <=> Misfit(r))
  BY <1>1, RulesStay DEF Grows
<1>4. PICK n, k : n = rule /\ k = cond
  OBVIOUS
<1>5. Refused
  BY DEF RuleError
<1>6. CASE AtCondition /\ Condition.relation # OwnRecord /\ ~ Declared(Condition.relation)
  <2>1. n \in DOMAIN S.rules
    BY <1>4, <1>6, RuleLists, SMT DEF AtCondition, TypeOK
  <2>2. /\ DOMAIN S.rules[n].conditions = 1 .. Len(S.rules[n].conditions)
        /\ Len(S.rules[n].conditions) \in Nat
    BY <2>1, RuleLists DEF TypeOK
  <2>3. k \in DOMAIN S.rules[n].conditions
    BY <1>4, <1>6, <2>2, SMT DEF AtCondition, LoopBooks, Rule
  <2>4. CouldReach(n, k)
    <3>1. CASE k > 1
      BY <1>4, <1>6, <3>1 DEF AtCondition, GateBooks
    <3>2. CASE k = 1
      <4>1. \A j \in 1 .. k - 1 : FALSE
        BY <3>2, SMT
      <4> QED BY <1>4, <1>6, <4>1 DEF AtCondition, CouldReach, Rule
    <3> QED BY <2>2, <2>3, <3>1, <3>2, SMT
  <2>5. CouldReach(n, k)'
    BY <1>1, <2>4, ReachGrows
  <2>6. S.rules[n].conditions[k].relation # OwnRecord
        /\ ~ Declared(S.rules[n].conditions[k].relation)
    BY <1>4, <1>6 DEF Condition, Rule
  <2> QED BY <1>2, <2>1, <2>3, <2>5, <2>6 DEF FailureIsExplained
<1>7. CASE \/ pc = "check" /\ Asks(Rule) /\ ~ Declared(Rule.relation)
           \/ pc = "check" /\ Misfit(Rule)
  <2>1. n \in DOMAIN S.rules
    BY <1>4, <1>7, RuleLists, SMT DEF LoopBooks, TypeOK
  <2>2. k = Len(S.rules[n].conditions) + 1
    BY <1>4, <1>7 DEF TypeOK, Rule
  <2>3. CouldReach(n, Len(S.rules[n].conditions) + 1)'
    <3>1. CouldReach(n, k)
      BY <1>4, <1>7 DEF GateBooks
    <3>2. CouldReach(n, k)'
      BY <1>1, <3>1, ReachGrows
    <3>3. S.rules[n]' = S.rules[n]
      BY <1>2
    <3> QED BY <2>2, <3>2, <3>3
  <2>4. \/ Asks(S.rules[n]) /\ ~ Declared(S.rules[n].relation)
        \/ Misfit(S.rules[n])
    BY <1>4, <1>7 DEF Rule
  <2>5. \/ Asks(S.rules[n])' /\ ~ Declared(S.rules[n].relation)'
        \/ Misfit(S.rules[n])'
    BY <1>2, <1>3, <2>4
  <2> QED BY <1>2, <2>1, <2>3, <2>5 DEF FailureIsExplained
<1> QED
  BY <1>5, <1>6, <1>7 DEF Refused

(* Every step leaves the explanations in place.                            *)
LEMMA StepExplains ==
  TypeOK /\ LoopBooks /\ GateBooks /\ ReportBooks /\ FailureIsExplained /\ [Next]_vars
  => GateBooks' /\ ReportBooks' /\ FailureIsExplained'
<1> SUFFICES ASSUME TypeOK, LoopBooks, GateBooks, ReportBooks, FailureIsExplained, [Next]_vars
             PROVE  GateBooks' /\ ReportBooks' /\ FailureIsExplained'
  OBVIOUS
<1>a. faults \in Nat
  BY RuleLists, SMT DEF TypeOK
<1>b. ASSUME pc' # "failed" PROVE FailureIsExplained'
  BY <1>b DEF FailureIsExplained
<1>1. CASE LoadRecord
  <2>1. rule' = 1 /\ cond' = 1 /\ results' = <<>> /\ pc' = "gate"
    BY <1>1 DEF LoadRecord, LoopBooks
  <2>2. DOMAIN results' = {} /\ 1 .. rule' - 1 = {}
    BY <2>1, SMT
  <2>3. GateBooks'
    BY <2>1, SMT DEF GateBooks
  <2> QED BY <1>b, <2>1, <2>2, <2>3 DEF ReportBooks
<1>2. CASE RecordGone
  <2>1. Abort /\ record' = Absent
    BY <1>2 DEF RecordGone, Abort, LoopBooks
  <2> QED BY <2>1, AbortExplains DEF FailureIsExplained
<1>3. CASE SkipRule
  <2>1. Grows /\ NextRule /\ pc' = "gate"
    BY <1>3 DEF SkipRule, NextRule, Grows
  <2>2. PICK n : n = rule
    OBVIOUS
  <2>3. pc = "gate" /\ rule <= Len(S.rules) /\ results' = results /\ ~ S.rules[n].active
    BY <1>3, <2>2 DEF SkipRule, Rule
  <2> QED BY <1>b, <2>1, <2>2, <2>3, NextRuleExplains
<1>4. CASE OwnCondition
  <2>1. Grows /\ pc' = "gate"
    BY <1>4 DEF OwnCondition, AtCondition, Gate, NextRule, Grows
  <2>2. PICK c : c = Condition
    OBVIOUS
  <2>3. AtCondition /\ Gate(record) /\ results' = results
    BY <1>4 DEF OwnCondition
  <2>4. record \in DecidedOn(c)'
    BY <1>4, <2>1, <2>2 DEF OwnCondition, DecidedOn, Grows
  <2> QED BY <1>b, <2>1, <2>2, <2>3, <2>4, GateExplains
<1>5. CASE RelatedCondition
  <2>1. PICK row \in Answers(Condition.relation) : Gate(row)
    BY <1>5 DEF RelatedCondition
  <2>2. Grows /\ pc' = "gate" /\ seen' = seen
    BY <1>5, <2>1 DEF RelatedCondition, AtCondition, Gate, NextRule, Grows
  <2>3. PICK c : c = Condition
    OBVIOUS
  <2>4. AtCondition /\ results' = results
    BY <1>5 DEF RelatedCondition
  <2>5. row \in DecidedOn(c)'
    <3>1. S' = S /\ (Declared(c.relation)' <=> Declared(c.relation))
      BY <2>2, RulesStay DEF Grows
    <3>2. c.relation # OwnRecord /\ Declared(c.relation)
      BY <1>5, <2>3 DEF RelatedCondition
    <3>3. db \in seen /\ row \in ResolveOne(db, S.record, S.relations[c.relation])
      BY <2>1, <2>3 DEF TypeOK, Answers
    <3> QED BY <2>2, <3>1, <3>2, <3>3 DEF DecidedOn
  <2> QED BY <1>b, <2>1, <2>2, <2>3, <2>4, <2>5, GateExplains
<1>6. CASE Applies
  <2>1. Grows /\ pc' = "check" /\ rule' = rule /\ cond' = cond /\ results' = results
    BY <1>6 DEF Applies, Grows
  <2>2. PICK n, k : n = rule /\ k = cond
    OBVIOUS
  <2>3. CouldReach(n, k)
    <3>1. pc = "gate" /\ rule <= Len(S.rules) /\ Rule.active
      BY <1>6 DEF Applies
    <3>2. CASE k > 1
      BY <2>2, <3>1, <3>2 DEF GateBooks
    <3>3. CASE k = 1
      <4>1. \A j \in 1 .. k - 1 : FALSE
        BY <3>3, SMT
      <4> QED BY <2>2, <3>1, <4>1 DEF CouldReach, Rule
    <3>4. k \in Nat /\ k >= 1
      <4>1. rule \in DOMAIN S.rules
        BY <3>1, RuleLists, SMT DEF TypeOK
      <4>2. Len(Rule.conditions) \in Nat
        BY <4>1, RuleLists DEF TypeOK, Rule
      <4> QED BY <2>2, <3>1, <4>2, SMT DEF LoopBooks
    <3> QED BY <3>2, <3>3, <3>4, SMT
  <2>4. CouldReach(n, k)'
    BY <2>1, <2>3, ReachGrows
  <2>5. GateBooks'
    <3>1. rule' = n /\ cond' = k
      BY <2>1, <2>2
    <3> QED BY <2>1, <2>4, <3>1 DEF GateBooks
  <2>6. \A i : Reported(i)' = Reported(i)
    BY <2>1 DEF Reported
  <2>7. \A i \in 1 .. rule - 1 : Explained(i)'
    BY <1>6, <2>1, <2>6, ExplainedGrows DEF ReportBooks, Applies
  <2> QED BY <1>b, <2>1, <2>5, <2>7 DEF ReportBooks
<1>7. ASSUME pc = "check", NEW p \in BOOLEAN, Report(p), faults > 0 => faults' > 0
      PROVE  GateBooks' /\ ReportBooks' /\ FailureIsExplained'
  <2>1. Grows /\ NextRule /\ pc' = "gate"
    BY <1>7 DEF Report, NextRule, Grows
  <2>2. PICK n : n = rule
    OBVIOUS
  <2>3. results' = Append(results, [rule |-> n, passed |-> p])
    BY <1>7, <2>2 DEF Report
  <2>4. rule <= Len(S.rules) /\ CouldReach(n, Len(S.rules[n].conditions) + 1)
    BY <1>7, <2>2 DEF LoopBooks, GateBooks, TypeOK, Rule
  <2> QED BY <1>b, <1>7, <2>1, <2>2, <2>3, <2>4, NextRuleExplains
<1>8. CASE ValidateOwn
  BY <1>7, <1>8, Verdicts DEF ValidateOwn
<1>9. CASE ValidateRelated
  BY <1>7, <1>9, Verdicts DEF ValidateRelated
<1>10. CASE RuleError
  <2>1. Abort
    BY <1>10 DEF RuleError
  <2> QED BY <1>10, <2>1, AbortExplains, RefusalIsExplained
<1>11. CASE QueryFails
  <2>1. Abort /\ faults' > 0
    BY <1>11, <1>a, SMT DEF QueryFails
  <2> QED BY <2>1, AbortExplains DEF FailureIsExplained
<1>12. CASE FetchFails
  <2>1. faults' > 0 /\ (faults > 0 => faults' > 0)
    BY <1>12, <1>a, SMT DEF FetchFails
  <2>2. CASE pc = "gate" /\ Gate(NoRow) /\ UNCHANGED results
    <3>1. AtCondition /\ Condition.relation # OwnRecord /\ Declared(Condition.relation)
      BY <1>12, <2>2 DEF FetchFails, Querying
    <3>2. Grows /\ pc' = "gate"
      BY <2>1, <2>2 DEF Gate, NextRule, Grows
    <3>3. PICK c : c = Condition
      OBVIOUS
    <3>4. NoRow \in DecidedOn(c)'
      <4>1. Declared(c.relation)' <=> Declared(c.relation)
        BY <3>2, RulesStay DEF Grows
      <4>2. c.relation # OwnRecord /\ Declared(c.relation)'
        BY <3>1, <3>3, <4>1
      <4> QED BY <2>1, <4>2 DEF DecidedOn
    <3> QED BY <1>b, <2>2, <3>1, <3>2, <3>3, <3>4, GateExplains
  <2>3. CASE pc = "check" /\ Report(RelatedPasses(Rule, NoRow))
    BY <1>7, <2>1, <2>3, Verdicts
  <2> QED BY <1>12, <2>2, <2>3 DEF FetchFails
<1>13. CASE Return
  <2>1. Grows /\ pc' = "done" /\ rule' = rule /\ cond' = cond /\ results' = results
    BY <1>13 DEF Return, Grows
  <2>2. \A i : Reported(i)' = Reported(i)
    BY <2>1 DEF Reported
  <2>3. \A i \in 1 .. rule - 1 : Explained(i)'
    BY <1>13, <2>1, <2>2, ExplainedGrows DEF ReportBooks, Return
  <2> QED BY <1>b, <2>1, <2>3 DEF ReportBooks, GateBooks
<1>14. CASE Ended \/ UNCHANGED vars
  <2>1. UNCHANGED vars
    BY <1>14 DEF Ended
  <2>3. Grows /\ \A i : Reported(i)' = Reported(i)
    BY <2>1 DEF vars, Grows, Reported
  <2>2. GateBooks' /\ FailureIsExplained'
    <3>1. PICK n, k : n = rule /\ k = cond
      OBVIOUS
    <3>2. CouldReach(n, k) => CouldReach(n, k)'
      BY <2>3, ReachGrows
    <3>3. rule' = n /\ cond' = k /\ pc' = pc /\ S' = S
      BY <2>1, <3>1 DEF vars, S
    <3>4. GateBooks'
      BY <3>1, <3>2, <3>3 DEF GateBooks
    <3>5. FailureIsExplained'
      <4>1. /\ \A r : (Asks(r)' <=> Asks(r)) /\ (Misfit(r)' <=> Misfit(r))
            /\ \A x : Declared(x)' <=> Declared(x)
        BY <2>3, RulesStay DEF Grows
      <4>2. \A i, j : CouldReach(i, j) => CouldReach(i, j)'
        BY <2>3, ReachGrows
      <4> QED BY <2>1, <3>3, <4>1, <4>2 DEF vars, FailureIsExplained
    <3> QED BY <3>4, <3>5
  <2>4. pc # "failed" => \A i \in 1 .. rule - 1 : Explained(i)'
    BY <2>3, ExplainedGrows DEF ReportBooks
  <2> QED BY <2>1, <2>2, <2>4 DEF vars, ReportBooks
<1>15. ASSUME NEW y \in Records, NEW row \in S.rows[y], Write(y, row)
       PROVE  GateBooks' /\ ReportBooks' /\ FailureIsExplained'
  <2>1. pc' = pc /\ pc # "failed" /\ rule' = rule /\ cond' = cond /\ results' = results
    BY <1>15 DEF Write
  <2>2. CASE pc = "load"
    <3>1. rule' = 1 /\ cond' = 1 /\ results' = <<>>
      BY <2>1, <2>2 DEF LoopBooks
    <3>2. DOMAIN results' = {} /\ 1 .. rule' - 1 = {}
      BY <3>1, SMT
    <3> QED BY <1>b, <2>1, <2>2, <3>2 DEF ReportBooks, GateBooks
  <2>3. CASE pc # "load"
    <3>1. Grows
      BY <1>15, <2>3 DEF Write, Grows
    <3>2. PICK n, k : n = rule /\ k = cond
      OBVIOUS
    <3>3. CouldReach(n, k) => CouldReach(n, k)'
      BY <3>1, ReachGrows
    <3>4. GateBooks'
      <4>1. rule' = n /\ cond' = k /\ S' = S
        BY <2>1, <3>1, <3>2, RulesStay DEF Grows
      <4> QED BY <2>1, <3>2, <3>3, <4>1 DEF GateBooks
    <3>5. \A i : Reported(i)' = Reported(i)
      BY <2>1 DEF Reported
    <3>6. \A i \in 1 .. rule - 1 : Explained(i)'
      BY <2>1, <3>1, <3>5, ExplainedGrows DEF ReportBooks
    <3> QED BY <1>b, <2>1, <3>4, <3>6 DEF ReportBooks
  <2> QED BY <2>2, <2>3
<1> QED
  BY <1>1, <1>2, <1>3, <1>4, <1>5, <1>6, <1>8, <1>9, <1>10, <1>11, <1>12, <1>13,
     <1>14, <1>15 DEF Next

(* There is nothing to explain at the start.                               *)
LEMMA InitExplains == Init => GateBooks /\ ReportBooks /\ FailureIsExplained
<1> SUFFICES ASSUME Init PROVE GateBooks /\ ReportBooks /\ FailureIsExplained
  OBVIOUS
<1>1. DOMAIN results = {} /\ 1 .. rule - 1 = {}
  BY SMT DEF Init
<1> QED
  BY <1>1 DEF Init, GateBooks, ReportBooks, FailureIsExplained

(* All that the loop's books say of a call that returned.                  *)
LEMMA ReturnedCallsAreExplained ==
  TypeOK /\ LoopBooks /\ ReportBooks => GatesAreExplained
<1> SUFFICES ASSUME TypeOK, LoopBooks, ReportBooks, pc = "done"
             PROVE  /\ \A k, l \in DOMAIN results : k < l => results[k].rule < results[l].rule
                    /\ \A i \in DOMAIN S.rules : Explained(i)
  BY DEF GatesAreExplained
<1>1. DOMAIN S.rules = 1 .. rule - 1
  BY RuleLists, SMT DEF LoopBooks, TypeOK
<1> QED
  BY <1>1 DEF ReportBooks

-----------------------------------------------------------------------------
(* No database the call may have seen has a row without columns.           *)
RowBooks ==
  \A D \in seen : DOMAIN D = Records /\ \A y \in Records : D[y] # NoRow

(* A related_field rule passes a row exactly if it has nothing against it. *)
LEMMA PassedOrOpposed ==
  ASSUME NEW r, r.validator \in Relational \ {"foreign_key_exists"}, NEW row, row # NoRow
  PROVE  RelatedPasses(r, row) <=> ~ Disagree(r, row)
<1> DEFINE mine == Self(r)
           theirs == Get(row, r.relatedField)
           differ == toString(mine) # toString(theirs) \/ (mine = NULL) # (theirs = NULL)
<1> HIDE DEF mine, theirs
<1>1. equalValues(mine, theirs) <=> ~ differ
  BY DEF equalValues, toString
<1>2. Compared(r, row) <=> (r.skip => theirs # NULL /\ theirs.str # "")
  BY DEF Compared, isEmpty, theirs
<1>3. inSet(theirs, r.allowed) <=> ~ \A a \in r.allowed : toString(a) # toString(theirs)
  BY DEF inSet
<1> HIDE DEF differ
<1>4. Disagree(r, row) <=>
        /\ r.skip => theirs # NULL /\ theirs.str # ""
        /\ \/ r.validator = "related_field_equals" /\ differ
           \/ r.validator = "related_field_not_equals" /\ ~ differ
           \/ r.validator = "related_field_in_set" /\ \A a \in r.allowed : toString(a) # toString(theirs)
  BY DEF Disagree, differ, mine, theirs
<1>5. /\ FieldEquals(r, row) <=> (Compared(r, row) => equalValues(mine, theirs))
      /\ FieldNotEquals(r, row) <=> (Compared(r, row) => ~ equalValues(mine, theirs))
      /\ FieldInSet(r, row) <=> (Compared(r, row) => inSet(theirs, r.allowed))
  BY DEF FieldEquals, FieldNotEquals, FieldInSet, mine, theirs
<1> QED
  BY <1>1, <1>2, <1>3, <1>4, <1>5 DEF RelatedPasses, Relational

(* It passes when there is none; a foreign key does not.                   *)
LEMMA NoRowVerdict ==
  ASSUME NEW r, r.validator \in Relational
  PROVE  RelatedPasses(r, NoRow) <=> r.validator # "foreign_key_exists"
  BY DEF RelatedPasses, ForeignKeyResolves, FieldEquals, FieldNotEquals, FieldInSet, Compared, Relational

(* The related rows of a declared relation are rows of the database.       *)
LEMMA RelatedAreRecords ==
  ASSUME NEW D, NEW n, Declared(n)
  PROVE  Related(D, S.record, S.relations[n]) \subseteq Records
<1> DEFINE rel == S.relations[n]
           N == Len(rel.join)
           at == CHOOSE k \in 0 .. N : Target(rel) = ScopeName(TableOf[S.record], rel, k)
<1>1. \E k \in 0 .. N : Target(rel) = ScopeName(TableOf[S.record], rel, k)
  BY DEF Declared, Resolvable, Wellformed
<1>2. at \in 0 .. N
  BY <1>1
<1>3. \A b \in Joined(D, S.record, rel) : b \in [0 .. N -> {y \in Records : D[y] # Absent}]
  BY DEF Joined
<1>4. \A b \in Joined(D, S.record, rel) : b[at] \in Records
  BY <1>2, <1>3
<1> QED
  BY <1>4 DEF Related

(* A verdict on an answer of the resolver is borne out by the database.    *)
LEMMA AnswersWitness ==
  ASSUME TypeOK, RowBooks, NEW r, Asks(r), Declared(r.relation),
         NEW row \in Answers(r.relation)
  PROVE  Witnessed(r, RelatedPasses(r, row))
<1> DEFINE linked(D) == Related(D, S.record, S.relations[r.relation])
<1>1. db \in seen /\ DOMAIN db = Records
  BY DEF TypeOK, RowBooks
<1>2. r.validator \in Relational
  BY DEF Asks, Relational
<1>3. CASE linked(db) = {}
  <2>1. row = NoRow
    BY <1>3 DEF Answers, ResolveOne
  <2>2. RelatedPasses(r, row) <=> r.validator # "foreign_key_exists"
    BY <1>2, <2>1, NoRowVerdict
  <2> QED BY <1>1, <1>3, <2>2 DEF Witnessed
<1>4. CASE linked(db) # {}
  <2>1. PICK y \in linked(db) : row = db[y]
    BY <1>4 DEF Answers, ResolveOne
  <2>2. y \in Records
    BY <2>1, RelatedAreRecords
  <2>3. row # NoRow
    BY <1>1, <2>1, <2>2 DEF RowBooks
  <2>4. CASE r.validator = "foreign_key_exists"
    <3>1. RelatedPasses(r, row)
      BY <2>3, <2>4 DEF RelatedPasses, ForeignKeyResolves
    <3> QED BY <1>1, <1>4, <2>4, <3>1 DEF Witnessed
  <2>5. CASE r.validator # "foreign_key_exists"
    <3>1. RelatedPasses(r, row) <=> ~ Disagree(r, row)
      BY <1>2, <2>3, <2>5, PassedOrOpposed
    <3> QED BY <1>1, <2>1, <2>5, <3>1 DEF Witnessed
  <2> QED BY <2>4, <2>5
<1> QED
  BY <1>3, <1>4

(* What bears a verdict out once keeps doing so.                           *)
LEMMA WitnessGrows ==
  ASSUME Grows
  PROVE  \A r, p : Witnessed(r, p) => Witnessed(r, p)'
<1>1. S' = S
  BY RulesStay DEF Grows
<1>2. \A r, row : Disagree(r, row)' <=> Disagree(r, row)
  BY DEF Grows, Disagree, Self
<1> QED
  BY <1>1, <1>2 DEF Grows, Witnessed

(* The verdicts so far stay borne out while none is added.                 *)
LEMMA VerdictsStay ==
  ASSUME VerdictsHaveWitness, Grows, results' = results
  PROVE  VerdictsHaveWitness'
<1>1. S' = S /\ \A r : Asks(r)' <=> Asks(r)
  BY RulesStay DEF Grows
<1> QED
  BY <1>1, WitnessGrows DEF VerdictsHaveWitness

(* One verdict more, borne out as well.                                    *)
LEMMA ReportWitness ==
  ASSUME TypeOK, VerdictsHaveWitness, Grows, NEW n, NEW p,
         results' = Append(results, [rule |-> n, passed |-> p]),
         Asks(S.rules[n]) => Witnessed(S.rules[n], p)'
  PROVE  VerdictsHaveWitness'
<1>1. S' = S /\ \A r : Asks(r)' <=> Asks(r)
  BY RulesStay DEF Grows
<1>2. results \in Seq(ResultSet)
  BY DEF TypeOK, ResultSet
<1>3. \A k \in DOMAIN results' :
        \/ k \in DOMAIN results /\ results'[k] = results[k]
        \/ results'[k] = [rule |-> n, passed |-> p]
  BY <1>2, SMT
<1>4. ASSUME NEW k \in DOMAIN results', NEW r, NEW q,
             r = S.rules[results'[k].rule], q = results'[k].passed, Asks(r)
      PROVE  Witnessed(r, q)'
  <2>1. CASE k \in DOMAIN results /\ results'[k] = results[k]
    <3>1. Witnessed(r, q)
      BY <1>4, <2>1 DEF VerdictsHaveWitness
    <3> QED BY <3>1, WitnessGrows
  <2>2. CASE results'[k] = [rule |-> n, passed |-> p]
    BY <1>1, <1>4, <2>2
  <2> QED BY <1>3, <1>4, <2>1, <2>2
<1> QED
  BY <1>1, <1>4 DEF VerdictsHaveWitness

(* No step puts a row without columns into a database.                     *)
LEMMA StepRows == TypeOK /\ RowBooks /\ [Next]_vars => RowBooks'
<1> SUFFICES ASSUME TypeOK, RowBooks, [Next]_vars PROVE RowBooks'
  OBVIOUS
<1>1. CASE seen' = seen
  BY <1>1 DEF RowBooks
<1>2. CASE seen' # seen
  <2>1. PICK y \in Records : \E row \in S.rows[y] : Write(y, row)
    <3>1. ASSUME Abort \/ NextRule PROVE seen' = seen
      BY <3>1 DEF Abort, NextRule
    <3>2. ASSUME NEW row, Gate(row) PROVE seen' = seen
      BY <3>1, <3>2 DEF Gate
    <3>3. ASSUME NEW p, Report(p) PROVE seen' = seen
      BY <3>1, <3>3 DEF Report
    <3>4. LoadRecord \/ RecordGone \/ SkipRule \/ OwnCondition \/ Applies
          \/ RelatedCondition => seen' = seen
      BY <3>1, <3>2 DEF LoadRecord, RecordGone, SkipRule, OwnCondition, Applies, RelatedCondition
    <3>5. ValidateOwn \/ ValidateRelated \/ RuleError \/ QueryFails \/ FetchFails
          \/ Return \/ Ended => seen' = seen
      BY <3>1, <3>2, <3>3 DEF ValidateOwn, ValidateRelated, RuleError, QueryFails, FetchFails,
                              Return, Ended, vars
    <3> QED BY <1>2, <3>4, <3>5 DEF Next, vars
  <2>2. PICK row \in S.rows[y] : Write(y, row)
    BY <2>1
  <2>3. DOMAIN db = Records /\ \A z \in Records : db[z] # NoRow
    BY DEF TypeOK, RowBooks
  <2>4. row # NoRow
    BY <2>1, <2>2, CallAssumption DEF TypeOK, S
  <2>5. db' = [db EXCEPT ![y] = row] /\ seen' \subseteq seen \cup {db'}
    BY <2>2 DEF Write
  <2>6. DOMAIN db' = Records /\ \A z \in Records : db'[z] # NoRow
    BY <2>3, <2>4, <2>5
  <2> QED BY <2>5, <2>6 DEF RowBooks
<1> QED
  BY <1>1, <1>2

(* Every step leaves every verdict borne out.                              *)
LEMMA StepVerdicts ==
  TypeOK /\ LoopBooks /\ RowBooks /\ VerdictsHaveWitness /\ [Next]_vars => VerdictsHaveWitness'
<1> SUFFICES ASSUME TypeOK, LoopBooks, RowBooks, VerdictsHaveWitness, [Next]_vars
             PROVE  VerdictsHaveWitness'
  OBVIOUS
<1>a. faults \in Nat
  BY RuleLists, SMT DEF TypeOK
<1>b. ASSUME results' = <<>> PROVE VerdictsHaveWitness'
  <2>1. DOMAIN results' = {}
    BY <1>b, SMT
  <2> QED BY <2>1 DEF VerdictsHaveWitness
<1>c. ASSUME NextRule, faults > 0 => faults' > 0 PROVE Grows
  BY <1>c DEF NextRule, Grows
<1>d. ASSUME NEW row, Gate(row), faults > 0 => faults' > 0, results' = results
      PROVE  VerdictsHaveWitness'
  <2>1. Grows
    BY <1>c, <1>d DEF Gate, Grows
  <2> QED BY <1>d, <2>1, VerdictsStay
<1>1. CASE LoadRecord \/ RecordGone \/ RuleError \/ QueryFails
  <2>1. LoadRecord => results' = <<>>
    BY DEF LoadRecord, LoopBooks
  <2>2. RecordGone \/ RuleError \/ QueryFails => results' = <<>>
    BY DEF RecordGone, RuleError, QueryFails, Abort, ResultsOnError
  <2> QED BY <1>1, <1>b, <2>1, <2>2
<1>2. CASE SkipRule
  <2>1. Grows /\ results' = results
    BY <1>2, <1>c DEF SkipRule
  <2> QED BY <2>1, VerdictsStay
<1>3. CASE OwnCondition
  BY <1>3, <1>d DEF OwnCondition
<1>4. CASE RelatedCondition
  BY <1>4, <1>d DEF RelatedCondition
<1>5. CASE Applies \/ Return \/ Ended \/ UNCHANGED vars
  <2>1. Grows /\ results' = results
    BY <1>5 DEF Applies, Return, Ended, vars, Grows
  <2> QED BY <2>1, VerdictsStay
<1>6. PICK n : n = rule
  OBVIOUS
<1>7. ASSUME NEW p, Report(p), faults > 0 => faults' > 0,
             Asks(S.rules[n]) => Witnessed(S.rules[n], p)'
      PROVE  VerdictsHaveWitness'
  <2>1. Grows
    BY <1>7, <1>c DEF Report
  <2>2. results' = Append(results, [rule |-> n, passed |-> p])
    BY <1>6, <1>7 DEF Report
  <2> QED BY <1>7, <2>1, <2>2, ReportWitness
<1>8. CASE ValidateOwn
  <2>1. ~ Asks(S.rules[n])
    BY <1>6, <1>8 DEF ValidateOwn, Rule
  <2> QED BY <1>7, <1>8, <2>1 DEF ValidateOwn
<1>9. CASE ValidateRelated
  <2>1. PICK r : r = S.rules[n]
    OBVIOUS
  <2>2. Asks(r) /\ Declared(r.relation) /\ faults' = faults
    BY <1>6, <1>9, <2>1 DEF ValidateRelated, Rule
  <2>3. PICK row \in Answers(r.relation) : Report(RelatedPasses(r, row))
    BY <1>6, <1>9, <2>1 DEF ValidateRelated, Rule
  <2>4. PICK p : p = RelatedPasses(r, row)
    OBVIOUS
  <2>5. Witnessed(r, p)
    BY <2>2, <2>4, AnswersWitness
  <2>6. Grows /\ S' = S
    BY <1>c, <2>2, <2>3, RulesStay DEF Report, NextRule
  <2>7. Witnessed(r, p)'
    BY <2>5, <2>6, WitnessGrows
  <2>8. r = S.rules[n] /\ Witnessed(S.rules[n], p)'
    BY <2>1, <2>6, <2>7
  <2> QED BY <1>7, <2>2, <2>3, <2>4, <2>8
<1>10. CASE FetchFails
  <2>1. faults' > 0 /\ (faults > 0 => faults' > 0)
    BY <1>10, <1>a, SMT DEF FetchFails
  <2>2. CASE pc = "gate" /\ Gate(NoRow) /\ UNCHANGED results
    BY <1>d, <2>1, <2>2
  <2>3. CASE pc = "check" /\ Report(RelatedPasses(Rule, NoRow))
    <3>1. PICK r : r = S.rules[n]
      OBVIOUS
    <3>2. Asks(r) /\ Report(RelatedPasses(r, NoRow))
      BY <1>6, <1>10, <2>3, <3>1 DEF FetchFails, Querying, AtCondition, Rule
    <3>3. PICK p : p = RelatedPasses(r, NoRow)
      OBVIOUS
    <3>4. p <=> r.validator # "foreign_key_exists"
      BY <3>2, <3>3, NoRowVerdict DEF Asks, Relational
    <3>5. S' = S
      BY <3>2 DEF Report, NextRule, S
    <3>6. Witnessed(r, p)'
      BY <2>1, <3>4 DEF Witnessed
    <3>7. Witnessed(S.rules[n], p)'
      BY <3>1, <3>5, <3>6
    <3> QED BY <1>7, <2>1, <3>2, <3>3, <3>7
  <2> QED BY <1>10, <2>2, <2>3 DEF FetchFails
<1>11. ASSUME NEW y \in Records, NEW row \in S.rows[y], Write(y, row)
       PROVE  VerdictsHaveWitness'
  <2>1. CASE pc = "load"
    BY <1>11, <1>b, <2>1 DEF Write, LoopBooks
  <2>2. CASE pc # "load"
    <3>1. Grows /\ results' = results
      BY <1>11, <2>2 DEF Write, Grows
    <3> QED BY <3>1, VerdictsStay
  <2> QED BY <2>1, <2>2
<1> QED
  BY <1>1, <1>2, <1>3, <1>4, <1>5, <1>8, <1>9, <1>10, <1>11 DEF Next

(* No verdict and no written row at the start.                             *)
LEMMA InitVerdicts == Init => RowBooks /\ VerdictsHaveWitness
<1> SUFFICES ASSUME Init PROVE RowBooks /\ VerdictsHaveWitness
  OBVIOUS
<1>1. RowBooks
  BY CallAssumption DEF Init, RowBooks, S
<1>2. DOMAIN results = {}
  BY SMT DEF Init
<1> QED
  BY <1>1, <1>2 DEF VerdictsHaveWitness

-----------------------------------------------------------------------------
(* A rule is reported once, in the loader's order, only if each of its     *)
(* conditions held at some moment of the call, and left out only if it is  *)
(* inactive or one of them did not hold at some moment, for every rule     *)
(* list, database and number of writes (validate_record.go 154-185).       *)
THEOREM EveryGateIsExplained == Spec => []GatesAreExplained
<1>1. Spec => [](TypeOK /\ LoopBooks /\ GateBooks /\ ReportBooks /\ FailureIsExplained)
  BY InitBooks, StepBooks, InitExplains, StepExplains, PTL DEF Spec
<1> QED
  BY <1>1, ReturnedCallsAreExplained, PTL

(* A call fails only for a failed query, a record that is gone, or a       *)
(* condition or rule it came to and could not evaluate                     *)
(* (validate_record.go 154-185, condition.go 50-70).                       *)
THEOREM EveryFailureIsExplained == Spec => []FailureIsExplained
<1>1. Spec => [](TypeOK /\ LoopBooks /\ GateBooks /\ ReportBooks /\ FailureIsExplained)
  BY InitBooks, StepBooks, InitExplains, StepExplains, PTL DEF Spec
<1> QED
  BY <1>1, PTL

(* A related_field_* or foreign_key_exists verdict is borne out by a       *)
(* database the call may have seen, or by a query that failed, for every   *)
(* relation, rule and sequence of writes (resolver.go 61-120).             *)
THEOREM EveryVerdictHasWitness == Spec => []VerdictsHaveWitness
<1>1. Spec => [](TypeOK /\ LoopBooks /\ RowBooks /\ VerdictsHaveWitness)
  BY InitBooks, StepBooks, InitVerdicts, StepRows, StepVerdicts, PTL DEF Spec
<1> QED
  BY <1>1, PTL

-----------------------------------------------------------------------------
(* The record has one of its setup's rows, then and now, and what          *)
(* check_digit reported is what it reads off that row.                     *)
OwnBooks ==
  /\ db[S.record] \in OwnRows(setup)
  /\ record # Absent => record \in OwnRows(setup)
CheckBooks ==
  \A k \in DOMAIN results :
    LET r == S.rules[results[k].rule]
    IN  r.validator = "check_digit" => (results[k].passed <=> CheckDigitPasses(r))

(* Of the database only the record's own row matters here.                 *)
LEMMA StepOwnRow == TypeOK /\ OwnBooks /\ RowBooks /\ [Next]_vars => OwnBooks'
<1> SUFFICES ASSUME TypeOK, OwnBooks, RowBooks, [Next]_vars PROVE OwnBooks'
  OBVIOUS
<1>1. CASE LoadRecord
  BY <1>1 DEF LoadRecord, OwnBooks, S
<1>2. ASSUME NEW y \in Records, NEW row \in S.rows[y], Write(y, row)
      PROVE  OwnBooks'
  <2>1. /\ setup' = setup /\ record' = record /\ S' = S
        /\ db' = [db EXCEPT ![y] = row] /\ DOMAIN db = Records
    BY <1>2 DEF Write, S, TypeOK, RowBooks
  <2>2. S.record \in Records
    BY CallAssumption DEF TypeOK, S
  <2>3. S.rows[S.record] \subseteq OwnRows(setup)
    BY DEF OwnRows, S
  <2>4. db'[S.record] \in OwnRows(setup)
    BY <1>2, <2>1, <2>2, <2>3 DEF OwnBooks
  <2> QED BY <2>1, <2>4 DEF OwnBooks
<1>3. CASE db' = db /\ setup' = setup /\ record' = record
  BY <1>3 DEF OwnBooks, S
<1>4. ASSUME Abort \/ NextRule PROVE db' = db /\ setup' = setup /\ record' = record
  BY <1>4 DEF Abort, NextRule
<1>5. ASSUME NEW row, Gate(row) PROVE db' = db /\ setup' = setup /\ record' = record
  BY <1>4, <1>5 DEF Gate
<1>6. ASSUME NEW p, Report(p) PROVE db' = db /\ setup' = setup /\ record' = record
  BY <1>4, <1>6 DEF Report
<1>7. CASE RecordGone \/ SkipRule \/ OwnCondition \/ Applies \/ RelatedCondition
  BY <1>3, <1>4, <1>5, <1>7 DEF RecordGone, SkipRule, OwnCondition, Applies, RelatedCondition
<1>8. CASE \/ ValidateOwn \/ ValidateRelated \/ RuleError \/ QueryFails \/ FetchFails
           \/ Return \/ Ended \/ UNCHANGED vars
  BY <1>3, <1>4, <1>5, <1>6, <1>8 DEF ValidateOwn, ValidateRelated, RuleError, QueryFails,
                                      FetchFails, Return, Ended, vars
<1> QED
  BY <1>1, <1>2, <1>7, <1>8 DEF Next

(* A verdict stays what it was, and a new one is check_digit's own.        *)
LEMMA StepChecks == TypeOK /\ LoopBooks /\ CheckBooks /\ [Next]_vars => CheckBooks'
<1> SUFFICES ASSUME TypeOK, LoopBooks, CheckBooks, [Next]_vars PROVE CheckBooks'
  OBVIOUS
<1>1. CASE results' = <<>>
  <2>1. DOMAIN results' = {}
    BY <1>1, SMT
  <2> QED BY <2>1 DEF CheckBooks
<1>2. ASSUME setup' = setup, record' = record
      PROVE  S' = S /\ \A r : CheckDigitPasses(r)' <=> CheckDigitPasses(r)
  BY <1>2 DEF S, CheckDigitPasses, Self
<1>3. CASE results' = results /\ setup' = setup /\ record' = record
  BY <1>2, <1>3 DEF CheckBooks
<1>4. ASSUME NEW n, NEW p, setup' = setup, record' = record,
             results' = Append(results, [rule |-> n, passed |-> p]),
             S.rules[n].validator = "check_digit" => (p <=> CheckDigitPasses(S.rules[n]))
      PROVE  CheckBooks'
  <2>1. results \in Seq(ResultSet)
    BY DEF TypeOK, ResultSet
  <2>2. \A k \in DOMAIN results' :
          \/ k \in DOMAIN results /\ results'[k] = results[k]
          \/ results'[k] = [rule |-> n, passed |-> p]
    BY <1>4, <2>1, SMT
  <2>3. S' = S /\ \A r : CheckDigitPasses(r)' <=> CheckDigitPasses(r)
    BY <1>2, <1>4
  <2>4. ASSUME NEW k \in DOMAIN results', NEW r, r = S.rules[results'[k].rule],
               r.validator = "check_digit"
        PROVE  results'[k].passed <=> CheckDigitPasses(r)
    <3>1. CASE k \in DOMAIN results /\ results'[k] = results[k]
      BY <2>4, <3>1 DEF CheckBooks
    <3>2. CASE results'[k] = [rule |-> n, passed |-> p]
      BY <1>4, <2>4, <3>2
    <3> QED BY <2>2, <3>1, <3>2
  <2> QED BY <2>3, <2>4 DEF CheckBooks
<1>5. ASSUME NextRule PROVE setup' = setup /\ record' = record
  BY <1>5 DEF NextRule
<1>6. ASSUME NEW row, Gate(row) PROVE setup' = setup /\ record' = record
  BY <1>5, <1>6 DEF Gate
<1>7. CASE LoadRecord \/ RecordGone \/ RuleError \/ QueryFails
  BY <1>1, <1>7 DEF LoadRecord, RecordGone, RuleError, QueryFails, Abort, ResultsOnError, LoopBooks
<1>8. CASE SkipRule \/ OwnCondition \/ RelatedCondition \/ Applies \/ Return \/ Ended \/ UNCHANGED vars
  BY <1>3, <1>5, <1>6, <1>8 DEF SkipRule, OwnCondition, RelatedCondition, Applies, Return, Ended, vars
<1>9. CASE ValidateOwn
  <2>1. /\ results' = Append(results, [rule |-> rule, passed |-> OwnPasses(Rule)])
        /\ setup' = setup /\ record' = record
    BY <1>5, <1>9 DEF ValidateOwn, Report
  <2>2. ASSUME Rule.validator = "check_digit" PROVE OwnPasses(Rule) <=> CheckDigitPasses(Rule)
    BY <2>2 DEF OwnPasses, Relational
  <2> QED BY <1>4, <2>1, <2>2 DEF Rule
<1>10. CASE ValidateRelated \/ (FetchFails /\ pc = "check")
  <2>1. PICK row : Asks(Rule) /\ Report(RelatedPasses(Rule, row))
    BY <1>10 DEF ValidateRelated, FetchFails, Querying, AtCondition
  <2>2. /\ results' = Append(results, [rule |-> rule, passed |-> RelatedPasses(Rule, row)])
        /\ setup' = setup /\ record' = record
    BY <1>5, <2>1 DEF Report
  <2>3. Rule.validator # "check_digit"
    BY <2>1 DEF Asks
  <2> QED BY <1>4, <2>2, <2>3 DEF Rule
<1>11. CASE FetchFails /\ pc # "check"
  BY <1>3, <1>6, <1>11 DEF FetchFails
<1>12. ASSUME NEW y \in Records, NEW row \in S.rows[y], Write(y, row) PROVE CheckBooks'
  BY <1>3, <1>12 DEF Write
<1> QED
  BY <1>7, <1>8, <1>9, <1>10, <1>11, <1>12 DEF Next

(* Every check_digit verdict is on a row of the record.                    *)
LEMMA AlwaysChecked == Spec => [](TypeOK /\ LoopBooks /\ OwnBooks /\ CheckBooks)
<1>1. Init => OwnBooks /\ CheckBooks
  <2> SUFFICES ASSUME Init PROVE OwnBooks /\ CheckBooks
    OBVIOUS
  <2>1. db[S.record] \in OwnRows(setup)
    BY DEF Init, OwnRows, S
  <2>2. DOMAIN results = {}
    BY SMT DEF Init
  <2> QED BY <2>1, <2>2 DEF Init, OwnBooks, CheckBooks
<1> QED
  BY <1>1, InitBooks, StepBooks, InitVerdicts, StepRows, StepOwnRow, StepChecks, PTL DEF Spec

(* The identifiers that were intended are valid ones, as the run's are:    *)
(* each of them is typed correctly too, and TyposAreReported has it pass.  *)
IntendedAreValid ==
  \A s \in {z \in DOMAIN Setups : Setups[z].intended # <<>>} :
    \A i \in DOMAIN Setups[s].rules :
      LET r == Setups[s].rules[i]
      IN  r.validator = "check_digit" => verifyCheckDigit(r.algorithm, Setups[s].intended)

(* check_digit passes the intended identifier and the transpositions in    *)
(* Unseen, and reports every other single typing error, whatever the       *)
(* identifier, whichever of the six algorithms the rule names, and among   *)
(* whatever other rules of the call.                                       *)
THEOREM EveryTypoIsReported ==
  ASSUME IntendedAreValid
  PROVE  Spec => []TyposAreReported
<1>1. TypeOK /\ LoopBooks /\ OwnBooks /\ CheckBooks => TyposAreReported
  <2> SUFFICES ASSUME TypeOK, LoopBooks, OwnBooks, CheckBooks, NEW k \in DOMAIN results,
                      NEW r, r = S.rules[results[k].rule],
                      r.validator = "check_digit", S.intended # <<>>
               PROVE  results[k].passed <=>
                        Self(r).tokens[1] \in {S.intended} \cup Unseen(r.algorithm, S.intended)
    BY DEF TyposAreReported
  <2> DEFINE meant == S.intended
             typed == Self(r).tokens[1]
  <2>1. results \in Seq(ResultSet) /\ results[k] \in ResultSet /\ results # <<>>
    <3>1. results \in Seq(ResultSet)
      BY DEF TypeOK, ResultSet
    <3> QED BY <3>1, SMT
  <2>2. record \in OwnRows(setup) \ {Absent}
    <3>1. pc \in {"gate", "check", "done"}
      BY <2>1 DEF TypeOK, LoopBooks
    <3> QED BY <3>1 DEF TypeOK, OwnBooks
  <2>3. /\ meant \in Seq(Alphabet) /\ r.algorithm \in Algorithms
        /\ verifyCheckDigit(r.algorithm, meant)
        /\ ~ isEmpty(Self(r)) /\ DOMAIN Self(r).tokens = {1} /\ typed \in Typings(meant)
    <3>1. setup \in {z \in DOMAIN Setups : Setups[z].intended # <<>>}
      BY DEF TypeOK, S
    <3>2. results[k].rule \in DOMAIN Setups[setup].rules
      BY <2>1 DEF ResultSet, S
    <3>3. verifyCheckDigit(r.algorithm, meant)
      BY <3>1, <3>2, IntendedAreValid DEF IntendedAreValid, S
    <3> QED BY <2>2, <3>1, <3>2, <3>3, IntendedAssumption DEF S, Self
  <2>4. results[k].passed <=> verifyCheckDigit(r.algorithm, typed)
    <3>1. results[k].passed <=> CheckDigitPasses(r)
      BY DEF CheckBooks
    <3>2. CheckDigitPasses(r) <=> (\A j \in {1} : verifyCheckDigit(r.algorithm, Self(r).tokens[j]))
      BY <2>3 DEF CheckDigitPasses
    <3> QED BY <3>1, <3>2
  <2> HIDE DEF meant, typed
  <2>5. CASE typed = meant
    BY <2>3, <2>4, <2>5 DEF meant, typed
  <2>6. CASE typed \in Unseen(r.algorithm, meant)
    <3>1. verifyCheckDigit(r.algorithm, typed)
      BY <2>3, <2>6, BlindTranspositionsPass
    <3> QED BY <2>4, <2>6, <3>1 DEF meant, typed
  <2>7. CASE typed # meant /\ typed \notin Unseen(r.algorithm, meant)
    <3>1. CASE typed \in Substitutions(meant)
      <4>1. ~ verifyCheckDigit(r.algorithm, typed)
        BY <2>3, <3>1, SubstitutionsAreReported
      <4> QED BY <2>4, <2>7, <4>1 DEF meant, typed
    <3>2. CASE typed \in Transpositions(meant)
      <4>1. ~ verifyCheckDigit(r.algorithm, typed)
        BY <2>3, <2>7, <3>2, TranspositionsAreReported
      <4> QED BY <2>4, <2>7, <4>1 DEF meant, typed
    <3> QED BY <2>3, <2>7, <3>1, <3>2 DEF Typings
  <2> QED BY <2>5, <2>6, <2>7
<1> QED
  BY <1>1, AlwaysChecked, PTL
=============================================================================
