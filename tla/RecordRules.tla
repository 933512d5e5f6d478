----------------------------- MODULE RecordRules -----------------------------
(***************************************************************************)
(* One call of ValidateRecordUseCase.Execute (usecase/validate_record.go)  *)
(* over rules with relation-scoped conditions and the validators that look *)
(* at the record or at one related row.  The record is read once; every    *)
(* relation-scoped condition and every related_field_* and                 *)
(* foreign_key_exists rule then runs a query of its own, while another     *)
(* process writes to the database and queries may fail.                    *)
(***************************************************************************)
EXTENDS Relations, CheckDigits

CONSTANTS NoBound, CurrentYear,
          Setups    \* a sequence of the calls to make:
                    \*   record     the record to validate
                    \*   relations  the bundle's relations, by name
                    \*   rules      its table's rules, in the loader's order
                    \*   databases  the databases the call may start from
                    \*   rows       what may be written, per record
                    \*   maxWrites, maxFaults
                    \*   intended   what the identifier should have been

IsSequence(q) == q \in Seq({q[k] : k \in DOMAIN q})

ASSUME CallAssumption ==
  \A s \in DOMAIN Setups :
    /\ Setups[s].record \in Records
    /\ \A D \in Setups[s].databases :
         DOMAIN D = Records /\ \A y \in Records : D[y] # NoRow
    /\ \A y \in Records : NoRow \notin Setups[s].rows[y]
    /\ IsSequence(Setups[s].rules)
    /\ \A i \in DOMAIN Setups[s].rules : IsSequence(Setups[s].rules[i].conditions)
    /\ Setups[s].maxWrites \in Nat /\ Setups[s].maxFaults \in Nat

(* The rows a setup's record may have.                                     *)
OwnRows(s) ==
  {D[Setups[s].record] : D \in Setups[s].databases} \cup Setups[s].rows[Setups[s].record]

(* An identifier as it was intended, or with one typing error.             *)
Typings(t) == {t} \cup Substitutions(t) \cup Transpositions(t)

(* Where an identifier was intended, the record's field has a typing of it.*)
ASSUME IntendedAssumption ==
  \A s \in {z \in DOMAIN Setups : Setups[z].intended # <<>>} :
    LET t == Setups[s].intended
        typed == Typings(t)
    IN  /\ t \in Seq(Alphabet)
        /\ \A i \in DOMAIN Setups[s].rules :
             LET r == Setups[s].rules[i]
             IN  r.validator = "check_digit" =>
                   /\ r.algorithm \in Algorithms
                   /\ \A row \in OwnRows(s) \ {Absent} :
                        LET v == Get(row, r.field)
                        IN  /\ ~ isEmpty(v)
                            /\ DOMAIN v.tokens = {1} /\ v.tokens[1] \in typed

VARIABLES setup, db,
          pc,             \* "load", "gate", "check", "done" or "failed"
          record,         \* as LoadRecord returned it
          rule, cond,     \* the positions in the rule loop and in its gate
          results,
          writes, faults,
          seen            \* history: the databases since the record was read

vars == <<setup, db, pc, record, rule, cond, results, writes, faults, seen>>

S == Setups[setup]
Rule == S.rules[rule]
Condition == Rule.conditions[cond]

TypeOK ==
  /\ setup \in DOMAIN Setups /\ db \in seen
  /\ pc \in {"load", "gate", "check", "done", "failed"}
  /\ pc \in {"gate", "check", "done"} => record # Absent
  /\ rule \in 1 .. Len(S.rules) + 1
  /\ pc = "check" => cond = Len(Rule.conditions) + 1
  /\ results \in Seq([rule : DOMAIN S.rules, passed : BOOLEAN])
  /\ Len(results) < rule
  /\ pc = "failed" => results = <<>>
  /\ writes \in 0 .. S.maxWrites /\ faults \in 0 .. S.maxFaults

Init ==
  /\ setup \in DOMAIN Setups /\ db \in S.databases
  /\ pc = "load" /\ record = Absent /\ rule = 1 /\ cond = 1 /\ results = <<>>
  /\ writes = 0 /\ faults = 0 /\ seen = {db}

(* Another process inserts, updates or deletes a record.                   *)
Write(y, row) ==
  /\ pc \in {"load", "gate", "check"}
  /\ writes < S.maxWrites
  /\ row # db[y]
  /\ db' = [db EXCEPT ![y] = row]
  /\ seen' = IF pc = "load" THEN {db'} ELSE seen \cup {db'}
  /\ writes' = writes + 1
  /\ UNCHANGED <<setup, pc, record, rule, cond, results, faults>>

LoadRecord ==
  /\ pc = "load" /\ db[S.record] # Absent
  /\ record' = db[S.record]
  /\ pc' = "gate"
  /\ UNCHANGED <<setup, db, rule, cond, results, writes, faults, seen>>

(* Defect: the results so far come with the error.                         *)
PartialResults == results

(* "return nil, err"                                                       *)
ResultsOnError == <<>>

Abort ==
  /\ pc' = "failed"
  /\ results' = ResultsOnError
  /\ UNCHANGED <<setup, db, record, rule, cond, writes, seen>>

RecordGone ==
  /\ pc = "load" /\ db[S.record] = Absent
  /\ Abort /\ UNCHANGED faults

(* On to the next rule of the loop.                                        *)
NextRule ==
  /\ rule' = rule + 1 /\ cond' = 1 /\ pc' = "gate"
  /\ UNCHANGED <<setup, db, record, writes, seen>>

SkipRule ==
  /\ pc = "gate" /\ rule <= Len(S.rules)
  /\ ~ Rule.active
  /\ NextRule /\ UNCHANGED <<results, faults>>

AtCondition ==
  /\ pc = "gate" /\ rule <= Len(S.rules)
  /\ Rule.active /\ cond <= Len(Rule.conditions)

(* Defect: a gate on a row that does not exist is taken as met.            *)
MetIfNone(row) == row = NoRow \/ Holds(Condition, row, record)

Met(row) == Holds(Condition, row, record)

(* Rule.EvalConditions: the first condition that does not hold ends it.    *)
Gate(row) ==
  IF Met(row)
  THEN /\ cond' = cond + 1
       /\ UNCHANGED <<setup, db, pc, record, rule, writes, seen>>
  ELSE NextRule

OwnCondition ==
  /\ AtCondition /\ Condition.relation = OwnRecord
  /\ Gate(record) /\ UNCHANGED <<results, faults>>

Declared(name) == Resolvable(S.relations, TableOf[S.record], name)
Answers(name) == ResolveOne(db, S.record, S.relations[name])

(* LookupRelated, a query of its own for every condition.                  *)
RelatedCondition ==
  /\ AtCondition /\ Condition.relation # OwnRecord /\ Declared(Condition.relation)
  /\ \E row \in Answers(Condition.relation) : Gate(row)
  /\ UNCHANGED <<results, faults>>

Applies ==
  /\ pc = "gate" /\ rule <= Len(S.rules)
  /\ Rule.active /\ cond > Len(Rule.conditions)
  /\ pc' = "check"
  /\ UNCHANGED <<setup, db, record, rule, cond, results, writes, faults, seen>>

-----------------------------------------------------------------------------
(* The validators.  A rule is a record of the fields and parameters its    *)
(* validator reads; a field of the record that is not there reads as nil.  *)
Self(r) == Get(record, r.field)

Relational ==
  {"related_field_equals", "related_field_not_equals", "related_field_in_set", "foreign_key_exists"}

(* Whether the validator comes as far as to ask the resolver.              *)
Asks(r) ==
  \/ r.validator \in {"related_field_equals", "related_field_not_equals"}
       /\ ~ (r.skip /\ isEmpty(Self(r)))
  \/ r.validator = "related_field_in_set"
  \/ r.validator = "foreign_key_exists" /\ ~ isEmpty(Self(r))

(* Defect: a related row that is missing is compared like one that is not. *)
ComparedAlways(r, row) == TRUE

(* No related row, or an empty value the rule skips: nothing to compare.   *)
Compared(r, row) ==
  /\ row # NoRow
  /\ ~ (r.skip /\ isEmpty(Get(row, r.relatedField)))

FieldEquals(r, row) ==
  Compared(r, row) => equalValues(Self(r), Get(row, r.relatedField))
FieldNotEquals(r, row) ==
  Compared(r, row) => ~ equalValues(Self(r), Get(row, r.relatedField))
FieldInSet(r, row) ==
  Compared(r, row) => inSet(Get(row, r.relatedField), r.allowed)

ForeignKeyResolves(row) == row # NoRow

RelatedPasses(r, row) ==
  \/ r.validator = "foreign_key_exists" /\ ForeignKeyResolves(row)
  \/ r.validator = "related_field_equals" /\ FieldEquals(r, row)
  \/ r.validator = "related_field_not_equals" /\ FieldNotEquals(r, row)
  \/ r.validator = "related_field_in_set" /\ FieldInSet(r, row)

(* AbsenceValidator *)
IsAbsent(r) == isEmpty(Self(r))

Given(bound) == bound # NoBound

(* resolveDynamicValue knows "current_year" and nothing else.              *)
Resolved(bound) == IF bound.str = "current_year" THEN CurrentYear ELSE bound.scan

(* RangeValidator: a bound that does not read as a number does not bound.  *)
RangePasses(r) ==
  /\ Self(r) # NULL /\ Self(r).scan # NaN
  /\ Given(r.min) /\ Resolved(r.min) # NaN => Self(r).scan >= Resolved(r.min)
  /\ Given(r.max) /\ Resolved(r.max) # NaN => Self(r).scan <= Resolved(r.max)

Shorter(r) == Given(r.min) /\ r.min.scan # NaN /\ Self(r).len < r.min.scan
Longer(r) == Given(r.max) /\ r.max.scan # NaN /\ Self(r).len > r.max.scan
LengthPasses(r) == Self(r) # NULL /\ ~ Shorter(r) /\ ~ Longer(r)

(* A text has tokens: its parts, as the rule's separator splits it, empty  *)
(* ones left out.  One that is no identifier fails its algorithm.          *)
CheckDigitPasses(r) ==
  IF isEmpty(Self(r)) THEN r.skip
  ELSE \A k \in DOMAIN Self(r).tokens : verifyCheckDigit(r.algorithm, Self(r).tokens[k])

Validators == Relational \cup {"absence", "range", "length", "check_digit"}

(* A value that is there, and no bound to hold it against.                 *)
Unbounded(r) == Self(r) # NULL /\ ~ Given(r.min) /\ ~ Given(r.max)

(* A bound that is no number; the maximum is only read if the value is not *)
(* too short.                                                              *)
BadLength(r) ==
  /\ Self(r) # NULL
  /\ \/ Given(r.min) /\ r.min.scan = NaN
     \/ Given(r.max) /\ r.max.scan = NaN /\ ~ Shorter(r)

(* No algorithm, or a value that is no text; an empty text is one.         *)
Uncheckable(r) == r.algorithm = NoName \/ (Self(r) # NULL /\ Self(r).type # "text")

(* A validator that is not registered, and parameters or values a          *)
(* validator returns an error for.                                         *)
Misfit(r) ==
  \/ r.validator \notin Validators
  \/ r.validator = "range" /\ Unbounded(r)
  \/ r.validator = "length" /\ (Unbounded(r) \/ BadLength(r))
  \/ r.validator = "check_digit" /\ Uncheckable(r)

(* What a validator says that does not ask: of the relational ones, that   *)
(* an empty value is skipped.                                              *)
OwnPasses(r) ==
  \/ r.validator = "absence" /\ IsAbsent(r)
  \/ r.validator = "range" /\ RangePasses(r)
  \/ r.validator = "length" /\ LengthPasses(r)
  \/ r.validator = "check_digit" /\ CheckDigitPasses(r)
  \/ r.validator \in Relational

Report(passed) ==
  /\ results' = Append(results, [rule |-> rule, passed |-> passed])
  /\ NextRule

(* A validator that needs no query, or that is done before it asks.        *)
ValidateOwn ==
  /\ pc = "check" /\ ~ Asks(Rule) /\ ~ Misfit(Rule)
  /\ Report(OwnPasses(Rule)) /\ UNCHANGED faults

ValidateRelated ==
  /\ pc = "check" /\ Asks(Rule) /\ Declared(Rule.relation)
  /\ \E row \in Answers(Rule.relation) : Report(RelatedPasses(Rule, row))
  /\ UNCHANGED faults

(* Defect: a rule's relation is resolved before the rule is skipped.       *)
RefusedEarly ==
  \/ AtCondition /\ Condition.relation # OwnRecord /\ ~ Declared(Condition.relation)
  \/ /\ pc \in {"gate", "check"} /\ rule <= Len(S.rules)
     /\ Rule.validator \in Relational /\ ~ Declared(Rule.relation)

(* A relation that cannot be resolved, or a rule that does not fit, when   *)
(* the loop comes to it.                                                   *)
Refused ==
  \/ AtCondition /\ Condition.relation # OwnRecord /\ ~ Declared(Condition.relation)
  \/ pc = "check" /\ Asks(Rule) /\ ~ Declared(Rule.relation)
  \/ pc = "check" /\ Misfit(Rule)

RuleError == Refused /\ Abort /\ UNCHANGED faults

Querying ==
  \/ pc = "load"
  \/ AtCondition /\ Condition.relation # OwnRecord /\ Declared(Condition.relation)
  \/ pc = "check" /\ Asks(Rule) /\ Declared(Rule.relation)

(* A query fails: the call does.                                           *)
QueryFails ==
  /\ Querying /\ faults < S.maxFaults
  /\ faults' = faults + 1
  /\ Abort

(* A relation's query fails while its row is fetched: rows.Next is false,  *)
(* rows.Err is not asked, and ResolveOne returns no row and no error.      *)
FetchFails ==
  /\ Querying /\ pc # "load" /\ faults < S.maxFaults
  /\ faults' = faults + 1
  /\ \/ pc = "gate" /\ Gate(NoRow) /\ UNCHANGED results
     \/ pc = "check" /\ Report(RelatedPasses(Rule, NoRow))

Return ==
  /\ pc = "gate" /\ rule > Len(S.rules)
  /\ pc' = "done"
  /\ UNCHANGED <<setup, db, record, rule, cond, results, writes, faults, seen>>

Ended == pc \in {"done", "failed"} /\ UNCHANGED vars

Next ==
  \/ LoadRecord \/ RecordGone \/ SkipRule \/ OwnCondition \/ RelatedCondition \/ Applies
  \/ ValidateOwn \/ ValidateRelated \/ RuleError \/ QueryFails \/ FetchFails
  \/ Return \/ Ended
  \/ \E y \in Records : \E row \in S.rows[y] : Write(y, row)

Spec == Init /\ [][Next]_vars
-----------------------------------------------------------------------------
Reported(i) == {k \in DOMAIN results : results[k].rule = i}

(* The rows a condition may have been decided on: the record as it was     *)
(* read, or a related row of some moment of the call; after a failed fetch *)
(* also none.                                                              *)
DecidedOn(c) ==
  IF c.relation = OwnRecord THEN {record} ELSE
  IF ~ Declared(c.relation) THEN {} ELSE
       (UNION {ResolveOne(D, S.record, S.relations[c.relation]) : D \in seen})
         \cup (IF faults > 0 THEN {NoRow} ELSE {})
CouldHold(c) == \E row \in DecidedOn(c) : Holds(c, row, record)
CouldFail(c) == \E row \in DecidedOn(c) : ~ Holds(c, row, record)

(* Why rule i was reported, or was not.                                    *)
Explained(i) ==
  LET r == S.rules[i]
  IN  IF Reported(i) # {}
      THEN r.active /\ \A k \in DOMAIN r.conditions : CouldHold(r.conditions[k])
      ELSE r.active => \E k \in DOMAIN r.conditions : CouldFail(r.conditions[k])

(* A call reports its rules in the loader's order, whatever their          *)
(* priorities, each at most once.  A reported rule is active and each of   *)
(* its conditions held at some moment of the call, though perhaps no two   *)
(* at the same one; a rule that is not reported was inactive or had a      *)
(* condition that some moment left unmet, so a gate that stands all the    *)
(* time is never missed (validate_record.go 154-185, condition.go 50-70).  *)
GatesAreExplained ==
  pc = "done" =>
    /\ \A k, l \in DOMAIN results : k < l => results[k].rule < results[l].rule
    /\ \A i \in DOMAIN S.rules : Explained(i)

(* What a rule says of a record and a row that is related to it.           *)
Disagree(r, row) ==
  LET mine == Self(r)
      theirs == Get(row, r.relatedField)
      differ == toString(mine) # toString(theirs) \/ (mine = NULL) # (theirs = NULL)
  IN  /\ r.skip => theirs # NULL /\ theirs.str # ""
      /\ \/ r.validator = "related_field_equals" /\ differ
         \/ r.validator = "related_field_not_equals" /\ ~ differ
         \/ r.validator = "related_field_in_set" /\ \A a \in r.allowed : toString(a) # toString(theirs)

(* Some moment of the call bears a verdict out.                            *)
Witnessed(r, passed) ==
  LET linked(D) == Related(D, S.record, S.relations[r.relation])
      resolved == \E D \in seen : linked(D) # {}
      dangled == faults > 0 \/ \E D \in seen : linked(D) = {}
      agreed == \E D \in seen : \E y \in linked(D) : ~ Disagree(r, D[y])
      disagreed == \E D \in seen : \E y \in linked(D) : Disagree(r, D[y])
  IN  IF r.validator = "foreign_key_exists"
      THEN IF passed THEN resolved ELSE dangled
      ELSE IF passed THEN dangled \/ agreed ELSE disagreed

(* A related_field rule fails only for a row that was related to the       *)
(* record during the call and disagrees with it, a failed fetch never      *)
(* makes it fail; a foreign key is called dangling only if it dangled at   *)
(* some moment or a query failed, and resolved only if it did resolve.     *)
(* What passes was in order at some moment, unless a fetch failed          *)
(* (resolver.go 105-112).                                                  *)
VerdictsHaveWitness ==
  \A k \in DOMAIN results :
    LET r == S.rules[results[k].rule]
    IN  Asks(r) => Witnessed(r, results[k].passed)

(* The loop comes as far as condition k of rule i; the validator is after  *)
(* the last.                                                               *)
CouldReach(i, k) ==
  /\ S.rules[i].active
  /\ \A j \in 1 .. k - 1 : CouldHold(S.rules[i].conditions[j])

(* A call fails only for a query that failed, a record that is gone, or a  *)
(* condition or rule it came to and could not evaluate: what is wrong with *)
(* an inactive rule, or behind a condition that never held, harms nobody   *)
(* (validate_record.go 154-185).                                           *)
FailureIsExplained ==
  pc = "failed" =>
    \/ faults > 0
    \/ record = Absent
    \/ \E i \in DOMAIN S.rules :
         LET r == S.rules[i]
         IN  \/ \E k \in DOMAIN r.conditions :
                  /\ CouldReach(i, k)
                  /\ r.conditions[k].relation # OwnRecord
                  /\ ~ Declared(r.conditions[k].relation)
             \/ /\ CouldReach(i, Len(r.conditions) + 1)
                /\ \/ Asks(r) /\ ~ Declared(r.relation)
                   \/ Misfit(r)

(* check_digit reports the typing errors "check digits are designed for"   *)
(* (check_digit.go 14): every single character substituted and every two   *)
(* neighbours transposed, except exactly the transpositions in Unseen.     *)
TyposAreReported ==
  \A k \in DOMAIN results :
    LET r == S.rules[results[k].rule]
    IN  r.validator = "check_digit" /\ S.intended # <<>> =>
          (results[k].passed <=>
             Self(r).tokens[1] \in {S.intended} \cup Unseen(r.algorithm, S.intended))
=============================================================================
