------------------------------ MODULE TablePass ------------------------------
(***************************************************************************)
(* ValidateTableUseCase.Execute (usecase/validate_table.go): one pass over *)
(* a table, each record validated by ValidateRecordUseCase.Execute, while  *)
(* another process goes on writing to the database.  The pass opens no     *)
(* transaction: LoadAllRecords, each LoadRecord and each validator's count *)
(* read the database at a moment of their own.                             *)
(***************************************************************************)
EXTENDS CountAcross, SequencesExt, Severity

CONSTANTS Table,          \* the table of the pass
          RuleLabels,     \* enforcement, severity and validation_type per rule
          Setups,         \* the schemas and registries to run the pass on:
                          \*   hasId      the table has a column named "id"
                          \*   gated      the rules with a relation-scoped condition
                          \*   registered the validators in the registry
          MaxWrites,      \* bound on the concurrent writes
          MaxFaults       \* bound on the queries that fail

ASSUME PassAssumption ==
  /\ Table \in Tables
  /\ RuleLabels \in [RuleIds -> Labels]
  /\ Setups \subseteq [hasId : BOOLEAN, gated : SUBSET RuleIds,
                       registered : SUBSET {"count_across", "presence"}]
  /\ MaxWrites \in Nat /\ MaxFaults \in Nat

VARIABLES db,
          setup,
          pc,
          ids,       \* the records LoadAllRecords returned, by primary key
          pos,       \* the loop's position in ids
          loaded,    \* the current record as LoadRecord returned it
          rule,      \* the position in the current record's rule loop
          local,     \* the results of the current record so far
          report,    \* [results, passed, failed, hard, soft]
          writes, faults,
          past       \* history: the databases since the pass began, db the last

vars == <<db, setup, pc, ids, pos, loaded, rule, local, report, writes, faults, past>>
env == <<db, setup, writes, past>>

Outcomes == [record : Records, rule : RuleIds, passed : BOOLEAN, labels : Labels]
EmptyReport == [results |-> <<>>, passed |-> 0, failed |-> 0, hard |-> 0, soft |-> 0]

TypeOK ==
  /\ db \in Databases /\ setup \in Setups
  /\ pc \in {"rules", "records", "next", "validate", "done", "failed"}
  /\ ids \in Seq(Records) /\ pos \in 1 .. Len(ids) + 1
  /\ loaded \in Rows \cup {Absent}
  /\ rule \in 1 .. Len(Rules) + 1
  /\ local \in Seq(Outcomes)
  /\ report \in [results : Seq(Outcomes), passed : Nat, failed : Nat,
                 hard : Nat, soft : Nat]
  /\ writes \in 0 .. MaxWrites /\ faults \in 0 .. MaxFaults
  /\ past \in Seq(Databases) /\ Len(past) = writes + 1

Init ==
  /\ db \in Databases /\ setup \in Setups
  /\ pc = "rules"
  /\ ids = <<>> /\ pos = 1 /\ loaded = Absent /\ rule = 1 /\ local = <<>>
  /\ report = EmptyReport
  /\ writes = 0 /\ faults = 0
  /\ past = <<db>>

(* Another process inserts, updates or deletes a record.                   *)
Write(x, row) ==
  /\ pc \notin {"done", "failed"}
  /\ writes < MaxWrites
  /\ row # db[x]
  /\ db' = [db EXCEPT ![x] = row]
  /\ past' = Append(past, db')
  /\ writes' = writes + 1
  /\ UNCHANGED <<setup, pc, ids, pos, loaded, rule, local, report, faults>>

(* Any error ends the pass, without a report.                              *)
Abort ==
  /\ pc' = "failed"
  /\ report' = EmptyReport
  /\ UNCHANGED <<env, ids, pos, loaded, rule, local>>

(* A query of the pass fails.                                              *)
Fault ==
  /\ pc \in {"rules", "records", "next", "validate"}
  /\ faults < MaxFaults
  /\ faults' = faults + 1
  /\ Abort

LoadRules ==
  /\ pc = "rules"
  /\ pc' = "records"
  /\ UNCHANGED <<env, ids, pos, loaded, rule, local, report, faults>>

LoadAllRecords ==
  /\ pc = "records"
  /\ ids' = SetToSeq({x \in Records : TableOf[x] = Table /\ db[x] # Absent})
  /\ pc' = "next"
  /\ UNCHANGED <<env, pos, loaded, rule, local, report, faults>>

(* Defects: the loop stops one record early; a skipped record is not passed*)
(* over.                                                                   *)
ExhaustedEarly == pos >= Len(ids)
Stay == pos

Exhausted == pos > Len(ids)
Advance == pos + 1

(* record["id"] is missing: the record is skipped.                         *)
SkipRecord ==
  /\ pc = "next" /\ ~ Exhausted
  /\ ~ setup.hasId
  /\ pos' = Advance
  /\ UNCHANGED <<env, pc, ids, loaded, rule, local, report, faults>>

(* validateRecordUC.Execute: the record is read again, by its key.         *)
LoadRecord ==
  /\ pc = "next" /\ ~ Exhausted
  /\ setup.hasId
  /\ db[ids[pos]] # Absent
  /\ loaded' = db[ids[pos]]
  /\ rule' = 1
  /\ local' = <<>>
  /\ pc' = "validate"
  /\ UNCHANGED <<env, ids, pos, report, faults>>

(* It was deleted since LoadAllRecords: LoadRecord returns an error.       *)
RecordGone ==
  /\ pc = "next" /\ ~ Exhausted
  /\ setup.hasId
  /\ db[ids[pos]] = Absent
  /\ Abort
  /\ UNCHANGED faults

(* Defect: is_active and the conditions are not consulted.                 *)
ConsideredAlways(i) == Rules[i].on = Table

Considered(i) == Rules[i].on = Table /\ EvalConditions(loaded, Rules[i])

(* A rule of another table is not loaded; an inactive one, or one whose    *)
(* conditions are unmet, reports nothing.                                  *)
SkipRule ==
  /\ pc = "validate" /\ rule <= Len(Rules)
  /\ ~ Considered(rule)
  /\ rule' = rule + 1
  /\ UNCHANGED <<env, pc, ids, pos, loaded, local, report, faults>>

(* Registry.Get *)
Registered(i) == Rules[i].validator \in setup.registered

(* Defect: rules are resolved before the gate is evaluated.                *)
ErrorsEvenIfSkipped(i) == i \in setup.gated \/ ~ Registered(i)

(* The use case of a table pass has no relation resolver (line 67), so a   *)
(* relation-scoped condition is an error; so is a validator that is not    *)
(* registered.  A rule's own-field conditions are listed first.            *)
Errors(i) ==
  /\ Considered(i)
  /\ i \in setup.gated \/ ~ Registered(i)

RuleError ==
  /\ pc = "validate" /\ rule <= Len(Rules)
  /\ Errors(rule)
  /\ Abort
  /\ UNCHANGED faults

(* v.Validate: the row as loaded, against the database as it is now.       *)
ValidateRule ==
  /\ pc = "validate" /\ rule <= Len(Rules)
  /\ Considered(rule)
  /\ ~ Errors(rule)
  /\ local' = Append(local,
       [record |-> ids[pos], rule |-> rule,
        passed |-> Validate(db, ids[pos], loaded, Rules[rule]) = "pass",
        labels |-> NewResult(RuleLabels[rule])])
  /\ rule' = rule + 1
  /\ UNCHANGED <<env, pc, ids, pos, loaded, report, faults>>

(* Defects: hard errors are counted by severity; a passed result of a hard *)
(* rule is counted too.                                                    *)
HardBySeverity(results) ==
  Cardinality({k \in DOMAIN results : ~ results[k].passed /\ IsError(results[k].labels)})
HardEvenIfPassed(results) ==
  Cardinality({k \in DOMAIN results : IsHardFailure(results[k].labels)})

Passes(results) == Cardinality({k \in DOMAIN results : results[k].passed})
HardFailures(results) ==
  Cardinality({k \in DOMAIN results : ~ results[k].passed /\ IsHardFailure(results[k].labels)})

(* Execute returns; its results are added to the report and counted.       *)
Aggregate ==
  /\ pc = "validate" /\ rule > Len(Rules)
  /\ LET failures == Len(local) - Passes(local)
     IN  report' = [results |-> report.results \o local,
                    passed |-> report.passed + Passes(local),
                    failed |-> report.failed + failures,
                    hard |-> report.hard + HardFailures(local),
                    soft |-> report.soft + failures - HardFailures(local)]
  /\ pos' = Advance
  /\ pc' = "next"
  /\ UNCHANGED <<env, ids, loaded, rule, local, faults>>

Return ==
  /\ pc = "next" /\ Exhausted
  /\ pc' = "done"
  /\ UNCHANGED <<env, ids, pos, loaded, rule, local, report, faults>>

Ended == pc \in {"done", "failed"} /\ UNCHANGED vars

Pass ==
  \/ LoadRules \/ LoadAllRecords \/ SkipRecord \/ LoadRecord \/ RecordGone
  \/ SkipRule \/ RuleError \/ ValidateRule \/ Aggregate \/ Return

Next ==
  \/ Pass \/ Fault \/ Ended
  \/ \E x \in Records, row \in Rows \cup {Absent} : Write(x, row)

Spec == Init /\ [][Next]_vars /\ WF_vars(Pass)
-----------------------------------------------------------------------------
(* The rows a record has had since the pass began.                         *)
Seen(x) == {past[n][x] : n \in DOMAIN past}

Reported(x, i) == {r \in ToSet(report.results) : r.record = x /\ r.rule = i}

(* The report's counters agree with its results and with the rules: a      *)
(* failure of a rule enforced hard counts as a hard error, whatever        *)
(* severity the rule displays (validate_table.go 89-102, result.go 71-85). *)
ReportAddsUp ==
  LET R == report.results
      Failed(e) == {k \in DOMAIN R :
        ~ R[k].passed /\ EffectiveEnforcement(RuleLabels[R[k].rule]) = e}
  IN  /\ report.passed + report.failed = Len(R)
      /\ report.hard = Cardinality(Failed("hard"))
      /\ report.soft = Cardinality(Failed("soft"))

Verdict(x, i) == Validate(db, x, db[x], Rules[i])

(* A pass nobody disturbed reports, once each, exactly the verdicts of the *)
(* rules that apply to the records with an id, and nothing else.           *)
QuietPassIsExact ==
  pc = "done" /\ writes = 0 =>
    /\ IsInjective(report.results)
    /\ {<<r.record, r.rule, r.passed>> : r \in ToSet(report.results)} =
         {<<p[1], p[2], Verdict(p[1], p[2]) = "pass">> :
            p \in {q \in Records \X RuleIds :
                     setup.hasId /\ TableOf[q[1]] = Table /\ Verdict(q[1], q[2]) # "none"}}

Uniqueness(u) ==
  /\ u.active /\ u.on = Table /\ u.table = Table /\ u.validator = "count_across"
  /\ u.conditions = {} /\ u.excludeSelf /\ u.skip
  /\ u.expected = [min |-> NoBound, max |-> 0]
  /\ \A m \in u.match : m.target = m.self

SameKey(a, b, u) ==
  /\ a # Absent /\ b # Absent
  /\ \A m \in u.match : a[m.self] = b[m.self] /\ ~ isEmpty(a[m.self])

(* Records that share a unique key during the whole pass are all reported, *)
(* however the other records move meanwhile.                               *)
StandingDuplicatesReported ==
  pc = "done" /\ setup.hasId =>
    \A i \in RuleIds : Uniqueness(Rules[i]) =>
      \A x, y \in Records :
        /\ x # y /\ TableOf[x] = Table /\ TableOf[y] = Table
        /\ \A a \in Seen(x), b \in Seen(y) : SameKey(a, b, Rules[i])
        => \E r \in Reported(x, i) : ~ r.passed

(* A reported duplicate is one: the record held a key, and then or later   *)
(* in the pass, when it was counted, another record held it.  A record     *)
(* that nobody wrote had its twin at one moment; one that was written may  *)
(* never have met it, because the row is read before the count.            *)
DuplicateHasWitness ==
  \A i \in RuleIds : Uniqueness(Rules[i]) =>
    \A r \in ToSet(report.results) : r.rule = i /\ ~ r.passed =>
      \E y \in Records \ {r.record} :
        \E m, n \in DOMAIN past :
          m <= n /\ SameKey(past[m][r.record], past[n][y], Rules[i])

(* The row is one that rule i applies to but the pass cannot evaluate.     *)
Refused(row, i) ==
  /\ row # Absent /\ Rules[i].on = Table /\ EvalConditions(row, Rules[i])
  /\ i \in setup.gated \/ ~ Registered(i)

Evaluable(row) == row # Absent /\ \A i \in RuleIds : ~ Refused(row, i)

(* Unless a query fails, a pass fails at a record it has come to, which    *)
(* was deleted under it or had a row that a rule applies to which the pass *)
(* cannot evaluate; every record before that one, and every record of a    *)
(* pass that returns, had by then a row that could be validated by all its *)
(* rules.  A rule that is inactive, or whose own conditions are unmet,     *)
(* fails no pass (validate_record.go 155-185, validate_table.go 69-87).    *)
FailureIsExplained ==
  /\ pc = "failed" /\ faults = 0 =>
       /\ setup.hasId
       /\ \E k \in DOMAIN ids, n \in DOMAIN past :
            /\ \/ past[n][ids[k]] = Absent /\ \E m \in 1 .. n - 1 : past[m][ids[k]] # Absent
               \/ \E i \in RuleIds : Refused(past[n][ids[k]], i)
            /\ \A l \in 1 .. k - 1 : \E row \in Seen(ids[l]) : Evaluable(row)
  /\ pc = "done" /\ setup.hasId =>
       \A l \in DOMAIN ids : \E row \in Seen(ids[l]) : Evaluable(row)

(* Every pass comes to an end, with a report or with an error.             *)
PassEnds == <>(pc \in {"done", "failed"})

(* "Execute validates all records in a table" (validate_table.go 44): a    *)
(* pass that returns a report has a result for each record and each rule   *)
(* that applies to it all the time.                                        *)
EveryRecordValidated ==
  pc = "done" =>
    \A x \in Records, i \in RuleIds :
      (TableOf[x] = Table /\ \A row \in Seen(x) : Validate(db, x, row, Rules[i]) # "none")
        => Reported(x, i) # {}

(* A relation-scoped condition gates its rule (condition.go 17-23) rather  *)
(* than failing the pass: with every validator registered, no query        *)
(* failing and nobody writing, the pass returns a report.                  *)
RelationGateEvaluated ==
  pc = "failed" => \/ faults > 0 \/ writes > 0
                   \/ \E i \in RuleIds : ~ Registered(i)
=============================================================================
