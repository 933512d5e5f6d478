--------------------------- MODULE TablePassProofs ---------------------------
(***************************************************************************)
(* What a table pass reports, for every database, rule list and setup, and *)
(* any number of concurrent writes and failing queries; and first, what    *)
(* the labels of a rule become on their way to the report and, through a   *)
(* row of validation_results, to a reader of that row.                     *)
(***************************************************************************)
EXTENDS TablePass, FiniteSetTheorems, TLAPS

(* Appending adds the one element at the end.                              *)
LEMMA Appended ==
  ASSUME NEW S, NEW s \in Seq(S), NEW x \in S
  PROVE  /\ Append(s, x) \in Seq(S)
         /\ \A k \in DOMAIN Append(s, x) :
              \/ Append(s, x)[k] = x
              \/ k \in DOMAIN s /\ Append(s, x)[k] = s[k]
BY SMT

(* A rule's result carries labels that the code knows: its enforcement and *)
(* severity are always set, and the legacy field repeats the severity.     *)
LEMMA NewResultIsLabelled ==
  ASSUME NEW labels \in Labels
  PROVE  /\ NewResult(labels) \in Labels
         /\ NewResult(labels).enforcement \in Enforcements
         /\ NewResult(labels).severity \in Severities
         /\ NewResult(labels).validationType = NewResult(labels).severity
<1>1. EffectiveEnforcement(labels) \in Enforcements
  BY DEF EffectiveEnforcement, Enforcements
<1>2. EffectiveSeverity(labels) \in Severities
  BY DEF EffectiveSeverity, DefaultSeverityFor, Severities
<1> QED
  BY <1>1, <1>2 DEF NewResult, Labels, LegacyLabels

(* The failures that the report counts as hard (result.go 71-85) are those *)
(* of the rules enforced hard, whatever severity they are shown with.      *)
THEOREM HardFailureFollowsEnforcement ==
  ASSUME NEW labels \in Labels
  PROVE  IsHardFailure(NewResult(labels)) <=> EffectiveEnforcement(labels) = "hard"
<1>1. NewResult(labels).enforcement = EffectiveEnforcement(labels)
  BY DEF NewResult
<1>2. EffectiveEnforcement(labels) \in Enforcements
  BY DEF EffectiveEnforcement, Enforcements
<1> QED
  BY <1>1, <1>2 DEF IsHardFailure

(* A rule leaves its severity to the default of its enforcement: it sets   *)
(* no severity, and its legacy type does not set one against an explicit   *)
(* enforcement.                                                            *)
LeavesSeverity(labels) ==
  /\ labels.severity \notin Severities
  /\ \/ labels.enforcement \notin Enforcements
     \/ labels.validationType \notin Severities \cup {"warning"}

(* A reader that has only the row's validation_type (result.go 71-76,      *)
(* IsError of a legacy result) still tells hard failures from soft ones,   *)
(* for the rules that leave their severity to the default.                 *)
THEOREM LegacyReaderAgrees ==
  ASSUME NEW labels \in Labels, LeavesSeverity(labels)
  PROVE  IsHardFailure(Persisted(NewResult(labels))) <=>
           EffectiveEnforcement(labels) = "hard"
<1> DEFINE row == Persisted(NewResult(labels))
<1>1. /\ row.enforcement = "" /\ row.severity = ""
      /\ row.validationType = EffectiveSeverity(labels)
  BY DEF Persisted, NewResult
<1>2. EffectiveSeverity(labels) \in Severities
  BY DEF EffectiveSeverity, DefaultSeverityFor, Severities
<1>3. IsHardFailure(row) <=> EffectiveSeverity(labels) = "error"
  <2>1. ResultSeverity(row) = EffectiveSeverity(labels)
    BY <1>1, <1>2 DEF ResultSeverity, Severities
  <2> QED
    BY <1>1, <2>1 DEF IsHardFailure, IsError, Enforcements
<1>4. EffectiveSeverity(labels) = "error" <=> EffectiveEnforcement(labels) = "hard"
  <2>1. CASE labels.validationType \in Severities \cup {"warning"}
    BY <2>1 DEF LeavesSeverity, EffectiveSeverity, EffectiveEnforcement,
                Severities, Enforcements
  <2>2. CASE labels.validationType \notin Severities \cup {"warning"}
    BY <2>2 DEF LeavesSeverity, EffectiveSeverity, EffectiveEnforcement,
                DefaultSeverityFor, Severities, Enforcements
  <2> QED
    BY <2>1, <2>2
<1> QED
  BY <1>3, <1>4

-----------------------------------------------------------------------------
(* Where the pass is, and what it has seen.                                *)
PassBooks ==
  /\ db = past[Len(past)]
  /\ pc \in {"rules", "records"} => pos = 1 /\ report = EmptyReport
  /\ IsInjective(ids) /\ \A k \in DOMAIN ids : TableOf[ids[k]] = Table
  /\ pc = "validate" => /\ pos <= Len(ids) /\ setup.hasId
                        /\ loaded # Absent /\ \E n \in DOMAIN past : past[n][ids[pos]] = loaded
  /\ pc = "done" => pos > Len(ids)

(* The results of the current record.                                      *)
LocalBooks ==
  pc = "validate" => \A k \in DOMAIN local : local[k].record = ids[pos] /\ local[k].rule < rule

(* Every result carries the labels of its rule.                            *)
Labelled ==
  \A r \in ToSet(local) \cup ToSet(report.results) : r.labels = NewResult(RuleLabels[r.rule])

IInv == TypeOK /\ PassBooks /\ LocalBooks /\ Labelled

(* The primary keys of a finite set, each once.                            *)
LEMMA Enumerated ==
  ASSUME NEW T, IsFiniteSet(T)
  PROVE  /\ SetToSeq(T) \in Seq(T)
         /\ IsInjective(SetToSeq(T))
         /\ ToSet(SetToSeq(T)) = T
<1> DEFINE n == Cardinality(T)
           s == SetToSeq(T)
<1>1. n \in Nat /\ ExistsBijection(1 .. n, T)
  BY FS_CardinalityType
<1>2. s \in [1 .. n -> T] /\ IsInjective(s)
  <2>1. \E f \in [1 .. n -> T] : IsInjective(f)
    BY <1>1 DEF ExistsBijection, Bijection, Injection
  <2> QED BY <2>1 DEF SetToSeq
<1>3. s \in Seq(T) /\ DOMAIN s = 1 .. n
  BY <1>1, <1>2, SMT
<1>4. IsFiniteSet(1 .. n) /\ Cardinality(1 .. n) = n
  BY <1>1, FS_Interval, SMT
<1>5. s \in Injection(1 .. n, T)
  BY <1>2 DEF Injection
<1>6. s \in Surjection(1 .. n, T)
  BY <1>4, <1>5, FS_Injection
<1>7. ToSet(s) = T
  BY <1>3, <1>6 DEF ToSet, Surjection
<1> QED
  BY <1>2, <1>3, <1>7

(* A set of positions in a sequence can be counted.                        *)
LEMMA Positions ==
  ASSUME NEW n \in Nat, NEW A \in SUBSET (1 .. n)
  PROVE  /\ IsFiniteSet(A) /\ Cardinality(A) \in Nat /\ Cardinality(A) <= n
         /\ Cardinality(1 .. n) = n
<1>1. IsFiniteSet(1 .. n) /\ Cardinality(1 .. n) = n
  BY FS_Interval, SMT
<1> QED
  BY <1>1, FS_Subset, FS_CardinalityType

(* The results that pass, that fail hard and the others make up all.       *)
LEMMA Counts ==
  ASSUME NEW s \in Seq(Outcomes)
  PROVE  /\ Len(s) \in Nat /\ Passes(s) \in Nat /\ HardFailures(s) \in Nat
         /\ Len(s) - Passes(s) \in Nat
         /\ Len(s) - Passes(s) - HardFailures(s) \in Nat
<1> DEFINE A == {k \in DOMAIN s : s[k].passed}
           B == {k \in DOMAIN s : ~ s[k].passed /\ IsHardFailure(s[k].labels)}
<1>1. Len(s) \in Nat /\ DOMAIN s = 1 .. Len(s)
  BY SMT
<1>2. A \in SUBSET (1 .. Len(s)) /\ B \in SUBSET (1 .. Len(s)) /\ A \cap B = {}
  BY <1>1
<1>3. A \cup B \in SUBSET (1 .. Len(s))
  BY <1>2
<1>a. Passes(s) = Cardinality(A) /\ HardFailures(s) = Cardinality(B)
  BY DEF Passes, HardFailures
<1> HIDE DEF A, B
<1>4. Cardinality(A) \in Nat /\ Cardinality(B) \in Nat /\ IsFiniteSet(A) /\ IsFiniteSet(B)
      /\ Cardinality(A \cup B) <= Len(s)
  BY <1>1, <1>2, <1>3, Positions
<1>5. Cardinality(A \cup B) = Cardinality(A) + Cardinality(B) - Cardinality(A \cap B)
  BY <1>4, FS_Union
<1>6. Cardinality(A \cap B) = 0
  BY <1>2, FS_EmptySet
<1> QED
  BY <1>1, <1>4, <1>5, <1>6, <1>a, SMT

(* What two sequences hold together.                                       *)
LEMMA ConcatRange ==
  ASSUME NEW T, NEW s \in Seq(T), NEW t \in Seq(T)
  PROVE  ToSet(s \o t) = ToSet(s) \cup ToSet(t)
<1>1. /\ DOMAIN s = 1 .. Len(s) /\ DOMAIN t = 1 .. Len(t) /\ Len(s) \in Nat /\ Len(t) \in Nat
      /\ DOMAIN (s \o t) = 1 .. Len(s) + Len(t)
      /\ \A k \in 1 .. Len(s) : (s \o t)[k] = s[k]
      /\ \A k \in 1 .. Len(t) : (s \o t)[Len(s) + k] = t[k]
  BY SMT
<1>2. \A k \in DOMAIN (s \o t) : k \in DOMAIN s \/ (k - Len(s) \in DOMAIN t /\ k = Len(s) + (k - Len(s)))
  BY <1>1, SMT
<1>3. \A k \in DOMAIN t : Len(s) + k \in DOMAIN (s \o t)
  BY <1>1, SMT
<1>4. \A k \in DOMAIN s : k \in DOMAIN (s \o t)
  BY <1>1, SMT
<1> QED
  BY <1>1, <1>2, <1>3, <1>4 DEF ToSet

(* The row a record has is a row or none.                                  *)
LEMMA Held == TypeOK => \A x \in Records : db[x] \in Rows \cup {Absent}
  BY DEF TypeOK, Databases

(* The history ends with the database as it is.                            *)
LEMMA PastEnds ==
  ASSUME TypeOK, PassBooks
  PROVE  /\ Len(past) \in DOMAIN past /\ DOMAIN past = 1 .. Len(past) /\ Len(past) \in Nat
         /\ past[Len(past)] = db /\ \A n \in DOMAIN past : n <= Len(past)
         /\ \A n \in DOMAIN past : past[n] \in Databases
         /\ \A x \in Records : db[x] \in Seen(x)
<1>1. /\ DOMAIN past = 1 .. Len(past) /\ Len(past) \in Nat /\ Len(past) >= 1
      /\ \A n \in DOMAIN past : past[n] \in Databases
  BY PassAssumption, SMT DEF TypeOK
<1>2. Len(past) \in DOMAIN past /\ \A n \in DOMAIN past : n <= Len(past)
  BY <1>1, SMT
<1>3. past[Len(past)] = db
  BY DEF PassBooks
<1> QED
  BY <1>1, <1>2, <1>3 DEF Seen

(* A write adds the database it makes to the history.                      *)
LEMMA WriteExtends ==
  ASSUME TypeOK, NEW x \in Records, NEW row \in Rows \cup {Absent}, Write(x, row)
  PROVE  /\ db' \in Databases /\ past' \in Seq(Databases) /\ Len(past') = Len(past) + 1
         /\ past'[Len(past')] = db' /\ DOMAIN past \subseteq DOMAIN past'
         /\ \A n \in DOMAIN past : past'[n] = past[n]
         /\ \A y \in Records : Seen(y) \subseteq Seen(y)'
<1>1. db' \in Databases
  BY DEF Write, TypeOK, Databases
<1>2. past' = Append(past, db') /\ past \in Seq(Databases)
  BY DEF Write, TypeOK
<1>3. /\ past' \in Seq(Databases) /\ Len(past') = Len(past) + 1
      /\ past'[Len(past')] = db' /\ DOMAIN past \subseteq DOMAIN past'
      /\ \A n \in DOMAIN past : past'[n] = past[n]
  BY <1>1, <1>2, SMT
<1> QED
  BY <1>1, <1>3 DEF Seen

(* A pass starts in order.                                                 *)
LEMMA InitBooks == Init => IInv
<1> SUFFICES ASSUME Init PROVE IInv
  OBVIOUS
<1>1. DOMAIN <<>> = {} /\ Len(<<>>) = 0 /\ \A T : <<>> \in Seq(T)
  BY SMT
<1>2. Len(Rules) \in Nat
  BY RulesAssumption, SMT
<1>3. TypeOK
  <2>1. past \in Seq(Databases) /\ Len(past) = 1
    BY SMT DEF Init
  <2> QED BY <1>1, <1>2, <2>1, PassAssumption, SMT DEF Init, TypeOK, EmptyReport
<1>4. PassBooks
  <2>1. past[Len(past)] = db
    BY SMT DEF Init
  <2> QED BY <1>1, <2>1 DEF Init, PassBooks, IsInjective
<1>5. LocalBooks /\ Labelled
  BY <1>1 DEF Init, LocalBooks, Labelled, EmptyReport, ToSet
<1> QED
  BY <1>3, <1>4, <1>5 DEF IInv

(* An error return keeps them.                                             *)
LEMMA AbortBooks ==
  ASSUME IInv, Abort, faults' \in 0 .. MaxFaults
  PROVE  IInv'
<1>1. DOMAIN <<>> = {} /\ \A T : <<>> \in Seq(T)
  BY SMT
<1>2. TypeOK'
  BY <1>1, SMT DEF IInv, TypeOK, Abort, env, EmptyReport
<1>3. PassBooks' /\ LocalBooks'
  BY DEF IInv, PassBooks, LocalBooks, Abort, env
<1>4. Labelled'
  BY <1>1 DEF IInv, Labelled, Abort, EmptyReport, ToSet
<1> QED
  BY <1>2, <1>3, <1>4 DEF IInv

(* Every step of a pass keeps them.                                        *)
LEMMA StepBooks == IInv /\ [Next]_vars => IInv'
<1> SUFFICES ASSUME IInv, [Next]_vars PROVE IInv'
  OBVIOUS
<1>a. TypeOK /\ PassBooks /\ LocalBooks /\ Labelled
  BY DEF IInv
<1>b. faults \in 0 .. MaxFaults /\ faults \in Nat /\ MaxFaults \in Nat /\ MaxWrites \in Nat
  BY <1>a, PassAssumption, SMT DEF TypeOK
<1>c. Len(ids) \in Nat /\ DOMAIN ids = 1 .. Len(ids) /\ \A k \in DOMAIN ids : ids[k] \in Records
  BY <1>a, SMT DEF TypeOK
<1>d. Len(Rules) \in Nat /\ rule \in Nat /\ rule >= 1 /\ pos \in Nat /\ pos >= 1
  BY <1>a, <1>c, RulesAssumption, SMT DEF TypeOK
<1>e. \A k \in DOMAIN local : local[k].rule \in Nat
  <2>1. local \in Seq(Outcomes) /\ \A o \in Outcomes : o.rule \in RuleIds
    BY <1>a DEF TypeOK, Outcomes
  <2>2. \A k \in DOMAIN local : local[k] \in Outcomes
    BY <2>1, SMT
  <2>3. RuleIds \subseteq Nat
    BY <1>d, SMT DEF RuleIds
  <2> QED BY <2>1, <2>2, <2>3
<1>1. ASSUME NEW x \in Records, NEW row \in Rows \cup {Absent}, Write(x, row)
      PROVE  IInv'
  <2>1. db' \in Databases /\ past' \in Seq(Databases)
    BY <1>1, <1>a, WriteExtends
  <2>2. Len(past') = writes' + 1
    BY <1>1, <1>a, WriteExtends DEF Write, TypeOK
  <2>3. writes' \in 0 .. MaxWrites
    BY <1>1, <1>a, <1>b, SMT DEF Write, TypeOK
  <2>4. TypeOK'
    BY <1>1, <1>a, <2>1, <2>2, <2>3 DEF Write, TypeOK
  <2>5. /\ db' = past'[Len(past')] /\ DOMAIN past \subseteq DOMAIN past'
        /\ \A n \in DOMAIN past : past'[n] = past[n]
    BY <1>1, <1>a, WriteExtends
  <2>6. PassBooks'
    BY <1>1, <1>a, <1>c, <1>d, <2>5, SMT DEF Write, PassBooks
  <2>7. LocalBooks' /\ Labelled'
    BY <1>1, <1>a DEF Write, LocalBooks, Labelled
  <2> QED BY <2>4, <2>6, <2>7 DEF IInv
<1>2. CASE Fault
  <2>1. faults' \in 0 .. MaxFaults
    BY <1>2, <1>b, SMT DEF Fault
  <2> QED BY <1>2, <2>1, AbortBooks DEF Fault
<1>3. CASE LoadRules
  BY <1>3, <1>a DEF LoadRules, env, IInv, TypeOK, PassBooks, LocalBooks, Labelled
<1>4. CASE LoadAllRecords
  <2> DEFINE mine == {x \in Records : TableOf[x] = Table /\ db[x] # Absent}
  <2>1. IsFiniteSet(mine)
    BY RecordsAssumption, FS_Subset
  <2>2. ids' \in Seq(mine) /\ IsInjective(ids') /\ ToSet(ids') = mine
    BY <1>4, <2>1, Enumerated DEF LoadAllRecords
  <2>3. ids' \in Seq(Records) /\ \A k \in DOMAIN ids' : TableOf[ids'[k]] = Table
    <3>1. mine \subseteq Records /\ \A x \in mine : TableOf[x] = Table
      OBVIOUS
    <3> HIDE DEF mine
    <3> QED BY <2>2, <3>1, SMT
  <2>4. TypeOK'
    <3>1. pos' = 1 /\ Len(ids') \in Nat
      BY <1>4, <1>a, <2>3, SMT DEF LoadAllRecords, PassBooks
    <3>2. pos' \in 1 .. Len(ids') + 1
      BY <3>1, SMT
    <3> QED BY <1>4, <1>a, <2>3, <3>2 DEF LoadAllRecords, env, TypeOK
  <2>5. PassBooks'
    BY <1>4, <1>a, <2>2, <2>3 DEF LoadAllRecords, env, PassBooks
  <2> QED BY <1>4, <1>a, <2>4, <2>5 DEF LoadAllRecords, env, IInv, LocalBooks, Labelled
<1>5. CASE SkipRecord
  <2>1. pos' \in 1 .. Len(ids) + 1
    BY <1>5, <1>c, <1>d, SMT DEF SkipRecord, Exhausted, Advance
  <2> QED BY <1>5, <1>a, <2>1 DEF SkipRecord, env, IInv, TypeOK, PassBooks, LocalBooks, Labelled
<1>6. CASE LoadRecord
  <2>1. pos \in DOMAIN ids
    BY <1>6, <1>c, <1>d, SMT DEF LoadRecord, Exhausted
  <2>2. ids[pos] \in Records /\ loaded' \in (Rows \cup {Absent}) /\ loaded' # Absent
        /\ Len(past) \in DOMAIN past /\ past[Len(past)][ids[pos]] = loaded'
    BY <1>6, <1>a, <1>c, <2>1, Held, PastEnds DEF LoadRecord
  <2>3. rule' \in 1 .. Len(Rules) + 1 /\ local' \in Seq(Outcomes) /\ DOMAIN local' = {}
    BY <1>6, <1>d, SMT DEF LoadRecord
  <2>4. TypeOK'
    BY <1>6, <1>a, <2>2, <2>3 DEF LoadRecord, env, TypeOK
  <2>5. PassBooks'
    BY <1>6, <1>a, <1>c, <1>d, <2>1, <2>2, SMT DEF LoadRecord, env, PassBooks
  <2>6. LocalBooks' /\ Labelled'
    BY <1>6, <1>a, <2>3 DEF LoadRecord, env, LocalBooks, Labelled, ToSet
  <2> QED BY <2>4, <2>5, <2>6 DEF IInv
<1>7. CASE RecordGone
  BY <1>7, <1>b, AbortBooks DEF RecordGone
<1>8. CASE SkipRule
  <2>1. rule' \in 1 .. Len(Rules) + 1 /\ rule' > rule
    BY <1>8, <1>d, SMT DEF SkipRule
  <2>2. TypeOK' /\ PassBooks' /\ Labelled'
    BY <1>8, <1>a, <2>1 DEF SkipRule, env, TypeOK, PassBooks, Labelled
  <2>3. LocalBooks'
    BY <1>8, <1>a, <1>d, <1>e, <2>1, SMT DEF SkipRule, env, LocalBooks
  <2> QED BY <2>2, <2>3 DEF IInv
<1>9. CASE RuleError
  BY <1>9, <1>b, AbortBooks DEF RuleError
<1>10. CASE ValidateRule
  <2> DEFINE new == [record |-> ids[pos], rule |-> rule,
                     passed |-> Validate(db, ids[pos], loaded, Rules[rule]) = "pass",
                     labels |-> NewResult(RuleLabels[rule])]
  <2>1. pos \in DOMAIN ids /\ rule \in RuleIds
    BY <1>10, <1>a, <1>c, <1>d, SMT DEF ValidateRule, PassBooks, RuleIds
  <2>2. new \in Outcomes
    BY <1>c, <2>1, PassAssumption, NewResultIsLabelled DEF Outcomes
  <2>3. new.record = ids[pos] /\ new.rule = rule /\ new.labels = NewResult(RuleLabels[new.rule])
    OBVIOUS
  <2>4. local' = Append(local, new) /\ rule' = rule + 1
        /\ UNCHANGED <<env, pc, ids, pos, loaded, report, faults>> /\ pc = "validate"
    BY <1>10 DEF ValidateRule
  <2> HIDE DEF new
  <2>5. local' \in Seq(Outcomes)
        /\ \A k \in DOMAIN local' : \/ local'[k] = new
                                    \/ k \in DOMAIN local /\ local'[k] = local[k]
    <3>1. local \in Seq(Outcomes)
      BY <1>a DEF TypeOK
    <3> QED BY <2>2, <2>4, <3>1, Appended
  <2>6. rule' \in 1 .. Len(Rules) + 1
    BY <1>d, <2>1, <2>4, SMT DEF RuleIds
  <2>7. TypeOK'
    BY <1>a, <2>4, <2>5, <2>6 DEF env, TypeOK
  <2>8. PassBooks'
    BY <1>a, <2>4 DEF env, PassBooks
  <2>9. LocalBooks'
    BY <1>a, <1>d, <1>e, <2>3, <2>4, <2>5, SMT DEF env, LocalBooks
  <2>10. Labelled'
    BY <1>a, <2>3, <2>4, <2>5 DEF env, Labelled, ToSet
  <2> QED BY <2>7, <2>8, <2>9, <2>10 DEF IInv
<1>11. CASE Aggregate
  <2>1. Passes(local) \in Nat /\ HardFailures(local) \in Nat
        /\ Len(local) - Passes(local) \in Nat
        /\ Len(local) - Passes(local) - HardFailures(local) \in Nat
    BY <1>a, Counts DEF TypeOK
  <2>2. report.results \in Seq(Outcomes) /\ local \in Seq(Outcomes)
        /\ report.passed \in Nat /\ report.failed \in Nat /\ report.hard \in Nat /\ report.soft \in Nat
    BY <1>a DEF TypeOK
  <2>3. report' = [results |-> report.results \o local,
                   passed |-> report.passed + Passes(local),
                   failed |-> report.failed + (Len(local) - Passes(local)),
                   hard |-> report.hard + HardFailures(local),
                   soft |-> report.soft + (Len(local) - Passes(local)) - HardFailures(local)]
    BY <1>11 DEF Aggregate
  <2>4. report' \in [results : Seq(Outcomes), passed : Nat, failed : Nat, hard : Nat, soft : Nat]
    <3>1. report.results \o local \in Seq(Outcomes)
      BY <2>2, SMT
    <3> DEFINE n == Len(local)
               p == Passes(local)
               h == HardFailures(local)
    <3>2. n \in Nat /\ p \in Nat /\ h \in Nat /\ n - p \in Nat /\ n - p - h \in Nat
      BY <2>1, <2>2, SMT
    <3> HIDE DEF n, p, h
    <3>3. /\ report.passed + p \in Nat
          /\ report.failed + (n - p) \in Nat
          /\ report.hard + h \in Nat
          /\ report.soft + (n - p) - h \in Nat
      BY <2>2, <3>2, SMT
    <3> QED BY <2>3, <3>1, <3>3 DEF n, p, h
  <2>5. pos' \in 1 .. Len(ids) + 1
    BY <1>11, <1>a, <1>c, <1>d, SMT DEF Aggregate, Advance, PassBooks
  <2>6. TypeOK'
    BY <1>11, <1>a, <2>4, <2>5 DEF Aggregate, env, TypeOK
  <2>7. PassBooks' /\ LocalBooks'
    BY <1>11, <1>a DEF Aggregate, env, PassBooks, LocalBooks
  <2>8. Labelled'
    <3>1. ToSet(report.results \o local) = ToSet(report.results) \cup ToSet(local)
      BY <2>2, ConcatRange
    <3> QED BY <1>11, <1>a, <2>3, <3>1 DEF Aggregate, Labelled
  <2> QED BY <2>6, <2>7, <2>8 DEF IInv
<1>12. CASE Return
  BY <1>12, <1>a, <1>c, <1>d, SMT DEF Return, Exhausted, env, IInv, TypeOK, PassBooks, LocalBooks, Labelled
<1>13. CASE Ended \/ UNCHANGED vars
  BY <1>13, <1>a DEF Ended, vars, IInv, TypeOK, PassBooks, LocalBooks, Labelled
<1> QED
  BY <1>1, <1>2, <1>3, <1>4, <1>5, <1>6, <1>7, <1>8, <1>9, <1>10, <1>11, <1>12, <1>13
  DEF Next, Pass

(* A pass keeps its place in the list of records and in the list of rules, *)
(* and its counters never run below zero, whatever is written meanwhile.   *)
THEOREM TypeCorrect == Spec => []TypeOK
<1>1. IInv => TypeOK
  BY DEF IInv
<1> QED
  BY <1>1, InitBooks, StepBooks, PTL DEF Spec

-----------------------------------------------------------------------------
(* What writing does to the history, and every other step does not.        *)
LEMMA HistoryGrows ==
  ASSUME IInv, [Next]_vars
  PROVE  /\ \A x \in Records : Seen(x) \subseteq Seen(x)'
         /\ DOMAIN past \subseteq DOMAIN past' /\ \A n \in DOMAIN past : past'[n] = past[n]
<1>1. CASE \E x \in Records, row \in Rows \cup {Absent} : Write(x, row)
  BY <1>1, WriteExtends DEF IInv
<1>2. CASE Pass \/ Fault \/ Ended \/ UNCHANGED vars
  <2>1. past' = past
    BY <1>2 DEF Pass, Fault, Ended, vars, LoadRules, LoadAllRecords, SkipRecord, LoadRecord,
                RecordGone, SkipRule, RuleError, ValidateRule, Aggregate, Return, Abort, env
  <2> QED BY <2>1 DEF Seen
<1> QED
  BY <1>1, <1>2 DEF Next

(* The record at l has had a row that all its rules can validate.          *)
Passable(l) == \E row \in Seen(ids[l]) : Evaluable(row)

(* How far a pass has come: its records have all been there, those behind  *)
(* it could be validated, and so could the rules behind it on the row.     *)
Reached ==
  /\ \A k \in DOMAIN ids : \E m \in DOMAIN past : past[m][ids[k]] # Absent
  /\ setup.hasId => \A l \in 1 .. pos - 1 : Passable(l)
  /\ pc = "validate" => \A j \in RuleIds : j < rule => ~ Refused(loaded, j)

(* A row that has been had has been had ever since, and what a rule makes  *)
(* of it does not change.                                                  *)
LEMMA StaysPassable ==
  ASSUME IInv, [Next]_vars
  PROVE  /\ setup' = setup
         /\ \A row, j : Refused(row, j)' <=> Refused(row, j)
         /\ \A l \in DOMAIN ids : ids'[l] = ids[l] /\ Passable(l) => Passable(l)'
<1>1. setup' = setup
  BY DEF Next, Pass, Fault, Ended, vars, LoadRules, LoadAllRecords, SkipRecord, LoadRecord,
         RecordGone, SkipRule, RuleError, ValidateRule, Aggregate, Return, Abort, env, Write
<1>2. \A row, j : Refused(row, j)' <=> Refused(row, j)
  BY <1>1 DEF Refused, Registered
<1>3. \A row : Evaluable(row)' <=> Evaluable(row)
  BY <1>2 DEF Evaluable
<1>4. ASSUME NEW l \in DOMAIN ids, ids'[l] = ids[l], Passable(l) PROVE Passable(l)'
  <2>1. PICK n \in DOMAIN past : Evaluable(past[n][ids[l]])
    BY <1>4 DEF Passable, Seen
  <2>2. PICK row : row = past[n][ids[l]]
    OBVIOUS
  <2>3. n \in DOMAIN past' /\ past'[n][ids'[l]] = row
    BY <1>4, <2>2, HistoryGrows
  <2>4. Evaluable(row)'
    BY <1>3, <2>1, <2>2
  <2> QED BY <2>3, <2>4 DEF Passable, Seen
<1> QED
  BY <1>1, <1>2, <1>4

(* Every step of a pass leaves behind only what could be validated.        *)
LEMMA ReachedStep == IInv /\ Reached /\ [Next]_vars => Reached'
<1> SUFFICES ASSUME IInv, Reached, [Next]_vars PROVE Reached'
  OBVIOUS
<1>a. TypeOK /\ PassBooks
  BY DEF IInv
<1>b. Len(ids) \in Nat /\ DOMAIN ids = 1 .. Len(ids) /\ pos \in 1 .. Len(ids) + 1
      /\ 1 .. pos - 1 \subseteq DOMAIN ids
  BY <1>a, SMT DEF TypeOK
<1>c. Len(Rules) \in Nat /\ rule \in Nat /\ RuleIds \subseteq Nat
      /\ \A j \in RuleIds : j <= Len(Rules)
  BY <1>a, RulesAssumption, SMT DEF TypeOK, RuleIds
<1>d. /\ setup' = setup
      /\ \A row, j : Refused(row, j)' <=> Refused(row, j)
      /\ \A l \in DOMAIN ids : ids'[l] = ids[l] /\ Passable(l) => Passable(l)'
  BY StaysPassable
<1>e. ASSUME ids' = ids, pos' = pos,
             pc' = "validate" => pc = "validate" /\ rule' = rule /\ loaded' = loaded
      PROVE  Reached'
  <2>1. \A k \in DOMAIN ids' : \E m \in DOMAIN past' : past'[m][ids'[k]] # Absent
    BY <1>e, HistoryGrows DEF Reached
  <2>2. setup'.hasId => \A l \in 1 .. pos' - 1 : Passable(l)'
    BY <1>b, <1>d, <1>e DEF Reached
  <2>3. pc' = "validate" => \A j \in RuleIds : j < rule' => ~ Refused(loaded, j)'
    BY <1>d, <1>e DEF Reached, Refused, Registered
  <2> QED BY <2>1, <2>2, <2>3 DEF Reached
<1>1. CASE \E x \in Records, row \in Rows \cup {Absent} : Write(x, row)
  BY <1>1, <1>e DEF Write
<1>2. CASE Fault \/ RecordGone \/ RuleError
  BY <1>2, <1>e DEF Fault, RecordGone, RuleError, Abort
<1>3. CASE LoadRules \/ Return \/ Ended \/ UNCHANGED vars
  BY <1>3, <1>e DEF LoadRules, Return, Ended, vars
<1>4. CASE LoadAllRecords
  <2>1. pos' = 1 /\ pc' = "next" /\ past' = past /\ 1 .. pos' - 1 = {}
    BY <1>4, <1>a, SMT DEF LoadAllRecords, PassBooks, env
  <2>2. IsFiniteSet({x \in Records : TableOf[x] = Table /\ db[x] # Absent})
    BY RecordsAssumption, FS_Subset
  <2>3. \A k \in DOMAIN ids' : db[ids'[k]] # Absent
    BY <1>4, <2>2, Enumerated DEF LoadAllRecords, ToSet
  <2>4. Len(past) \in DOMAIN past /\ past[Len(past)] = db
    BY <1>a, PastEnds
  <2> QED BY <2>1, <2>3, <2>4 DEF Reached
<1>5. CASE SkipRecord
  <2>1. ids' = ids /\ past' = past /\ ~ setup.hasId /\ pc' = "next"
    BY <1>5 DEF SkipRecord, env
  <2> QED BY <1>d, <2>1 DEF Reached
<1>6. CASE LoadRecord
  <2>1. ids' = ids /\ past' = past /\ pos' = pos /\ rule' = 1
    BY <1>6 DEF LoadRecord, env
  <2>2. \A j \in RuleIds : ~ (j < rule')
    BY <2>1, <1>c, SMT DEF RuleIds
  <2>3. setup'.hasId => \A l \in 1 .. pos' - 1 : Passable(l)'
    BY <1>b, <1>d, <2>1 DEF Reached
  <2> QED BY <2>1, <2>2, <2>3 DEF Reached
<1>7. CASE SkipRule \/ ValidateRule
  <2>1. /\ ids' = ids /\ past' = past /\ pos' = pos /\ rule' = rule + 1 /\ loaded' = loaded
        /\ pc = "validate" /\ rule <= Len(Rules)
    BY <1>7 DEF SkipRule, ValidateRule, env
  <2>2. ~ Refused(loaded, rule)
    BY <1>7 DEF SkipRule, ValidateRule, Considered, Errors, Refused
  <2>3. \A j \in RuleIds : j < rule' => j < rule \/ j = rule
    BY <1>c, <2>1, SMT
  <2>4. \A j \in RuleIds : j < rule' => ~ Refused(loaded, j)'
    BY <1>d, <2>1, <2>2, <2>3 DEF Reached, Refused, Registered
  <2>5. setup'.hasId => \A l \in 1 .. pos' - 1 : Passable(l)'
    BY <1>b, <1>d, <2>1 DEF Reached
  <2> QED BY <2>1, <2>4, <2>5 DEF Reached
<1>8. CASE Aggregate
  <2>1. /\ ids' = ids /\ past' = past /\ pos' = pos + 1 /\ pc' = "next"
        /\ pc = "validate" /\ rule > Len(Rules)
    BY <1>8 DEF Aggregate, Advance, env
  <2>2. pos \in DOMAIN ids /\ loaded \in Seen(ids[pos]) /\ loaded # Absent
    BY <1>a, <1>b, <2>1, SMT DEF PassBooks, Seen
  <2>3. \A j \in RuleIds : ~ Refused(loaded, j)
    <3>1. \A j \in RuleIds : j < rule
      BY <1>c, <2>1, SMT
    <3> QED BY <2>1, <3>1 DEF Reached
  <2>4. Passable(pos)
    BY <2>2, <2>3 DEF Passable, Evaluable
  <2>5. \A l \in 1 .. pos' - 1 : l \in DOMAIN ids /\ (l = pos \/ l \in 1 .. pos - 1)
    BY <1>b, <2>1, <2>2, SMT
  <2>6. setup'.hasId => \A l \in 1 .. pos' - 1 : Passable(l)'
    BY <1>d, <2>1, <2>4, <2>5 DEF Reached
  <2> QED BY <2>1, <2>6 DEF Reached
<1> QED
  BY <1>1, <1>2, <1>3, <1>4, <1>5, <1>6, <1>7, <1>8 DEF Next, Pass

(* The place where a pass fails.                                           *)
FailsAt(k, n) ==
  /\ k \in DOMAIN ids /\ n \in DOMAIN past
  /\ \/ past[n][ids[k]] = Absent /\ \E m \in 1 .. n - 1 : past[m][ids[k]] # Absent
     \/ \E i \in RuleIds : Refused(past[n][ids[k]], i)
  /\ \A l \in 1 .. k - 1 : Passable(l)

(* A pass fails at the record it has come to, and returns behind the last. *)
LEMMA FailureStep == IInv /\ Reached /\ FailureIsExplained /\ [Next]_vars => FailureIsExplained'
<1> SUFFICES ASSUME IInv, Reached, FailureIsExplained, [Next]_vars PROVE FailureIsExplained'
  OBVIOUS
<1>a. TypeOK /\ PassBooks
  BY DEF IInv
<1>b. Len(ids) \in Nat /\ DOMAIN ids = 1 .. Len(ids) /\ pos \in Nat /\ pos >= 1
      /\ \A k \in DOMAIN ids : ids[k] \in Records
  BY <1>a, SMT DEF TypeOK
<1>c. ASSUME setup.hasId, NEW n, FailsAt(pos, n), Abort PROVE FailureIsExplained'
  <2>1. /\ pc' = "failed" /\ setup' = setup /\ past' = past /\ ids' = ids
    BY <1>c DEF Abort, env
  <2>2. \A row, j : Refused(row, j)' <=> Refused(row, j)
    BY StaysPassable
  <2>3. \A l \in 1 .. pos - 1 : Passable(l)'
    <3>1. \A l \in 1 .. pos - 1 : l \in DOMAIN ids
      BY <1>b, <1>c, SMT DEF FailsAt
    <3> QED BY <1>c, <2>1, <3>1, StaysPassable DEF FailsAt
  <2>4. FailsAt(pos, n)'
    <3>1. PICK k : k = pos
      OBVIOUS
    <3>2. FailsAt(k, n)'
      BY <1>c, <2>1, <2>2, <2>3, <3>1 DEF FailsAt
    <3>3. pos' = pos
      BY <1>c DEF Abort
    <3> QED BY <3>1, <3>2, <3>3
  <2>5. \E k, m : FailsAt(k, m)'
    BY <2>4
  <2> QED BY <1>c, <2>1, <2>5 DEF FailureIsExplained, FailsAt, Passable
<1>1. CASE Fault
  <2>1. faults' # 0 /\ pc' = "failed"
    BY <1>1, <1>a, PassAssumption, SMT DEF Fault, TypeOK, Abort
  <2> QED BY <2>1 DEF FailureIsExplained
<1>2. CASE RecordGone
  <2>1. pos \in DOMAIN ids /\ setup.hasId /\ db[ids[pos]] = Absent /\ Abort
    BY <1>2, <1>b, SMT DEF RecordGone, Exhausted
  <2>2. /\ Len(past) \in DOMAIN past /\ past[Len(past)] = db /\ DOMAIN past = 1 .. Len(past)
        /\ Len(past) \in Nat
    BY <1>a, PastEnds
  <2>3. PICK m \in DOMAIN past : past[m][ids[pos]] # Absent
    BY <2>1 DEF Reached
  <2>4. m \in 1 .. Len(past) - 1
    <3>1. m # Len(past)
      BY <2>1, <2>2, <2>3
    <3> QED BY <2>2, <3>1, SMT
  <2>5. FailsAt(pos, Len(past))
    BY <2>1, <2>2, <2>3, <2>4 DEF FailsAt, Reached
  <2> QED BY <1>c, <2>1, <2>5
<1>3. CASE RuleError
  <2>1. /\ rule \in RuleIds /\ pos \in DOMAIN ids /\ setup.hasId /\ Abort
        /\ loaded \in Seen(ids[pos]) /\ loaded # Absent
    BY <1>3, <1>a, <1>b, RulesAssumption, SMT DEF RuleError, TypeOK, PassBooks, RuleIds, Seen
  <2>2. Refused(loaded, rule)
    BY <1>3, <2>1 DEF RuleError, Errors, Considered, Refused
  <2>3. PICK n \in DOMAIN past : past[n][ids[pos]] = loaded
    BY <2>1 DEF Seen
  <2>4. FailsAt(pos, n)
    BY <2>1, <2>2, <2>3 DEF FailsAt, Reached
  <2> QED BY <1>c, <2>1, <2>4
<1>4. CASE Return
  <2>1. /\ pc' = "done" /\ ids' = ids /\ setup' = setup /\ DOMAIN ids \subseteq 1 .. pos - 1
    BY <1>4, <1>b, SMT DEF Return, Exhausted, env
  <2>2. setup.hasId => \A l \in DOMAIN ids : Passable(l)'
    BY <2>1, StaysPassable DEF Reached
  <2> QED BY <2>1, <2>2 DEF FailureIsExplained, Passable
<1>5. CASE Ended \/ UNCHANGED vars
  BY <1>5 DEF Ended, vars, FailureIsExplained, Refused, Evaluable, Registered, Seen
<1>6. CASE \/ LoadRules \/ LoadAllRecords \/ SkipRecord \/ LoadRecord
           \/ SkipRule \/ ValidateRule \/ Aggregate
  <2>1. pc' # "failed" /\ pc' # "done"
    BY <1>6 DEF LoadRules, LoadAllRecords, SkipRecord, LoadRecord, SkipRule, ValidateRule,
                Aggregate
  <2> QED BY <2>1 DEF FailureIsExplained
<1>7. CASE \E x \in Records, row \in Rows \cup {Absent} : Write(x, row)
  <2>1. pc' # "failed" /\ pc' # "done"
    BY <1>7 DEF Write
  <2> QED BY <2>1 DEF FailureIsExplained
<1> QED
  BY <1>1, <1>2, <1>3, <1>4, <1>5, <1>6, <1>7 DEF Next, Pass

(* Without a failing query, a pass fails at a record it has come to, which *)
(* was deleted under it or had a row that some rule applies to which it    *)
(* cannot evaluate; the records before that one, or all of them when it    *)
(* returns, had rows that their rules could validate.                      *)
THEOREM FailuresExplained == Spec => []FailureIsExplained
<1>1. Init => FailureIsExplained
  BY DEF Init, FailureIsExplained
<1>2. Init => Reached
  <2>1. DOMAIN <<>> = {} /\ 1 .. 1 - 1 = {}
    BY SMT
  <2> QED BY <2>1 DEF Init, Reached
<1> QED
  BY <1>1, <1>2, InitBooks, StepBooks, ReachedStep, FailureStep, PTL DEF Spec

-----------------------------------------------------------------------------
(* The results that fail a rule of enforcement e.                          *)
FailedAt(s, e) ==
  {k \in DOMAIN s : ~ s[k].passed /\ EffectiveEnforcement(RuleLabels[s[k].rule]) = e}

(* The report adds up, said of the positions above.                        *)
LEMMA AddsUp ==
  ReportAddsUp <=> /\ report.passed + report.failed = Len(report.results)
                   /\ report.hard = Cardinality(FailedAt(report.results, "hard"))
                   /\ report.soft = Cardinality(FailedAt(report.results, "soft"))
  BY DEF ReportAddsUp, FailedAt

(* The positions B, m places on.                                           *)
Shift(m, B) == {m + k : k \in B}

(* Positions of two sequences laid end to end are counted separately.      *)
LEMMA Shifted ==
  ASSUME NEW m \in Nat, NEW n \in Nat,
         NEW A \in SUBSET (1 .. m), NEW B \in SUBSET (1 .. n)
  PROVE  Cardinality(A \cup Shift(m, B)) = Cardinality(A) + Cardinality(B)
<1> DEFINE C == Shift(m, B)
           f == [k \in B |-> m + k]
<1>1. IsFiniteSet(A) /\ IsFiniteSet(B) /\ Cardinality(A) \in Nat /\ Cardinality(B) \in Nat
  BY Positions
<1>2. \A k \in B : k \in Nat /\ k >= 1
  BY SMT
<1>3. f \in Bijection(B, C)
  <2>1. f \in [B -> C] /\ \A y \in C : \E k \in B : f[k] = y
    BY DEF Shift
  <2>2. \A k, l \in B : f[k] = f[l] => k = l
    BY <1>2, SMT
  <2> QED BY <2>1, <2>2 DEF Bijection, Injection, Surjection, IsInjective
<1>5. A \cap C = {}
  BY <1>2, SMT DEF Shift
<1> HIDE DEF C, f
<1>4. IsFiniteSet(C) /\ Cardinality(C) = Cardinality(B)
  <2>1. ExistsBijection(B, C)
    BY <1>3 DEF ExistsBijection
  <2> QED BY <1>1, <2>1, FS_Bijection
<1>6. Cardinality(A \cup C) = Cardinality(A) + Cardinality(C) - Cardinality(A \cap C)
  BY <1>1, <1>4, FS_Union
<1>7. Cardinality(A \cap C) = 0
  BY <1>5, FS_EmptySet
<1>8. Cardinality(A \cup C) = Cardinality(A) + Cardinality(B)
  BY <1>1, <1>4, <1>6, <1>7, SMT
<1> QED
  BY <1>8 DEF C

(* The failures of two sequences of results together.                      *)
LEMMA FailedTogether ==
  ASSUME NEW s \in Seq(Outcomes), NEW t \in Seq(Outcomes), NEW e
  PROVE  /\ Cardinality(FailedAt(s \o t, e)) =
              Cardinality(FailedAt(s, e)) + Cardinality(FailedAt(t, e))
         /\ Cardinality(FailedAt(s, e)) \in Nat
<1> DEFINE A == FailedAt(s, e)
           B == FailedAt(t, e)
<1>1. /\ DOMAIN s = 1 .. Len(s) /\ DOMAIN t = 1 .. Len(t) /\ Len(s) \in Nat /\ Len(t) \in Nat
      /\ DOMAIN (s \o t) = 1 .. Len(s) + Len(t)
      /\ \A k \in 1 .. Len(s) : (s \o t)[k] = s[k]
      /\ \A k \in 1 .. Len(t) : (s \o t)[Len(s) + k] = t[k]
  BY SMT
<1>2. A \in SUBSET (1 .. Len(s)) /\ B \in SUBSET (1 .. Len(t))
  BY <1>1 DEF FailedAt
<1>3. FailedAt(s \o t, e) = A \cup Shift(Len(s), B)
  <2>1. ASSUME NEW k \in FailedAt(s \o t, e)
        PROVE  k \in A \cup Shift(Len(s), B)
    <3>1. k \in 1 .. Len(s) + Len(t)
      BY <1>1 DEF FailedAt
    <3>2. CASE k \in 1 .. Len(s)
      BY <1>1, <3>2 DEF FailedAt
    <3>3. CASE k \notin 1 .. Len(s)
      <4>1. k - Len(s) \in 1 .. Len(t) /\ k = Len(s) + (k - Len(s))
        BY <1>1, <3>1, <3>3, SMT
      <4>2. (s \o t)[k] = t[k - Len(s)]
        BY <1>1, <4>1
      <4>3. k - Len(s) \in B
        BY <1>1, <4>1, <4>2 DEF FailedAt
      <4> QED BY <4>1, <4>3 DEF Shift
    <3> QED BY <3>2, <3>3
  <2>2. ASSUME NEW k \in A PROVE k \in FailedAt(s \o t, e)
    <3>1. k \in 1 .. Len(s) /\ k \in 1 .. Len(s) + Len(t)
      BY <1>1, <1>2, SMT
    <3> QED BY <1>1, <3>1 DEF FailedAt
  <2>3. ASSUME NEW k \in B PROVE Len(s) + k \in FailedAt(s \o t, e)
    <3>1. k \in 1 .. Len(t) /\ Len(s) + k \in 1 .. Len(s) + Len(t)
      BY <1>1, <1>2, SMT
    <3> QED BY <1>1, <3>1 DEF FailedAt
  <2>4. \A k \in Shift(Len(s), B) : k \in FailedAt(s \o t, e)
    BY <2>3 DEF Shift
  <2> QED BY <2>1, <2>2, <2>4
<1> HIDE DEF A, B
<1> DEFINE m == Len(s)
           n == Len(t)
<1>4. m \in Nat /\ n \in Nat /\ A \in SUBSET (1 .. m) /\ B \in SUBSET (1 .. n)
      /\ FailedAt(s \o t, e) = A \cup Shift(m, B)
  BY <1>1, <1>2, <1>3
<1> HIDE DEF m, n
<1>5. Cardinality(A \cup Shift(m, B)) = Cardinality(A) + Cardinality(B)
  <2>1. \A a \in SUBSET (1 .. m), b \in SUBSET (1 .. n) :
          Cardinality(a \cup Shift(m, b)) = Cardinality(a) + Cardinality(b)
    BY <1>4, Shifted
  <2> QED BY <1>4, <2>1
<1>6. Cardinality(A) \in Nat
  BY <1>4, Positions
<1> QED
  BY <1>4, <1>5, <1>6 DEF A, B

(* Results that carry their rules' labels are counted by enforcement.      *)
LEMMA CountedByEnforcement ==
  ASSUME NEW s \in Seq(Outcomes),
         \A r \in ToSet(s) : r.labels = NewResult(RuleLabels[r.rule])
  PROVE  /\ HardFailures(s) = Cardinality(FailedAt(s, "hard"))
         /\ Len(s) - Passes(s) - HardFailures(s) = Cardinality(FailedAt(s, "soft"))
<1> DEFINE P == {k \in DOMAIN s : s[k].passed}
           H == {k \in DOMAIN s : ~ s[k].passed /\ IsHardFailure(s[k].labels)}
           S == FailedAt(s, "soft")
<1>1. Len(s) \in Nat /\ DOMAIN s = 1 .. Len(s) /\ \A k \in DOMAIN s : s[k] \in Outcomes
  BY SMT
<1>2. \A k \in DOMAIN s : /\ RuleLabels[s[k].rule] \in Labels
                          /\ s[k].labels = NewResult(RuleLabels[s[k].rule])
  BY <1>1, PassAssumption DEF ToSet, Outcomes
<1>3. \A k \in DOMAIN s : IsHardFailure(s[k].labels) <=>
                            EffectiveEnforcement(RuleLabels[s[k].rule]) = "hard"
  BY <1>2, HardFailureFollowsEnforcement
<1>4. H = FailedAt(s, "hard")
  BY <1>3 DEF FailedAt
<1>5. \A k \in DOMAIN s : EffectiveEnforcement(RuleLabels[s[k].rule]) \in {"hard", "soft"}
  BY DEF EffectiveEnforcement, Enforcements
<1>6. /\ P \in SUBSET (1 .. Len(s)) /\ H \in SUBSET (1 .. Len(s)) /\ S \in SUBSET (1 .. Len(s))
      /\ P \cap H = {} /\ (P \cup H) \cap S = {} /\ (P \cup H) \cup S = 1 .. Len(s)
  BY <1>1, <1>4, <1>5 DEF FailedAt
<1>7. Passes(s) = Cardinality(P) /\ HardFailures(s) = Cardinality(H)
  BY DEF Passes, HardFailures
<1>8. S = FailedAt(s, "soft")
  OBVIOUS
<1> HIDE DEF P, H, S
<1>9. /\ IsFiniteSet(P) /\ IsFiniteSet(H) /\ IsFiniteSet(S)
      /\ Cardinality(P) \in Nat /\ Cardinality(H) \in Nat /\ Cardinality(S) \in Nat
      /\ Cardinality(1 .. Len(s)) = Len(s)
  BY <1>1, <1>6, Positions
<1>10. IsFiniteSet(P \cup H)
       /\ Cardinality(P \cup H) = Cardinality(P) + Cardinality(H) - Cardinality(P \cap H)
  BY <1>9, FS_Union
<1>11. Cardinality((P \cup H) \cup S) =
         Cardinality(P \cup H) + Cardinality(S) - Cardinality((P \cup H) \cap S)
  BY <1>9, <1>10, FS_Union
<1>12. Cardinality(P \cap H) = 0 /\ Cardinality((P \cup H) \cap S) = 0
       /\ Cardinality((P \cup H) \cup S) = Len(s)
  BY <1>6, <1>9, FS_EmptySet
<1>13. Len(s) = Cardinality(P) + Cardinality(H) + Cardinality(S)
  BY <1>1, <1>9, <1>10, <1>11, <1>12, SMT
<1>14. Len(s) - Passes(s) - HardFailures(s) = Cardinality(S)
  BY <1>7, <1>9, <1>13, SMT
<1> QED
  BY <1>4, <1>7, <1>8, <1>14

(* Adding up survives every step.                                          *)
LEMMA AddingStep == IInv /\ ReportAddsUp /\ [Next]_vars => ReportAddsUp'
<1> SUFFICES ASSUME IInv, ReportAddsUp, [Next]_vars PROVE ReportAddsUp'
  OBVIOUS
<1>1. CASE Aggregate
  <2> DEFINE R == report.results
             L == local
             n == Len(local)
             p == Passes(local)
             h == HardFailures(local)
  <2>1. R \in Seq(Outcomes) /\ L \in Seq(Outcomes)
        /\ report.passed \in Nat /\ report.failed \in Nat /\ report.hard \in Nat /\ report.soft \in Nat
    BY DEF IInv, TypeOK
  <2>2. \A r \in ToSet(L) : r.labels = NewResult(RuleLabels[r.rule])
    BY DEF IInv, Labelled
  <2>3. h = Cardinality(FailedAt(L, "hard")) /\ n - p - h = Cardinality(FailedAt(L, "soft"))
    BY <2>1, <2>2, CountedByEnforcement
  <2>4. n \in Nat /\ p \in Nat /\ h \in Nat
    BY <2>1, Counts
  <2>5. \A e : /\ Cardinality(FailedAt(R \o L, e)) =
                    Cardinality(FailedAt(R, e)) + Cardinality(FailedAt(L, e))
               /\ Cardinality(FailedAt(R, e)) \in Nat
    BY <2>1, FailedTogether
  <2>6. Len(R \o L) = Len(R) + n /\ Len(R) \in Nat
    BY <2>1, SMT
  <2>7. report' = [results |-> R \o L, passed |-> report.passed + p, failed |-> report.failed + (n - p),
                   hard |-> report.hard + h, soft |-> report.soft + (n - p) - h]
    BY <1>1 DEF Aggregate
  <2>8. /\ report.passed + report.failed = Len(R)
        /\ report.hard = Cardinality(FailedAt(R, "hard"))
        /\ report.soft = Cardinality(FailedAt(R, "soft"))
    BY AddsUp
  <2> HIDE DEF R, L, n, p, h
  <2>9. report.passed + p + (report.failed + (n - p)) = Len(R \o L)
    <3>1. report.passed + p + (report.failed + (n - p)) = report.passed + report.failed + n
      BY <2>1, <2>4, SMT
    <3> QED BY <2>6, <2>8, <3>1
  <2>10. report.hard + h = Cardinality(FailedAt(R \o L, "hard"))
    BY <2>3, <2>5, <2>8
  <2>11. report.soft + (n - p) - h = Cardinality(FailedAt(R \o L, "soft"))
    <3>1. report.soft + (n - p) - h = report.soft + (n - p - h)
      BY <2>1, <2>4, SMT
    <3> QED BY <2>3, <2>5, <2>8, <3>1
  <2>12. /\ report'.passed + report'.failed = Len(report'.results)
         /\ report'.hard = Cardinality(FailedAt(report'.results, "hard"))
         /\ report'.soft = Cardinality(FailedAt(report'.results, "soft"))
    BY <2>7, <2>9, <2>10, <2>11
  <2> QED BY <2>12 DEF ReportAddsUp, FailedAt
<1>2. ASSUME report' = report PROVE ReportAddsUp'
  BY <1>2 DEF ReportAddsUp
<1>3. ASSUME Abort PROVE ReportAddsUp'
  <2>1. report' = EmptyReport
    BY <1>3 DEF Abort
  <2>2. Len(<<>>) = 0 /\ DOMAIN <<>> = {} /\ 0 + 0 = 0
    BY SMT
  <2> QED BY <2>1, <2>2, FS_EmptySet DEF EmptyReport, ReportAddsUp
<1>4. CASE Fault \/ RecordGone \/ RuleError
  BY <1>3, <1>4 DEF Fault, RecordGone, RuleError
<1>5. CASE \E x \in Records, row \in Rows \cup {Absent} : Write(x, row)
  BY <1>2, <1>5 DEF Write
<1>6. CASE \/ LoadRules \/ LoadAllRecords \/ SkipRecord \/ LoadRecord
           \/ SkipRule \/ ValidateRule \/ Return \/ Ended \/ UNCHANGED vars
  BY <1>2, <1>6 DEF LoadRules, LoadAllRecords, SkipRecord, LoadRecord, SkipRule, ValidateRule,
                    Return, Ended, vars
<1> QED
  BY <1>1, <1>4, <1>5, <1>6 DEF Next, Pass

(* The counters of a report are those of its results, and its hard errors  *)
(* the failures of the rules enforced hard, at every moment of the pass.   *)
THEOREM CountersAgree == Spec => []ReportAddsUp
<1>1. Init => ReportAddsUp
  <2>1. Len(<<>>) = 0 /\ DOMAIN <<>> = {} /\ 0 + 0 = 0
    BY SMT
  <2> QED BY <2>1, FS_EmptySet DEF Init, EmptyReport, ReportAddsUp
<1> QED
  BY <1>1, InitBooks, StepBooks, AddingStep, PTL DEF Spec

-----------------------------------------------------------------------------
(* The rule that the pass is at, when it is at one.                        *)
LEMMA RuleAtHand ==
  ASSUME IInv, pc = "validate", rule <= Len(Rules)
  PROVE  /\ rule \in RuleIds /\ Rules[rule] \in RuleRecords
         /\ pos \in DOMAIN ids /\ ids[pos] \in Records /\ TableOf[ids[pos]] = Table
         /\ loaded \in Rows /\ loaded \in Seen(ids[pos])
<1>1. rule \in RuleIds
  BY RulesAssumption, SMT DEF IInv, TypeOK, RuleIds
<1>2. Rules[rule] \in RuleRecords
  BY <1>1, RulesAssumption, SMT DEF RuleIds
<1>3. pos \in DOMAIN ids /\ ids[pos] \in Records
  BY SMT DEF IInv, TypeOK, PassBooks
<1>4. TableOf[ids[pos]] = Table /\ loaded \in Seen(ids[pos]) /\ loaded \in Rows
  BY <1>3 DEF IInv, TypeOK, PassBooks, Seen
<1> QED
  BY <1>1, <1>2, <1>3, <1>4

(* Matching rows are records, a finite set of them.                        *)
LEMMA MatchingIsFinite ==
  ASSUME NEW D, NEW x, NEW row, NEW u
  PROVE  /\ IsFiniteSet(Matching(D, x, row, u)) /\ Cardinality(Matching(D, x, row, u)) \in Nat
         /\ Cardinality(Matching(D, x, row, u)) = 0 <=> Matching(D, x, row, u) = {}
<1>1. Matching(D, x, row, u) \subseteq Records
  BY DEF Matching
<1>2. IsFiniteSet(Matching(D, x, row, u))
  BY <1>1, RecordsAssumption, FS_Subset
<1> QED
  BY <1>2, FS_CardinalityType, FS_EmptySet

(* A uniqueness rule fails exactly the row that shares its key with some   *)
(* other record of the database.                                           *)
LEMMA UniqueOrShared ==
  ASSUME NEW D \in Databases, NEW x \in Records, NEW row \in Rows, NEW u \in RuleRecords,
         TableOf[x] = Table, Uniqueness(u)
  PROVE  Validate(D, x, row, u) =
           IF \E y \in Records \ {x} : TableOf[y] = Table /\ SameKey(row, D[y], u)
           THEN "fail" ELSE "pass"
<1> DEFINE M == Matching(D, x, row, u)
<1>0. row # Absent
  BY RowsAssumption
<1>1. Validate(D, x, row, u) = IF CountPasses(D, x, row, u) THEN "pass" ELSE "fail"
  BY <1>0 DEF Validate, Uniqueness, EvalConditions
<1>2. Cardinality(M) \in Nat /\ (Cardinality(M) = 0 <=> M = {})
  BY MatchingIsFinite
<1>3. Within(Cardinality(M), u.expected) <=> M = {}
  <2>1. u.expected.min = NoBound /\ u.expected.max = 0 /\ u.expected.max # NoBound
    BY BoundAssumption, SMT DEF Uniqueness
  <2> HIDE DEF M
  <2>2. Cardinality(M) <= 0 <=> Cardinality(M) = 0
    BY <1>2, SMT
  <2> QED BY <1>2, <2>1, <2>2 DEF Within
<1>4. CountPasses(D, x, row, u) <=> Skips(row, u) \/ M = {}
  BY <1>3 DEF CountPasses
<1>5. u.table = Table /\ u.excludeSelf /\ u.skip /\ Excluded(x, u) = {x}
      /\ \A m \in u.match : m.target = m.self
  BY DEF Uniqueness, Excluded
<1>6. ASSUME NEW y \in Records \ {x}, TableOf[y] = Table, SameKey(row, D[y], u)
      PROVE  ~ Skips(row, u) /\ y \in M
  BY <1>5, <1>6 DEF Skips, SameKey, Matching, SqlEquals, isEmpty
<1>7. ASSUME ~ Skips(row, u), NEW y \in M
      PROVE  y \in Records \ {x} /\ TableOf[y] = Table /\ SameKey(row, D[y], u)
  BY <1>0, <1>5, <1>7 DEF Skips, SameKey, Matching, SqlEquals
<1>8. CountPasses(D, x, row, u) <=>
        ~ \E y \in Records \ {x} : TableOf[y] = Table /\ SameKey(row, D[y], u)
  BY <1>4, <1>6, <1>7
<1> QED
  BY <1>1, <1>8

(* A failure of a uniqueness rule has a witness in the history.            *)
Witnessed(r) ==
  Uniqueness(Rules[r.rule]) /\ ~ r.passed =>
    \E y \in Records \ {r.record} : \E m, n \in DOMAIN past :
      m <= n /\ SameKey(past[m][r.record], past[n][y], Rules[r.rule])

WitnessBooks == \A r \in ToSet(local) \cup ToSet(report.results) : Witnessed(r)

(* Results keep their witnesses, and new ones have one.                    *)
LEMMA WitnessStep == IInv /\ WitnessBooks /\ [Next]_vars => WitnessBooks'
<1> SUFFICES ASSUME IInv, WitnessBooks, [Next]_vars PROVE WitnessBooks'
  OBVIOUS
<1>a. TypeOK /\ local \in Seq(Outcomes) /\ report.results \in Seq(Outcomes)
  BY DEF IInv, TypeOK
<1>b. \A r \in ToSet(local) \cup ToSet(report.results) : r.record \in Records
  <2>1. \A k \in DOMAIN local : local[k] \in Outcomes
    BY <1>a, SMT
  <2>2. \A k \in DOMAIN report.results : report.results[k] \in Outcomes
    BY <1>a, SMT
  <2> QED BY <2>1, <2>2 DEF ToSet, Outcomes
<1>c. \A r : r.record \in Records /\ Witnessed(r) => Witnessed(r)'
  BY HistoryGrows DEF Witnessed, Uniqueness, SameKey
<1>1. ASSUME \A r \in ToSet(local') \cup ToSet(report'.results) :
               r \in ToSet(local) \cup ToSet(report.results) \/ Witnessed(r)'
      PROVE  WitnessBooks'
  BY <1>1, <1>b, <1>c DEF WitnessBooks
<1>2. CASE ValidateRule
  <2>1. /\ rule \in RuleIds /\ Rules[rule] \in RuleRecords
        /\ ids[pos] \in Records /\ TableOf[ids[pos]] = Table
        /\ loaded \in Rows /\ loaded \in Seen(ids[pos])
    BY <1>2, RuleAtHand DEF ValidateRule
  <2>2. PICK new :
          new = [record |-> ids[pos], rule |-> rule,
                 passed |-> Validate(db, ids[pos], loaded, Rules[rule]) = "pass",
                 labels |-> NewResult(RuleLabels[rule])]
    OBVIOUS
  <2>3. Witnessed(new)
    <3>1. SUFFICES ASSUME Uniqueness(Rules[rule]),
                          Validate(db, ids[pos], loaded, Rules[rule]) # "pass"
                   PROVE  \E y \in Records \ {ids[pos]} : \E m, n \in DOMAIN past :
                            m <= n /\ SameKey(past[m][ids[pos]], past[n][y], Rules[rule])
      BY <2>2 DEF Witnessed
    <3>2. /\ db \in Databases /\ Len(past) \in DOMAIN past /\ past[Len(past)] = db
          /\ \A n \in DOMAIN past : n <= Len(past)
      BY PastEnds DEF IInv, TypeOK
    <3>3. \E y \in Records \ {ids[pos]} : SameKey(loaded, db[y], Rules[rule])
      BY <2>1, <3>1, <3>2, UniqueOrShared
    <3>4. PICK m \in DOMAIN past : past[m][ids[pos]] = loaded
      BY <2>1 DEF Seen
    <3> QED BY <3>2, <3>3, <3>4
  <2>4. Witnessed(new)'
    BY <1>c, <2>1, <2>2, <2>3
  <2>5. local' = Append(local, new) /\ report' = report
    BY <1>2, <2>2 DEF ValidateRule
  <2>6. \A r \in ToSet(local') : r \in ToSet(local) \/ r = new
    <3>1. \A k \in DOMAIN local' : local'[k] = new \/ (k \in DOMAIN local /\ local'[k] = local[k])
      BY <1>a, <2>5, SMT
    <3> QED BY <3>1 DEF ToSet
  <2> QED BY <1>1, <2>4, <2>5, <2>6
<1>3. CASE Aggregate
  <2>1. ToSet(report.results \o local) = ToSet(report.results) \cup ToSet(local)
    BY <1>a, ConcatRange
  <2> QED BY <1>1, <1>3, <2>1 DEF Aggregate
<1>4. CASE Fault \/ RecordGone \/ RuleError
  <2>1. local' = local /\ report' = EmptyReport
    BY <1>4 DEF Fault, RecordGone, RuleError, Abort
  <2>2. ToSet(report'.results) = {}
    <3>1. DOMAIN <<>> = {}
      BY SMT
    <3> QED BY <2>1, <3>1 DEF EmptyReport, ToSet
  <2> QED BY <1>1, <2>1, <2>2
<1>5. CASE LoadRecord
  <2>1. ToSet(local') = {} /\ report' = report
    <3>1. DOMAIN <<>> = {}
      BY SMT
    <3> QED BY <1>5, <3>1 DEF LoadRecord, ToSet
  <2> QED BY <1>1, <2>1
<1>6. CASE \E x \in Records, row \in Rows \cup {Absent} : Write(x, row)
  BY <1>1, <1>6 DEF Write
<1>7. CASE \/ LoadRules \/ LoadAllRecords \/ SkipRecord \/ SkipRule \/ Return
           \/ Ended \/ UNCHANGED vars
  BY <1>1, <1>7 DEF LoadRules, LoadAllRecords, SkipRecord, SkipRule, Return, Ended, vars
<1> QED
  BY <1>2, <1>3, <1>4, <1>5, <1>6, <1>7 DEF Next, Pass

(* No record is reported for a uniqueness rule unless it held a key during *)
(* the pass that another record held then or later in it: a concurrent     *)
(* writer can make a pass report a duplicate that was never one at a       *)
(* single moment, but not one out of nothing.                              *)
THEOREM DuplicatesHaveWitnesses == Spec => []DuplicateHasWitness
<1>1. Init => WitnessBooks
  <2>1. DOMAIN <<>> = {}
    BY SMT
  <2> QED BY <2>1 DEF Init, EmptyReport, WitnessBooks, ToSet
<1>2. WitnessBooks => DuplicateHasWitness
  BY DEF WitnessBooks, Witnessed, DuplicateHasWitness
<1> QED
  BY <1>1, <1>2, InitBooks, StepBooks, WitnessStep, PTL DEF Spec

-----------------------------------------------------------------------------
(* x and y have shared the key of uniqueness rule i in every row they had. *)
Standing(i, x, y) ==
  /\ Uniqueness(Rules[i]) /\ x # y /\ TableOf[x] = Table /\ TableOf[y] = Table
  /\ \A a \in Seen(x), b \in Seen(y) : SameKey(a, b, Rules[i])

FailsIn(R, x, i) == \E r \in ToSet(R) : r.record = x /\ r.rule = i /\ ~ r.passed

(* The standing duplicates that the pass has dealt with have failed.       *)
DuplicatesFound ==
  pc \in {"next", "validate", "done"} /\ setup.hasId =>
    \A i \in RuleIds, x, y \in Records : Standing(i, x, y) =>
      /\ x \in ToSet(ids)
      /\ \A k \in 1 .. pos - 1 : ids[k] = x => FailsIn(report.results, x, i)
      /\ pc = "validate" /\ ids[pos] = x /\ i < rule => FailsIn(local, x, i)

(* Each record is dealt with in its turn, and found out.                   *)
LEMMA FoundStep == IInv /\ DuplicatesFound /\ [Next]_vars => DuplicatesFound'
<1> SUFFICES ASSUME IInv, DuplicatesFound, [Next]_vars,
                    pc' \in {"next", "validate", "done"}, setup'.hasId,
                    NEW i \in RuleIds, NEW x \in Records, NEW y \in Records,
                    Standing(i, x, y)'
             PROVE  /\ x \in ToSet(ids')
                    /\ \A k \in 1 .. pos' - 1 : ids'[k] = x => FailsIn(report'.results, x, i)
                    /\ pc' = "validate" /\ ids'[pos'] = x /\ i < rule' => FailsIn(local', x, i)
  BY DEF DuplicatesFound, FailsIn
<1>a. /\ local \in Seq(Outcomes) /\ report.results \in Seq(Outcomes)
      /\ pos \in Nat /\ pos >= 1 /\ rule \in Nat /\ rule >= 1 /\ i \in Nat /\ i >= 1
  BY RulesAssumption, SMT DEF IInv, TypeOK, RuleIds
<1>b. Standing(i, x, y)
  BY HistoryGrows DEF Standing, Uniqueness, SameKey
<1>c. setup' = setup
  BY DEF Next, Pass, Fault, Ended, vars, LoadRules, LoadAllRecords, SkipRecord, LoadRecord,
         RecordGone, SkipRule, RuleError, ValidateRule, Aggregate, Return, Abort, env, Write
<1>d. pc \in {"next", "validate", "done"} =>
        /\ x \in ToSet(ids)
        /\ \A k \in 1 .. pos - 1 : ids[k] = x => FailsIn(report.results, x, i)
        /\ pc = "validate" /\ ids[pos] = x /\ i < rule => FailsIn(local, x, i)
  BY <1>b, <1>c DEF DuplicatesFound
<1>1. ASSUME UNCHANGED <<pc, ids, pos, rule, local, report>>
      PROVE  /\ x \in ToSet(ids')
             /\ \A k \in 1 .. pos' - 1 : ids'[k] = x => FailsIn(report'.results, x, i)
             /\ pc' = "validate" /\ ids'[pos'] = x /\ i < rule' => FailsIn(local', x, i)
  BY <1>1, <1>d
<1>2. CASE \E z \in Records, row \in Rows \cup {Absent} : Write(z, row)
  BY <1>1, <1>2 DEF Write
<1>3. CASE Ended \/ UNCHANGED vars
  BY <1>1, <1>3 DEF Ended, vars
<1>4. CASE Fault \/ RecordGone \/ RuleError \/ LoadRules
  BY <1>4 DEF Fault, RecordGone, RuleError, Abort, LoadRules
<1>5. CASE LoadAllRecords
  <2>1. pos' = 1 /\ pc' = "next" /\ 1 .. pos' - 1 = {}
    BY <1>5, SMT DEF LoadAllRecords, IInv, PassBooks
  <2>2. db[x] # Absent /\ TableOf[x] = Table
    BY <1>b, PastEnds DEF Standing, SameKey, IInv
  <2>3. IsFiniteSet({z \in Records : TableOf[z] = Table /\ db[z] # Absent})
    BY RecordsAssumption, FS_Subset
  <2>4. x \in ToSet(ids')
    BY <1>5, <2>2, <2>3, Enumerated DEF LoadAllRecords
  <2> QED BY <2>1, <2>4
<1>6. CASE SkipRecord
  BY <1>6, <1>c DEF SkipRecord
<1>7. CASE LoadRecord
  <2>1. pc = "next" /\ ids' = ids /\ pos' = pos /\ report' = report /\ rule' = 1
    BY <1>7 DEF LoadRecord
  <2>2. ~ (i < rule')
    BY <1>a, <2>1, SMT
  <2> QED BY <1>d, <2>1, <2>2
<1>8. CASE SkipRule
  <2>1. /\ pc = "validate" /\ pc' = "validate" /\ ids' = ids /\ pos' = pos
        /\ local' = local /\ report' = report /\ rule' = rule + 1 /\ rule <= Len(Rules)
        /\ ~ Considered(rule)
    BY <1>8 DEF SkipRule
  <2>2. Considered(i)
    BY <1>b DEF Standing, Uniqueness, Considered, EvalConditions
  <2>3. i < rule' => i < rule
    BY <1>a, <2>1, <2>2, SMT
  <2> QED BY <1>d, <2>1, <2>3
<1>9. CASE ValidateRule
  <2>1. /\ rule \in RuleIds /\ Rules[rule] \in RuleRecords
        /\ ids[pos] \in Records /\ TableOf[ids[pos]] = Table
        /\ loaded \in Rows /\ loaded \in Seen(ids[pos])
    BY <1>9, RuleAtHand DEF ValidateRule
  <2>2. PICK new :
          new = [record |-> ids[pos], rule |-> rule,
                 passed |-> Validate(db, ids[pos], loaded, Rules[rule]) = "pass",
                 labels |-> NewResult(RuleLabels[rule])]
    OBVIOUS
  <2>3. /\ local' = Append(local, new) /\ rule' = rule + 1
        /\ pc = "validate" /\ pc' = "validate" /\ ids' = ids /\ pos' = pos /\ report' = report
    BY <1>9, <2>2 DEF ValidateRule
  <2>4. new \in ToSet(local') /\ ToSet(local) \subseteq ToSet(local')
    <3>1. new \in Outcomes
      BY <2>1, <2>2, PassAssumption, NewResultIsLabelled DEF Outcomes
    <3>2. /\ Len(local) \in Nat /\ DOMAIN local = 1 .. Len(local)
          /\ DOMAIN local' = 1 .. Len(local) + 1
          /\ local'[Len(local) + 1] = new
          /\ \A k \in 1 .. Len(local) : local'[k] = local[k]
      BY <1>a, <2>3, <3>1, SMT
    <3>3. Len(local) + 1 \in DOMAIN local' /\ DOMAIN local \subseteq DOMAIN local'
      BY <3>2, SMT
    <3> QED BY <3>2, <3>3 DEF ToSet
  <2>5. ASSUME i = rule, ids[pos] = x PROVE FailsIn(local', x, i)
    <3>1. y \in Records \ {x} /\ TableOf[y] = Table /\ SameKey(loaded, db[y], Rules[i])
      BY <1>b, <2>1, <2>5, PastEnds DEF Standing, IInv
    <3>2. db \in Databases /\ Uniqueness(Rules[i])
      BY <1>b DEF Standing, IInv, TypeOK
    <3>3. Validate(db, x, loaded, Rules[i]) = "fail"
      BY <2>1, <2>5, <3>1, <3>2, UniqueOrShared
    <3>4. new.record = x /\ new.rule = i /\ ~ new.passed
      BY <2>2, <2>5, <3>3
    <3> QED BY <2>4, <3>4 DEF FailsIn
  <2>6. ASSUME i < rule', ids[pos] = x PROVE FailsIn(local', x, i)
    <3>1. CASE i < rule
      BY <1>d, <2>3, <2>4, <2>6, <3>1 DEF FailsIn
    <3>2. CASE ~ (i < rule)
      <4>1. i = rule
        BY <1>a, <2>3, <2>6, <3>2, SMT
      <4> QED BY <2>5, <2>6, <4>1
    <3> QED BY <3>1, <3>2
  <2> QED BY <1>d, <2>3, <2>6
<1>10. CASE Aggregate
  <2>1. pc = "validate" /\ pc' = "next" /\ ids' = ids /\ pos' = pos + 1 /\ rule > Len(Rules)
        /\ report'.results = report.results \o local
    BY <1>10 DEF Aggregate, Advance
  <2>2. ToSet(report'.results) = ToSet(report.results) \cup ToSet(local)
    BY <1>a, <2>1, ConcatRange
  <2>3. i < rule
    BY <1>a, <2>1, RulesAssumption, SMT DEF RuleIds
  <2>4. \A k \in 1 .. pos' - 1 : k \in 1 .. pos - 1 \/ k = pos
    BY <1>a, <2>1, SMT
  <2>5. \A k \in 1 .. pos' - 1 : ids'[k] = x => FailsIn(report'.results, x, i)
    BY <1>d, <2>1, <2>2, <2>3, <2>4 DEF FailsIn
  <2> QED BY <1>d, <2>1, <2>5
<1>11. CASE Return
  <2>1. pc = "next" /\ pc' = "done" /\ ids' = ids /\ pos' = pos /\ report' = report
    BY <1>11 DEF Return
  <2> QED BY <1>d, <2>1
<1> QED
  BY <1>2, <1>3, <1>4, <1>5, <1>6, <1>7, <1>8, <1>9, <1>10, <1>11 DEF Next, Pass

(* Two records that shared a unique key in every row they had during a     *)
(* pass are both reported by it, however the other records move meanwhile: *)
(* each record is counted against at a moment when the other was there.    *)
THEOREM DuplicatesAreReported == Spec => []StandingDuplicatesReported
<1>1. Init => DuplicatesFound
  BY DEF Init, DuplicatesFound
<1>2. IInv /\ DuplicatesFound => StandingDuplicatesReported
  <2> SUFFICES ASSUME IInv, DuplicatesFound, pc = "done", setup.hasId,
                      NEW i \in RuleIds, Uniqueness(Rules[i]),
                      NEW x \in Records, NEW y \in Records,
                      x # y, TableOf[x] = Table, TableOf[y] = Table,
                      \A a \in Seen(x), b \in Seen(y) : SameKey(a, b, Rules[i])
               PROVE  \E r \in Reported(x, i) : ~ r.passed
    BY DEF StandingDuplicatesReported
  <2>1. /\ x \in ToSet(ids)
        /\ \A k \in 1 .. pos - 1 : ids[k] = x => FailsIn(report.results, x, i)
    BY DEF DuplicatesFound, Standing
  <2>2. DOMAIN ids \subseteq 1 .. pos - 1
    BY SMT DEF IInv, TypeOK, PassBooks
  <2> QED BY <2>1, <2>2 DEF ToSet, FailsIn, Reported
<1> QED
  BY <1>1, <1>2, InitBooks, StepBooks, FoundStep, PTL DEF Spec

-----------------------------------------------------------------------------
(* The results R are the verdicts of the record-rule pairs D, each once.   *)
Exact(R, D) ==
  /\ \A k, l \in DOMAIN R : R[k].record = R[l].record /\ R[k].rule = R[l].rule => k = l
  /\ \A k \in DOMAIN R : /\ <<R[k].record, R[k].rule>> \in D
                         /\ R[k].passed <=> Verdict(R[k].record, R[k].rule) = "pass"
  /\ \A p \in D : \E k \in DOMAIN R : R[k].record = p[1] /\ R[k].rule = p[2]

(* The pairs that the pass is to report, those of the records behind it    *)
(* and those of the rules behind it on the current record.                 *)
Due == {p \in Records \X RuleIds : setup.hasId /\ Verdict(p[1], p[2]) # "none"}
Behind(n) == {p \in Due : \E k \in 1 .. n - 1 : ids[k] = p[1]}
Here(x, n) == {p \in Due : p[1] = x /\ p[2] < n}

(* Nothing has been written, and the results so far are exact.             *)
QuietBooks ==
  writes = 0 =>
    /\ \A x \in Records : Seen(x) = {db[x]}
    /\ pc \in {"next", "validate", "done"} =>
         ToSet(ids) = {x \in Records : TableOf[x] = Table /\ db[x] # Absent}
    /\ pc # "failed" => Exact(report.results, Behind(pos))
    /\ pc = "validate" => Exact(local, Here(ids[pos], rule))

(* Exact results of different pairs are exact together.                    *)
LEMMA ExactTogether ==
  ASSUME NEW s \in Seq(Outcomes), NEW t \in Seq(Outcomes), NEW A, NEW B,
         Exact(s, A), Exact(t, B), A \cap B = {}
  PROVE  Exact(s \o t, A \cup B)
<1> DEFINE m == Len(s)
           n == Len(t)
           u == s \o t
<1>1. /\ m \in Nat /\ n \in Nat /\ DOMAIN s = 1 .. m /\ DOMAIN t = 1 .. n
      /\ DOMAIN u = 1 .. m + n
      /\ \A k \in 1 .. m : u[k] = s[k]
      /\ \A k \in 1 .. n : u[m + k] = t[k]
  BY SMT
<1> HIDE DEF m, n, u
<1>2. \A k \in DOMAIN u : \/ k \in DOMAIN s /\ u[k] = s[k]
                          \/ k - m \in DOMAIN t /\ u[k] = t[k - m]
  <2>1. \A k \in 1 .. m + n : k \in 1 .. m \/ (k - m \in 1 .. n /\ k = m + (k - m))
    BY <1>1, SMT
  <2> QED BY <1>1, <2>1
<1>3. \A k \in DOMAIN s : k \in DOMAIN u /\ u[k] = s[k]
  BY <1>1, SMT
<1>4. \A k \in DOMAIN t : m + k \in DOMAIN u /\ u[m + k] = t[k]
  BY <1>1, SMT
<1>5. \A k \in DOMAIN u : /\ <<u[k].record, u[k].rule>> \in A \cup B
                          /\ u[k].passed <=> Verdict(u[k].record, u[k].rule) = "pass"
  BY <1>2 DEF Exact
<1>6. \A p \in A \cup B : \E k \in DOMAIN u : u[k].record = p[1] /\ u[k].rule = p[2]
  <2>1. ASSUME NEW p \in A PROVE \E k \in DOMAIN u : u[k].record = p[1] /\ u[k].rule = p[2]
    <3>1. PICK k \in DOMAIN s : s[k].record = p[1] /\ s[k].rule = p[2]
      BY DEF Exact
    <3> QED BY <1>3, <3>1
  <2>2. ASSUME NEW p \in B PROVE \E k \in DOMAIN u : u[k].record = p[1] /\ u[k].rule = p[2]
    <3>1. PICK k \in DOMAIN t : t[k].record = p[1] /\ t[k].rule = p[2]
      BY DEF Exact
    <3> QED BY <1>4, <3>1
  <2> QED BY <2>1, <2>2
<1>7. ASSUME NEW k \in DOMAIN u, NEW l \in DOMAIN u,
             u[k].record = u[l].record, u[k].rule = u[l].rule
      PROVE  k = l
  <2>1. CASE k \in DOMAIN s /\ u[k] = s[k] /\ l \in DOMAIN s /\ u[l] = s[l]
    BY <1>7, <2>1 DEF Exact
  <2>2. CASE k - m \in DOMAIN t /\ u[k] = t[k - m] /\ l - m \in DOMAIN t /\ u[l] = t[l - m]
    <3>1. k - m = l - m
      BY <1>7, <2>2 DEF Exact
    <3> QED BY <1>1, <3>1, SMT
  <2>3. CASE k \in DOMAIN s /\ u[k] = s[k] /\ l - m \in DOMAIN t /\ u[l] = t[l - m]
    <3>1. <<u[k].record, u[k].rule>> \in A /\ <<u[l].record, u[l].rule>> \in B
      BY <2>3 DEF Exact
    <3> QED BY <1>7, <3>1
  <2>4. CASE l \in DOMAIN s /\ u[l] = s[l] /\ k - m \in DOMAIN t /\ u[k] = t[k - m]
    <3>1. <<u[l].record, u[l].rule>> \in A /\ <<u[k].record, u[k].rule>> \in B
      BY <2>4 DEF Exact
    <3> QED BY <1>7, <3>1
  <2> QED BY <1>2, <2>1, <2>2, <2>3, <2>4
<1>8. Exact(u, A \cup B)
  BY <1>5, <1>6, <1>7 DEF Exact
<1> QED
  BY <1>8 DEF u

(* No results are exact for no pairs.                                      *)
LEMMA NothingIsExact == Exact(<<>>, {})
<1>1. DOMAIN <<>> = {}
  BY SMT
<1> QED BY <1>1 DEF Exact

(* A pass that nobody disturbs stays exact.                                *)
LEMMA QuietStep == IInv /\ QuietBooks /\ [Next]_vars => QuietBooks'
<1> SUFFICES ASSUME IInv, QuietBooks, [Next]_vars, writes' = 0
             PROVE  QuietBooks'
  BY DEF QuietBooks
<1>a. /\ local \in Seq(Outcomes) /\ report.results \in Seq(Outcomes)
      /\ pos \in Nat /\ pos >= 1 /\ rule \in Nat /\ rule >= 1
      /\ Len(ids) \in Nat /\ DOMAIN ids = 1 .. Len(ids)
      /\ \A p \in Due : p[2] \in Nat /\ p[2] >= 1 /\ p[2] <= Len(Rules)
      /\ Len(Rules) \in Nat
  BY RulesAssumption, SMT DEF IInv, TypeOK, Due, RuleIds
<1>1. CASE \E x \in Records, row \in Rows \cup {Absent} : Write(x, row)
  <2>1. writes' # 0
    BY <1>1, PassAssumption, SMT DEF Write, IInv, TypeOK
  <2> QED BY <2>1
<1>2. CASE Pass \/ Fault \/ Ended \/ UNCHANGED vars
  <2>a. UNCHANGED env
    BY <1>2 DEF Pass, Fault, Ended, vars, LoadRules, LoadAllRecords, SkipRecord, LoadRecord,
                RecordGone, SkipRule, RuleError, ValidateRule, Aggregate, Return, Abort, env
  <2>b. writes = 0 /\ \A x \in Records : Seen(x) = {db[x]} /\ Seen(x)' = {db'[x]}
    BY <2>a DEF env, QuietBooks, Seen
  <2>c. /\ Due' = Due
        /\ \A R, D : Exact(R, D)' <=> Exact(R, D)
    BY <2>a DEF env, Due, Verdict, Exact
  <2>d. \A x, n : Here(x, n)' = Here(x, n)
    BY <2>c DEF Here
  <2>e. ids' = ids => \A n : Behind(n)' = Behind(n)
    BY <2>c DEF Behind
  <2>f. pc \in {"next", "validate", "done"} =>
          ToSet(ids) = {x \in Records : TableOf[x] = Table /\ db[x] # Absent}
    BY <2>b DEF QuietBooks
  <2>g. /\ pc # "failed" => Exact(report.results, Behind(pos))
        /\ pc = "validate" => Exact(local, Here(ids[pos], rule))
    BY <2>b DEF QuietBooks
  <2>1. ASSUME ids' = ids, pc' # "failed" => pc # "failed",
               pc' \in {"next", "validate", "done"} => pc \in {"next", "validate", "done"},
               pc' # "failed" => Exact(report'.results, Behind(pos')),
               pc' = "validate" => Exact(local', Here(ids[pos'], rule'))
        PROVE  QuietBooks'
    <3>1. PICK R, L, n, m, x : /\ R = report'.results /\ L = local'
                               /\ n = pos' /\ m = rule' /\ x = ids[pos']
      OBVIOUS
    <3>2. pc' # "failed" => Exact(R, Behind(n))'
      <4>1. PICK D : D = Behind(n)
        OBVIOUS
      <4>2. D = Behind(n)'
        BY <2>1, <2>e, <4>1
      <4>3. pc' # "failed" => Exact(R, D)
        BY <2>1, <3>1, <4>1
      <4> QED BY <2>c, <4>2, <4>3
    <3>3. pc' = "validate" => Exact(L, Here(x, m))'
      <4>1. PICK D : D = Here(x, m)
        OBVIOUS
      <4>2. D = Here(x, m)'
        BY <2>d, <4>1
      <4>3. pc' = "validate" => Exact(L, D)
        BY <2>1, <3>1, <4>1
      <4> QED BY <2>c, <4>2, <4>3
    <3> QED BY <2>1, <2>a, <2>b, <2>f, <3>1, <3>2, <3>3 DEF env, QuietBooks
  <2>2. CASE UNCHANGED vars \/ Ended
    BY <2>1, <2>2, <2>g DEF vars, Ended
  <2>3. CASE Fault \/ RecordGone \/ RuleError
    BY <2>1, <2>3 DEF Fault, RecordGone, RuleError, Abort
  <2>4. CASE LoadRules \/ Return
    BY <2>1, <2>4, <2>g DEF LoadRules, Return
  <2>5. CASE LoadAllRecords
    <3>1. /\ pos = 1 /\ report.results = <<>> /\ 1 .. pos - 1 = {}
          /\ pos' = pos /\ report' = report /\ pc' = "next"
      BY <2>5, SMT DEF LoadAllRecords, IInv, PassBooks, EmptyReport
    <3>2. PICK n : n = pos'
      OBVIOUS
    <3>3. Behind(n)' = {}
      BY <3>1, <3>2 DEF Behind
    <3>4. Exact(<<>>, {})'
      BY <2>c, NothingIsExact
    <3>5. Exact(report.results, Behind(pos))'
      BY <3>1, <3>2, <3>3, <3>4
    <3>6. IsFiniteSet({x \in Records : TableOf[x] = Table /\ db[x] # Absent})
      BY RecordsAssumption, FS_Subset
    <3>7. ToSet(ids') = {x \in Records : TableOf[x] = Table /\ db[x] # Absent}
      BY <2>5, <3>6, Enumerated DEF LoadAllRecords
    <3> QED BY <2>a, <2>b, <3>1, <3>5, <3>7 DEF env, QuietBooks
  <2>6. CASE SkipRecord
    <3>1. Due = {}
      BY <2>6 DEF SkipRecord, Due
    <3>2. Behind(pos') = Behind(pos)
      BY <3>1 DEF Behind
    <3> QED BY <2>1, <2>6, <2>g, <3>2 DEF SkipRecord
  <2>7. CASE LoadRecord
    <3>1. ids' = ids /\ pos' = pos /\ report' = report /\ rule' = 1 /\ local' = <<>>
          /\ pc = "next" /\ pc' = "validate"
      BY <2>7 DEF LoadRecord
    <3>2. Here(ids[pos'], rule') = {}
      BY <1>a, <3>1, SMT DEF Here
    <3> QED BY <2>1, <2>g, <3>1, <3>2, NothingIsExact
  <2>8. ASSUME pc = "validate", rule <= Len(Rules)
        PROVE  /\ rule \in RuleIds /\ ids[pos] \in Records
               /\ Considered(rule) <=> Verdict(ids[pos], rule) # "none"
               /\ Verdict(ids[pos], rule) = Validate(db, ids[pos], loaded, Rules[rule])
    <3>1. /\ rule \in RuleIds /\ ids[pos] \in Records /\ TableOf[ids[pos]] = Table
          /\ loaded \in Seen(ids[pos]) /\ loaded \in Rows
      BY <2>8, RuleAtHand
    <3>2. loaded = db[ids[pos]] /\ loaded # Absent
      BY <2>b, <3>1, RowsAssumption
    <3> QED BY <3>1, <3>2 DEF Considered, Verdict, Validate
  <2>9. CASE SkipRule
    <3>1. /\ pc = "validate" /\ rule <= Len(Rules) /\ ~ Considered(rule)
          /\ pc' = "validate" /\ rule' = rule + 1
          /\ ids' = ids /\ pos' = pos /\ report' = report /\ local' = local
      BY <2>9 DEF SkipRule
    <3>2. <<ids[pos], rule>> \notin Due
      BY <2>8, <3>1 DEF Due
    <3>3. \A p \in Due : p[1] = ids[pos] /\ p[2] < rule' => p[2] < rule
      <4>1. \A p \in Due : p[2] < rule' => p[2] < rule \/ p[2] = rule
        BY <1>a, <3>1, SMT
      <4>2. \A p \in Due : p = <<p[1], p[2]>>
        BY DEF Due
      <4> QED BY <3>2, <4>1, <4>2
    <3>4. \A p \in Due : p[2] < rule => p[2] < rule'
      BY <1>a, <3>1, SMT
    <3>5. Here(ids[pos'], rule') = Here(ids[pos], rule)
      BY <3>1, <3>3, <3>4 DEF Here
    <3> QED BY <2>1, <2>g, <3>1, <3>5
  <2>10. CASE ValidateRule
    <3>1. PICK new :
            new = [record |-> ids[pos], rule |-> rule,
                   passed |-> Validate(db, ids[pos], loaded, Rules[rule]) = "pass",
                   labels |-> NewResult(RuleLabels[rule])]
      OBVIOUS
    <3>2. /\ pc = "validate" /\ rule <= Len(Rules) /\ Considered(rule)
          /\ pc' = "validate" /\ rule' = rule + 1 /\ local' = Append(local, new)
          /\ ids' = ids /\ pos' = pos /\ report' = report
      BY <2>10, <3>1 DEF ValidateRule
    <3>3. /\ rule \in RuleIds /\ ids[pos] \in Records /\ Verdict(ids[pos], rule) # "none"
          /\ Verdict(ids[pos], rule) = Validate(db, ids[pos], loaded, Rules[rule])
      BY <2>8, <3>2
    <3>4. new \in Outcomes
      BY <3>1, <3>3, PassAssumption, NewResultIsLabelled DEF Outcomes
    <3>5. setup.hasId
      BY <3>2 DEF IInv, PassBooks
    <3> DEFINE A == Here(ids[pos], rule)
               B == {<<ids[pos], rule>>}
    <3>6. A \cap B = {} /\ A \cup B = Here(ids[pos], rule')
      <4>1. <<ids[pos], rule>> \in Due
        BY <3>3, <3>5 DEF Due
      <4>2. \A p \in Due : p = <<p[1], p[2]>>
        BY DEF Due
      <4>3. \A p \in Due : p[2] < rule' <=> p[2] < rule \/ p[2] = rule
        BY <1>a, <3>2, SMT
      <4>4. ~ (rule < rule)
        BY <1>a, SMT
      <4> QED BY <4>1, <4>2, <4>3, <4>4 DEF Here
    <3>7. Exact(<<new>>, B)
      <4>1. DOMAIN <<new>> = {1} /\ <<new>>[1] = new
        BY SMT
      <4>2. /\ <<new.record, new.rule>> \in B
            /\ new.passed <=> Verdict(new.record, new.rule) = "pass"
            /\ \A p \in B : new.record = p[1] /\ new.rule = p[2]
        <5>1. /\ new.record = ids[pos] /\ new.rule = rule
              /\ new.passed = (Validate(db, ids[pos], loaded, Rules[rule]) = "pass")
          BY <3>1
        <5>2. new.passed <=> Verdict(new.record, new.rule) = "pass"
          BY <3>3, <5>1
        <5> QED BY <5>1, <5>2
      <4> HIDE DEF B
      <4> QED BY <4>1, <4>2 DEF Exact
    <3>8. <<new>> \in Seq(Outcomes) /\ local' = local \o <<new>>
      BY <1>a, <3>2, <3>4, SMT
    <3>9. Exact(local, A)
      BY <2>g, <3>2
    <3> HIDE DEF A, B
    <3>10. Exact(local \o <<new>>, A \cup B)
      BY <1>a, <3>6, <3>7, <3>8, <3>9, ExactTogether
    <3> QED BY <2>1, <2>g, <3>2, <3>6, <3>8, <3>10
  <2>11. CASE Aggregate
    <3>1. /\ pc = "validate" /\ rule > Len(Rules) /\ pc' = "next" /\ pos' = pos + 1
          /\ ids' = ids /\ report'.results = report.results \o local
      BY <2>11 DEF Aggregate, Advance
    <3> DEFINE A == Behind(pos)
               B == Here(ids[pos], rule)
    <3>2. pos <= Len(ids) /\ IsInjective(ids)
      BY <3>1 DEF IInv, PassBooks
    <3>3. A \cap B = {}
      <4>1. \A k \in 1 .. pos - 1 : k \in DOMAIN ids /\ pos \in DOMAIN ids /\ k # pos
        BY <1>a, <3>2, SMT
      <4>2. \A k \in 1 .. pos - 1 : ids[k] # ids[pos]
        BY <3>2, <4>1 DEF IsInjective
      <4> QED BY <4>2 DEF Behind, Here
    <3>4. A \cup B = Behind(pos')
      <4>1. \A k : k \in 1 .. pos' - 1 <=> k \in 1 .. pos - 1 \/ k = pos
        BY <1>a, <3>1, SMT
      <4>2. \A p \in Due : p[2] < rule
        BY <1>a, <3>1, SMT
      <4> QED BY <4>1, <4>2 DEF Behind, Here
    <3>5. Exact(report.results, A) /\ Exact(local, B)
      BY <2>g, <3>1
    <3> HIDE DEF A, B
    <3>6. Exact(report.results \o local, A \cup B)
      BY <1>a, <3>3, <3>5, ExactTogether
    <3> QED BY <2>1, <3>1, <3>4, <3>6
  <2> QED
    BY <1>2, <2>2, <2>3, <2>4, <2>5, <2>6, <2>7, <2>9, <2>10, <2>11 DEF Pass
<1> QED
  BY <1>1, <1>2 DEF Next

(* A pass that no one writes during reports, once each, exactly the        *)
(* verdicts of the rules on the records of its table, and nothing else.    *)
THEOREM QuietPassesAreExact == Spec => []QuietPassIsExact
<1>1. Init => QuietBooks
  <2> SUFFICES ASSUME Init PROVE QuietBooks
    OBVIOUS
  <2>1. 1 .. 1 - 1 = {}
    BY SMT
  <2>2. Behind(1) = {}
    BY <2>1 DEF Behind
  <2>3. report.results = <<>> /\ pos = 1 /\ pc = "rules"
        /\ \A x \in Records : Seen(x) = {db[x]}
    <3>1. past = <<db>> /\ DOMAIN past = {1} /\ past[1] = db
      BY SMT DEF Init
    <3> QED BY <3>1 DEF Init, EmptyReport, Seen
  <2> QED BY <2>2, <2>3, NothingIsExact DEF QuietBooks
<1>2. IInv /\ QuietBooks => QuietPassIsExact
  <2> SUFFICES ASSUME IInv, QuietBooks, pc = "done", writes = 0
               PROVE  QuietPassIsExact
    BY DEF QuietPassIsExact
  <2> DEFINE R == report.results
             Asked == {q \in Records \X RuleIds :
                         setup.hasId /\ TableOf[q[1]] = Table /\ Verdict(q[1], q[2]) # "none"}
  <2>1. Exact(R, Behind(pos))
        /\ ToSet(ids) = {x \in Records : TableOf[x] = Table /\ db[x] # Absent}
    BY DEF QuietBooks
  <2>2. DOMAIN ids = 1 .. Len(ids) /\ \A k : k \in 1 .. pos - 1 <=> k \in DOMAIN ids
    BY SMT DEF IInv, TypeOK, PassBooks
  <2>3. Behind(pos) = {p \in Due : p[1] \in ToSet(ids)}
    BY <2>2 DEF Behind, ToSet
  <2>4. \A p \in Due : db[p[1]] # Absent
    BY DEF Due, Verdict, Validate
  <2>5. Behind(pos) = Asked
    BY <2>1, <2>3, <2>4 DEF Due
  <2> HIDE DEF R, Asked
  <2>6. Exact(R, Asked)
    BY <2>1, <2>5
  <2>7. IsInjective(R)
    BY <2>6 DEF Exact, IsInjective
  <2>8. \A k \in DOMAIN R : R[k] \in Outcomes
    BY SMT DEF R, IInv, TypeOK
  <2>9. {<<r.record, r.rule, r.passed>> : r \in ToSet(R)} =
          {<<p[1], p[2], Verdict(p[1], p[2]) = "pass">> : p \in Asked}
    <3>1. ASSUME NEW r \in ToSet(R)
          PROVE  \E p \in Asked : <<r.record, r.rule, r.passed>> =
                                    <<p[1], p[2], Verdict(p[1], p[2]) = "pass">>
      <4>1. PICK k \in DOMAIN R : R[k] = r
        BY DEF ToSet
      <4>2. /\ <<r.record, r.rule>> \in Asked
            /\ r.passed <=> Verdict(r.record, r.rule) = "pass"
            /\ r.passed \in BOOLEAN
        BY <2>6, <2>8, <4>1 DEF Exact, Outcomes
      <4> QED BY <4>2
    <3>2. ASSUME NEW p \in Asked
          PROVE  \E r \in ToSet(R) : <<r.record, r.rule, r.passed>> =
                                       <<p[1], p[2], Verdict(p[1], p[2]) = "pass">>
      <4>1. PICK k \in DOMAIN R : R[k].record = p[1] /\ R[k].rule = p[2]
        BY <2>6 DEF Exact
      <4>2. R[k] \in ToSet(R) /\ (R[k].passed <=> Verdict(p[1], p[2]) = "pass")
            /\ R[k].passed \in BOOLEAN
        <5>1. R[k] \in ToSet(R)
          BY DEF ToSet
        <5>2. R[k].passed <=> Verdict(R[k].record, R[k].rule) = "pass"
          BY <2>6 DEF Exact
        <5>3. R[k].passed \in BOOLEAN
          BY <2>8 DEF Outcomes
        <5> QED BY <4>1, <5>1, <5>2, <5>3
      <4> QED BY <4>1, <4>2
    <3> QED BY <3>1, <3>2
  <2> QED BY <2>7, <2>9 DEF R, Asked, QuietPassIsExact
<1> QED
  BY <1>1, <1>2, InitBooks, StepBooks, QuietStep, PTL DEF Spec
=============================================================================
