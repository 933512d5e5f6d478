----------------------------- MODULE ResultStore -----------------------------
(***************************************************************************)
(* SQLiteFormatter (adapter/presenter/sqlite_formatter.go): the failures   *)
(* of a validation report are written to the validation_results table, in  *)
(* batches of one transaction each.  A statement can fail and the process  *)
(* can die between any two of them; the consumer formats a report again    *)
(* that failed, and makes a new report after a crash.  Names are sequences *)
(* of tokens, because a result's key is made by joining names with "_".    *)
(* Foreign keys are not enforced, which is SQLite's default.               *)
(***************************************************************************)
EXTENDS Integers, FiniteSets, SequencesExt

CONSTANTS Tokens,      \* what names are made of: words and "_"
          Reports,     \* the reports the consumer formats: [table, results]
          Seconds,     \* the clock: a sequence of tokens, one per second
          BatchSize,
          Clears,      \* the values of the formatter's clear option
          MaxFaults    \* bound on failed statements and crashes together

Names == Seq(Tokens)
Results == [record : Names, rule : Names, passed : BOOLEAN]

ASSUME SeparatorAssumption == "_" \in Tokens
ASSUME StoreAssumption ==
  /\ Reports \subseteq [table : Names, results : Seq(Results)]
  /\ BatchSize \in Nat \ {0}
  /\ Clears \subseteq BOOLEAN
  /\ MaxFaults \in Nat
  /\ Seconds \in Names /\ Seconds # <<>> /\ IsInjective(Seconds)

VARIABLES rows,      \* the committed rows of both physical results tables
          migrated,  \* the database has a __gs_validation_rules table
          prefix,    \* the formatter's prefix, "unset" until detected
          clear,
          pc,
          report,    \* the report being formatted
          failures,  \* its failed results, in order
          next,      \* the first failure of the current batch
          tx,        \* the rows inserted by the open transaction, in order
          now,       \* the second the report's results were made in
          born,      \* the second in which the formatter was made
          faults

vars == <<rows, migrated, prefix, clear, pc, report, failures, next, tx, now, born,
          faults>>
input == <<clear, report, failures, now, born>>

NoReport == [table |-> <<>>, results |-> <<>>]

(* generateResultID: "%s_%s_%s_%d".                                        *)
generateResultID(result) ==
  report.table \o <<"_">> \o result.record \o <<"_">> \o result.rule
    \o <<"_", Seconds[now]>>

RowFor(result) ==
  [store |-> prefix, id |-> generateResultID(result), table |-> report.table,
   record |-> result.record, rule |-> result.rule]

Batch == SubSeq(failures, next, IF next + BatchSize - 1 < Len(failures)
                                THEN next + BatchSize - 1 ELSE Len(failures))

TypeOK ==
  /\ \A r, s \in rows : r.store = s.store /\ r.id = s.id => r = s
  /\ migrated \in BOOLEAN /\ clear \in Clears
  /\ prefix \in {"unset", "", "__gs_"}
  /\ pc \in {"idle", "detect", "ensure", "clear", "insert", "ok", "failed"}
  /\ report \in Reports \cup {NoReport}
  /\ next \in 1 .. Len(failures) + BatchSize
  /\ Len(tx) <= Len(Batch)
  /\ now \in 1 .. Len(Seconds) /\ born \in 1 .. now
  /\ faults \in 0 .. MaxFaults

Init ==
  /\ rows = {} /\ migrated \in BOOLEAN /\ prefix = "unset" /\ clear \in Clears
  /\ pc = "idle" /\ report = NoReport /\ failures = <<>>
  /\ next = 1 /\ tx = <<>> /\ now = 1 /\ born = 1 /\ faults = 0

(* The schema gets its __gs_ tables while the formatter is in use.         *)
Migrate ==
  /\ ~ migrated
  /\ migrated' = TRUE
  /\ UNCHANGED <<rows, prefix, pc, next, tx, faults, input>>

(* The loop of Format that keeps the failed results.                       *)
FailuresOf(r) ==
  LET upTo[n \in 0 .. Len(r.results)] ==
        IF n = 0 THEN <<>>
        ELSE IF r.results[n].passed THEN upTo[n - 1]
        ELSE Append(upTo[n - 1], r.results[n])
  IN  upTo[Len(r.results)]

(* Format is called with a report made in a later second than the last.    *)
Format(r) ==
  /\ pc \in {"idle", "ok"}
  /\ now < Len(Seconds)
  /\ now' = now + 1
  /\ report' = r
  /\ failures' = FailuresOf(r)
  /\ next' = 1
  /\ pc' = "detect"
  /\ UNCHANGED <<rows, migrated, prefix, clear, tx, born, faults>>

(* The consumer formats a report again that it failed to format.           *)
Retry ==
  /\ pc = "failed"
  /\ next' = 1
  /\ pc' = "detect"
  /\ UNCHANGED <<rows, migrated, prefix, tx, faults, input>>

(* Defect: the prefix is looked up before every statement.                 *)
LookUpAlways == IF migrated THEN "__gs_" ELSE ""

(* detectPrefix: looked up once in a formatter's life.                     *)
Detected == IF prefix # "unset" THEN prefix
            ELSE IF migrated THEN "__gs_" ELSE ""

DetectPrefix ==
  /\ pc = "detect"
  /\ prefix' = Detected
  /\ pc' = "ensure"
  /\ UNCHANGED <<rows, migrated, next, tx, faults, input>>

(* The lookup fails: the error is taken for "no such table".               *)
DetectFails ==
  /\ pc = "detect"
  /\ prefix = "unset"
  /\ faults < MaxFaults
  /\ faults' = faults + 1
  /\ prefix' = ""
  /\ pc' = "ensure"
  /\ UNCHANGED <<rows, migrated, next, tx, input>>

EnsureTable ==
  /\ pc = "ensure"
  /\ pc' = "clear"
  /\ UNCHANGED <<rows, migrated, prefix, next, tx, faults, input>>

TableRows(t) == {r \in rows : r.store = prefix /\ r.table = t}

(* Defects: the old results are not deleted; all tables' are.              *)
KeepAll == {}
ClearAll == IF clear THEN {r \in rows : r.store = prefix} ELSE {}

(* clearOldResults, when the option is set.                                *)
Cleared == IF clear THEN TableRows(report.table) ELSE {}

ClearOldResults ==
  /\ pc = "clear"
  /\ rows' = rows \ Cleared
  /\ pc' = IF failures = <<>> THEN "ok" ELSE "insert"
  /\ UNCHANGED <<migrated, prefix, next, tx, faults, input>>

(* The primary key of validation_results.                                  *)
Refused(row) == \E r \in rows \cup ToSet(tx) : r.store = row.store /\ r.id = row.id

InsertRow ==
  /\ pc = "insert" /\ Len(tx) < Len(Batch)
  /\ LET row == RowFor(Batch[Len(tx) + 1])
     IN  /\ ~ Refused(row)
         /\ tx' = Append(tx, row)
  /\ UNCHANGED <<rows, migrated, prefix, pc, next, faults, input>>

(* Defect: the rows inserted before the failing one are committed.         *)
CommitsOnError == rows \cup ToSet(tx)

RolledBack == rows

(* The insert is refused: the batch is rolled back and Format fails; the   *)
(* earlier batches stay.                                                   *)
InsertRefused ==
  /\ pc = "insert" /\ Len(tx) < Len(Batch)
  /\ Refused(RowFor(Batch[Len(tx) + 1]))
  /\ rows' = RolledBack
  /\ tx' = <<>>
  /\ pc' = "failed"
  /\ UNCHANGED <<migrated, prefix, next, faults, input>>

(* Defects: the loop ends when less than a full batch remains; it turns    *)
(* once more after a last batch that is full.                              *)
LastBatchEarly == next + 2 * BatchSize > Len(failures) + 1
LastBatchLate == next + BatchSize > Len(failures) + 1

LastBatch == next + BatchSize > Len(failures)

CommitBatch ==
  /\ pc = "insert" /\ Len(tx) = Len(Batch)
  /\ rows' = rows \cup ToSet(tx)
  /\ tx' = <<>>
  /\ next' = next + BatchSize
  /\ pc' = IF LastBatch THEN "ok" ELSE "insert"
  /\ UNCHANGED <<migrated, prefix, faults, input>>

(* A statement or a commit fails: Format returns the error.                *)
StatementFails ==
  /\ pc \in {"ensure", "clear", "insert"}
  /\ faults < MaxFaults
  /\ faults' = faults + 1
  /\ rows' = RolledBack
  /\ tx' = <<>>
  /\ pc' = "failed"
  /\ UNCHANGED <<migrated, prefix, next, input>>

(* The process dies, and the report with it; a new process has a formatter *)
(* that has yet to detect the prefix.                                      *)
Crash ==
  /\ pc # "idle"
  /\ faults < MaxFaults
  /\ faults' = faults + 1
  /\ tx' = <<>>
  /\ prefix' = "unset"
  /\ born' = now
  /\ pc' = "idle"
  /\ UNCHANGED <<rows, migrated, next, clear, report, failures, now>>

Run == Retry \/ DetectPrefix \/ EnsureTable \/ ClearOldResults \/ InsertRow
         \/ InsertRefused \/ CommitBatch

(* No second is left to make another report in.                            *)
Rest == pc \in {"idle", "ok"} /\ now = Len(Seconds) /\ UNCHANGED vars

Next ==
  \/ \E r \in Reports : Format(r)
  \/ Run \/ Migrate \/ DetectFails \/ StatementFails \/ Crash \/ Rest

(* The consumer formats a report until it has succeeded.                   *)
Spec == Init /\ [][Next]_vars /\ WF_vars(Run)
-----------------------------------------------------------------------------
Entries(results) == {<<x.record, x.rule>> : x \in ToSet(results)}
StoredEntries(t) == {<<r.record, r.rule>> : r \in TableRows(t)}

(* A Format that returns no error has replaced the table's results by the  *)
(* report's failures, all of them, one row each (clear set), or has added  *)
(* them (clear not set).                                                   *)
SuccessIsComplete ==
  pc = "ok" =>
    /\ Entries(failures) \subseteq StoredEntries(report.table)
    /\ clear => /\ Cardinality(TableRows(report.table)) = Len(failures)
                /\ StoredEntries(report.table) = Entries(failures)

(* What the table holds of a report is whole batches, from the first on:   *)
(* never part of a batch, whatever failed and wherever the process died.   *)
WholeBatches ==
  LET mine == {r \in rows : \E x \in ToSet(failures) : r.id = generateResultID(x)}
  IN  \E k \in 0 .. Len(failures) :
        /\ k % BatchSize = 0 \/ k = Len(failures)
        /\ {<<r.record, r.rule>> : r \in mine} = Entries(SubSeq(failures, 1, k))

(* Formatting a report of one table leaves the rows of the others alone,   *)
(* and without the clear option it deletes nothing.                        *)
OthersUntouched ==
  [][/\ {r \in rows : r.table # report.table} = {r \in rows' : r.table # report.table}
     /\ ~ clear => rows \subseteq rows']_vars

(* The rows the formatter made, and no earlier process.                    *)
MadeHere == {r \in rows : \E m \in 1 .. Len(Seconds) :
                            m > born /\ Last(r.id) = Seconds[m]}

(* With clear set, a Format that returns no error leaves none of the       *)
(* results that this formatter stored for the table before, in neither of  *)
(* the two physical tables: it clears where it has written, although the   *)
(* schema may be migrated, or the lookup fail, in the formatter's life.    *)
NoLeftovers ==
  pc = "ok" /\ clear =>
    \A r \in MadeHere : r.table = report.table =>
      \E x \in ToSet(failures) : r = RowFor(x)

(* With clear set, formatting a failed report again gets it stored in the  *)
(* end: what an earlier attempt left does not stand in the way.  (Without  *)
(* clear it does: a batch committed before the failure is refused.)        *)
EventuallyStored == [](pc = "detect" /\ clear => <>(pc \in {"ok", "idle"}))

(* "generateResultID creates a unique ID for a validation result" (217):   *)
(* no insert is refused, so Format fails only when the database does.      *)
UniqueIds == pc = "failed" => faults > 0
=============================================================================
