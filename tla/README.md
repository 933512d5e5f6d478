# gsvalidator in TLA+

This directory specifies the parts of gsvalidator that are hard to test: what
happens when several goroutines validate and write at once, when a table pass
reads a table that moves, when storing results is interrupted, when many
goroutines share one validator or load the rules for the first time together,
when related rows change or queries fail in the middle of a validation, and when
the tree validators meet trees that are not trees. Every module is written from
the Go code; `PROJECT.json` maps each definition to the lines it stands for.

- [Reading order](#reading-order)
- [The system](#the-system)
- [Modules](#modules)
- [Runs](#runs)
- [Bounds](#bounds)
- [Fairness](#fairness)
- [Proofs](#proofs)
- [Where code and documentation differ](#where-code-and-documentation-differ)
- [What is left out](#what-is-left-out)
- [Plan](#plan)

`tlc -config MCRevalidation.cfg MCRevalidation` checks a run,
`tlapm RevalidationProofs.tla` checks a module's proofs.

## Reading order

`CountAcross` (what a count over other rows means), `Revalidation` (the write
path), `RevalidationProofs`; then, in any order,

- `Conditions`, `Relations`, `CheckDigits`, and `RecordRules` on top of them: one
  validation of one record;
- `TablePass`: a pass over a table;
- `ResultStore`: storing what a pass reports;
- `RuleLoaders`, `Requirements`, and `StartUp`, which joins them;
- `PatternMemo` and `RegexCache`;
- `ParentChain`.

The theorems about a module are in the one named after it with `Proofs`; those about
`RuleLoaders` and `Requirements` are in `StartUpProofs`, those about `Severity` in
`TablePassProofs`.

## The system

gsvalidator is a library. A consumer (a web service, a command) gives it a SQL
database, a rule loader, a schema mapper and a registry of validators, and calls
its use cases. It runs no goroutine of its own; concurrency comes from the
consumer, which may call any use case from many goroutines on one set of objects.

| Component | State it keeps | Operations | Calls |
|---|---|---|---|
| `ValidateRecordUseCase` | none, but the relation resolver it is given once | `Execute`, `Neighborhoods`, `NeighborhoodsFromRecord` | schema mapper, rule loader, registry, validators; each a query of its own |
| `ValidateTableUseCase` | none; builds a report | `Execute` | `LoadAllRecords`, then a record use case per record |
| `count_across` | none | `Validate`, `Neighborhood` | one SQL count, one SQL select |
| tree validators: `no_self_cycle`, `ancestor_exists`, `ancestor_field_check`, `parent_rank_higher` | none | `Validate` | one or two SQL statements, three of them recursive |
| `regex` | map of compiled patterns behind an RWMutex | `Validate` | `regexp.Compile` |
| `SQLiteFormatter` | table prefix, detected once; the rows it has written | `Format` | DDL, DELETE, one transaction per batch |
| enforcement and severity (`domain`) | none | `NewResult`, `EffectiveEnforcement`, `EffectiveSeverity`, `IsHardFailure` | – |
| conditions and operators (`domain`) | none | `EvalConditions`, `evaluate`; `equalValues`, `inSet` | relation resolver |
| `RelationResolver`, `related_field_*`, `foreign_key_exists` | the bundle's relation catalogue | `ResolveOne`, `ResolveMany`, `LookupRelated` | one SQL join |
| `BundleLoader`, `JSONRuleLoader` | parsed rules and an index by ID, cached without a lock | `LoadPackage`, `LoadRules`, `LoadRuleByID`, `LoadRulesForTable` | file read, JSON parse |
| requirements check | none | `CheckRequires` | one introspection query per table |
| `check_digit`, `length`, `range`, `presence`, `absence` | none | `Validate` | the record's own field |

What is hard about it, and what makes each part correct:

- **Validation is not atomic.** `Execute` reads the record once and every
  validator queries the live database later. A verdict can mix two moments, and
  so can a neighbourhood, which asks rule by rule. Any of these queries may fail
  and end its call without what the earlier ones found.
- **Verdicts depend on other rows.** A write to one record changes the verdicts
  of others. `Neighborhoods` must name them all, by the old row and by the new
  one, and the consumer must re-validate them; otherwise a stored verdict is
  stale until somebody happens to write that record. *Correct* means: when the
  writers are done, every stored verdict is what validating afresh would give.
- **A table pass opens no transaction.** *Correct*: its report adds up, is exact
  when nobody writes, and under writes neither misses a duplicate that stood all
  along nor reports one that had no twin at any moment.
- **Storing results takes several transactions.** *Correct*: success means the
  whole report is stored, failure or a crash leave whole batches, other tables
  are untouched, and formatting again gets through.
- **A shared cache is filled under concurrency.** *Correct*: a pattern is
  compiled once, errors are not remembered, no lock is left held.
- **Rules are loaded lazily and without a lock.** Every goroutine that validates
  shares one loader. *Correct*: a list is always one version of the source, whole
  and in order; what is listed can be looked up; after the first load nothing
  changes any more; a failed read leaves nothing behind.
- **A gate and its rule look at different moments.** Each relation-scoped
  condition and each `related_field_*` rule runs a query of its own. *Correct*: a
  rule runs only if each of its conditions held at some moment of the call, a
  gate that stands all along is never missed, a verdict has a row that explains
  it, and a call fails only for a rule it really came to.
- **The required schema is read table by table** while a migration may run.
  *Correct*: the report judges each table as one shape it had.
- **Check digits are arithmetic nobody re-reads.** *Correct*: they refuse the two
  typing errors they exist for.
- **Trees in the database may have cycles.** *Correct*: the recursive queries
  end, find exactly the cycles and the ancestors within the cap, and single-hop
  rank checks are enough to exclude cycles.

## Modules

| Module | Models | State | Actions |
|---|---|---|---|
| `CountAcross` | `count_across.go`, rule gating, the neighbourhood walk, as operators over a database value | – | – |
| `Revalidation` | the write path around `validate_record.go` | `db`, the consumer's `stored` verdicts; per writer `pc`, `target`, the running walk (`row` it asks with, rules `asked`, neighbours `found`), `todo`, the running `Execute` (`cur`, `loaded`, `got`) | `Write`, `Ask`, `Return`, `LoadTarget`, `TargetGone`, `Start`, `Forget`, `Evaluate`, `Finish`, `Done`; the failing calls `FailWalk`, `FailToStart`, `Fail` |
| `TablePass` | `validate_table.go` | `db`, the loop's variables, `report`, and `past`, the databases since the pass began | one per query and loop turn; `Write` by another process, `Fault` for a failing query |
| `Severity` | labels of rules and results | – | – |
| `ResultStore` | `sqlite_formatter.go` | committed `rows`, open transaction `tx`, detected `prefix`, position, and `born`, the second in which the formatter was made | `Format`, `DetectPrefix`, `EnsureTable`, `ClearOldResults`, `InsertRow`, `CommitBatch`, and `DetectFails`, `InsertRefused`, `StatementFails`, `Crash`, `Retry`, `Migrate` |
| `PatternMemo` | what `getCompiledPattern` promises | `memo`, `arg`, `res` | `Invoke`, `Answer`, `Return` |
| `RegexCache` | `getCompiledPattern` under Go's RWMutex | `cache`, the lock (`readers`, `queued`, `writer`), per-caller `pc`, `arg`, `res` | one per lock operation and map access |
| `ParentChain` | the four tree validators | `tree`, the query's `chain` and `queue`, `self` (fields read by a first statement), `verdict`, and `upThen`, the parent's fields at that moment | `LoadSelf`, `Seed`, `Step`, `SelectSelf`, `SelectMatch`, `NoAncestor`, `CompareFields`, `CompareRanks`; `QueryFails`, `Write` |
| `Conditions` | `condition.go`, the comparisons of `operator.go`: what a value prints as, parses as, scans as | – | – |
| `Relations` | the join query of `joins/resolver.go` by what it selects, and which relations it refuses | – | – |
| `CheckDigits` | the six algorithms of `check_digit.go` over sequences of character values | – | – |
| `RecordRules` | `Execute` with relation-scoped gates, and `related_field_*`, `foreign_key_exists`, `absence`, `range`, `length`, `check_digit` | `db`, `record` (read once), the loop's `rule` and `cond`, `results`, and `seen`, the databases since the record was read | `LoadRecord`, `RecordGone`, `SkipRule`, `OwnCondition`, `RelatedCondition`, `Applies`, `ValidateOwn`, `ValidateRelated`, `RuleError`, `Return`; `Write` by another process, `QueryFails`, `FetchFails` |
| `RuleLoaders` | `bundle_loader.go`, `json_rule_loader.go` | the source `file`, the shared `cached` and `index`; per caller `pc`, `op`, `parsed`, `pos`, `answer` | `Call`, `Check`, `Look`, `Take`, `Read`, `Store`, `Make`, `Fill`, `Filled`, `HandOver`, `List`, `LookUp`, `Return`; `ReadFails`, `Change` of the source, `Crash` |
| `Requirements` | `requires_check.go`, `domain/requires.go` | live `schema`, `tablesToCheck`, `tableCols`, `report`, and `shapes`, what each table has looked like | `Begin`, `Introspect`, `IntrospectFails`, `Conclude`, `EndCheck`; `Migrate` |
| `StartUp` | a consumer's start: load the package, check its requirements, activate | both of the above | `StartCheck`, `Activate`, and theirs |

`Revalidation` and `TablePass` both extend `CountAcross`; `TablePass` also
extends `Severity`. `RecordRules` extends `Relations` (which extends
`Conditions`) and `CheckDigits`; `StartUp` extends `RuleLoaders` and
`Requirements`. `RegexCache` implements `PatternMemo` (`INSTANCE` with
`memo <- cache`). The modules beginning with `MC` give the constants values for
TLC; those ending in `Proofs` hold theorems.

**The grain of atomicity** is one SQL statement, or one access to memory that
goroutines share. A statement sees one snapshot; between two statements of a
call anybody may write. In `ParentChain` the recursive query is run row by row
as SQLite runs it (take a row from the queue, evaluate the recursive term, keep
what UNION has not seen), in any queue order, although the tree cannot change
meanwhile; that is what shows that the query ends. In `RuleLoaders` every load
and store of a field that goroutines share is a step, and so is every turn of
the loop that fills the index; a source is read whole in one step. The JSON
loader looks at its list up to three times in one call (`Check` in
`LoadRulesForTable` and `LoadRuleByID`, `Look` and `Take` in `LoadRules`), and a
later look may find another list, or one without rules. Stores
become visible in program order, which holds for the x86-64 build; Go promises
less. The one consequence of the race that Go adds by itself, ending a process
that it catches writing a map others use, is the action `Crash`; the process
starts again with an empty loader.

**The consumer** is not in this repository. `Revalidation` takes its
choreography from the comments that prescribe it (`validate_record.go` 52–56
and 65–70, `validator.go` 29–42): snapshot the row, write it, ask for the
neighbours of the old row and of the new row, execute each, store the results.
The two walks are modelled as the code runs them: the old side starts from the
snapshot, the new side from a `LoadRecord` of its own, which may return a row
that another writer wrote, and each then runs one query per provider rule
against the database of that moment. `FailWalk` is a failure of any of them:
the call returns no neighbours at all. Three things are assumed of the
consumer: snapshot and write are one transaction, a record is re-validated by
one writer at a time, and a call that failed is made again. Without the second
the later of two overlapping runs may store an older verdict, which the
definition `Unlocked` shows when it takes the place of `NotBeingExecuted`;
without the third the neighbours of the failed walk stay stale. `StartUp`
takes from `domain/requires.go` 3–7 that the consumer checks a package before
it activates the rules, and assumes that it makes no other call of the loader
meanwhile. The definitions that belong to the consumer are marked external in
the map.

Some definitions carry a comment that starts with *Defect*: each is a plausible
mistake at the place of the definition below it (a dropped guard, a bound off by
one, a missing reset). They are used by no specification. Substituting one for
the real definition makes a run fail, which shows that the run's property
depends on that line of the code.

## Runs

| Run | Expect | Shows |
|---|---|---|
| `revalidation` | pass | Two writers, two overlapping writes, three records, a uniqueness rule and a rule that counts its own row and empty cells, writes between the queries of a neighbourhood walk, one failing query of a walk or of an `Execute`. `StaleIsOwed`: a stored verdict that is not today's is on some writer's list, will be put there by a walk that has not finished, or is being recomputed from today's data. `QuiescentIsFresh` and `DuplicatesAllReported` follow when the writers are idle. `NeighborhoodsComplete`: the two neighbourhoods of a write name every record it affects. |
| `revalidation_liveness` | pass | With conditional, presence and inactive rules and a failing query of a walk or of an `Execute`: `EventuallyFresh`, the verdicts settle. |
| `cross_table_neighbors` | violation | A rule of one table counts in another: nobody is told. |
| `table_pass` | pass | Three records, four rules, two concurrent writes, one failing query, five setups (a gate on an inactive rule, a gate on an applicable one, an unregistered validator, a key not called `id`). `FailureIsExplained`: unless a query failed, a pass fails at a record it has come to, deleted under it or with a row that a rule applies to which cannot be evaluated, and got past every record before it rightly. `DuplicateHasWitness`: a reported duplicate held a key that another record held then or later, when it was counted. Also `QuietPassIsExact`, `StandingDuplicatesReported`, `ReportAddsUp`, `PassEnds`. |
| `every_record_validated` | violation | A table keyed by another column name is skipped silently. |
| `relation_gate` | violation | A relation-scoped condition fails the pass. |
| `result_store` | pass | Reports of two tables, batches of two, two faults (failing statement, failing lookup or crash), a migration, both values of `clear`. `SuccessIsComplete`, `WholeBatches`, `OthersUntouched`, `EventuallyStored`, and `NoLeftovers`: with `clear`, a success leaves none of the rows the formatter stored for the table before, in neither schema. |
| `unique_ids` | violation | Two results get one key. |
| `regex_cache` | pass | Three goroutines, a pattern that compiles and one that does not. `Memoizes` (the refinement), `MapAccessExclusive`, `CallsReturn`. |
| `parent_chain` | pass | Every tree over three taxa, cycles, deleted rows and dangling parents included; eight rules, with and without a join; a write between two statements, and statements that fail. `RankVerdictOfOneTree`: a verdict is that of the tree at the second statement, of a new parent if the record was moved in between, or of the tree at the first, unless the write changed both the record's fields and its parent's. Also `CyclesAreReported`, `AncestorIsFound`, `NearestAncestorDecides`, `RanksExcludeCycles`, `WalkEnds`. |
| `start_up` | pass | Two goroutines on one loader of either kind; a source that changes between four versions (two rules, one, none, one that is refused), a read that fails, a crash; then `CheckRequires` over three tables with a migration between two of its queries. `ListsAreVersions`, `ListedIsFound`, `KeptForGood`, `ReportIsOneLook`. |
| `record_rules` | pass | Gates that exclude each other, a parent that is a foreign key, a chain of two joins, a name two taxa use: each with three writes and a failing query. Nine rules that cannot be evaluated, plain, inactive, and behind a gate. Every condition operator and every single-field validator on ten kinds of value; `check_digit` also on an empty text, a text that is no identifier and a number, and with an algorithm it does not know. Eleven identifiers of six kinds with every substitution and every transposition. `GatesAreExplained`, `VerdictsHaveWitness`, `FailureIsExplained`, `TyposAreReported`. |

Deadlock is checked in every run; a system that may stop has an explicit
stuttering action for it (`Rest`, `Done`, `Ended`).

## Bounds

- *Records, taxa.* Three records give a written record, a neighbour it leaves
  and a neighbour it joins; two duplicates and a third that moves. Three taxa
  give self-loops, cycles of two and three, a cycle the record is not on, and
  an ancestor at depth two behind a nearer one.
- *Cells.* One value, NULL and the empty string: equality is all the counts ask.
  One value is enough to share and to leave a key; the two empties are what the
  skip rules and SQL's `=` treat differently.
- *Writers and writes* (`MaxWrites`). Two writers with a write each is the least
  that overlaps. The theorems of `RevalidationProofs` have no bound on either.
- *Failures* (`MaxFailures`, `MaxFaults`). One failure, of whichever query,
  shows the retry; two faults in `ResultStore` give a failure in the retry of
  a failure and a crash after one. Unlimited failures would defeat liveness,
  in the code too.
- *Batches.* Two rows a batch with reports of none, two and three failures: no
  batch, one full batch, a full and a partial one.
- *Seconds.* A clock of four seconds allows three reports. A report is made in a
  later second than the one before, which is the case in which keys repeat only
  by retry. Results of one second are those of one report.
- *max_depth.* 2 cuts a chain of three taxa, 3 does not, 0 is what a fraction
  below one is truncated to.
- *Goroutines on a loader.* Two: a first load that overtakes another is the least
  that can mix two versions. One change of the source puts a version between
  two reads; two rules give the index a half-filled state and, with one of them
  inactive, the two loaders different lists. One migration (`MaxMigrations`)
  falls between any two of the queries of a check.
- *Writes and faults of a validation.* Three writes change the row under the
  gate, the row under the rule, and the record itself; one fault falls on each
  query in turn. Setups without relations need no writer.
- *Identifiers.* Eleven, at least one of each algorithm, with and without X
  where X may occur; the errors are exhaustive over a 32-character alphabet.
  `CheckDigitsProofs` and `RecordRulesProofs` take the identifiers without
  bound.

`Revalidation` uses symmetry of records and of writers, in the run that has no
liveness property and whose rules name no record.

## Fairness

- `Revalidation`: weak fairness of each writer's own follow-up work, not of
  writing and not of failing. It is the consumer's loop over its walks and its
  list, in which a call that failed is made again. Two writers cannot starve
  each other: a record is held only for the length of one `Execute`, and once
  the writes are over no list grows.
- `TablePass`, `ParentChain`: weak fairness of the one sequential call. Go runs a
  goroutine that can run; SQLite evaluates a query it has begun.
- `StartUp`, `RecordRules`: none. Their properties are safety properties; that a
  finite loop ends needs no run.
- `ResultStore`: weak fairness of the formatter and of the consumer's retry.
  Without a consumer that tries again nothing repairs a table that was cleared
  and not filled.
- `RegexCache`: weak fairness of a goroutine inside a call, and strong fairness
  of taking the writers' mutex, because `sync.Mutex` hands itself over to a
  waiter that has starved for a millisecond. Calling is not fair: a goroutine
  may never call.

## Proofs

The theorems hold for every value of the constants that the modules' `ASSUME`s
allow: any finite set of records, any rule list, any number of writers,
goroutines, taxa.

**`RevalidationProofs`.** `TypeCorrect`, `StaleVerdictsAreOwed`,
`FreshWhenQuiescent`, `DuplicatesAreAllReported`, `NeighborhoodsAreComplete`.
`StaleIsOwed` alone is not inductive: that nothing is stale at the end needs
to know that an idle writer owes nothing and that two writers never execute
one record, hence the invariant `TypeOK /\ Bookkeeping /\ StaleIsOwed`. What a
writer owes (`OwedBy`) is its list and what its walks will still put there. A
walk halfway through counts only what it has found or will find (`Collected`)
that is also a neighbour today: what it missed because the database moved
between its queries is the business of the writer who moved it, and what it
will lose if a query fails is owed only because the call is made again. The
heart is a lemma about one write: if a count of record x changes when row r
changes, then r's old or r's new row matches x's key, and because the rule
compares each column with itself, x is in the neighbourhood of r by that row;
the two walks that the writer of r begins then owe it. This is why the
theorems assume `SymmetricRules` (counting in the rule's own table, comparing
a column with itself). The run `cross_table_neighbors` shows that the
assumption is needed. Every later action then either keeps x on a list, or
moves it from list to execution (with today's row), or stores what the
execution found; and a second write during the execution puts the record back
on a list.

**`RegexCacheProofs`.** `TypeCorrect`, `NoConcurrentMapAccess` and
`CacheMemoizes`, the refinement of `PatternMemo`. The invariant is `TypeOK`
with `LockBooks` and `CallBooks` (`BooksAgree`): the lock's
variables agree with the callers' positions, and a pattern missed under the
write lock is still missing when it is filled in.

**`ParentChainProofs`.** `TypeCorrect`; `CyclesAreFound`: `no_self_cycle` fails
exactly the records on a cycle. The strengthening `WalkBooks` says that the
chain contains the parent, that it is closed under parents but for the rows in
the queue, and that it lies in every closed set with the parent; when the queue
is empty it is the least such set. `RanksForbidCycles`: among taxa whose parents
are all among them and whose ranks are comparable, the one with the least
ordinal fails `parent_rank_higher`, by well-foundedness of the naturals. It
makes precise, and bounds, the "monotonic by induction" of
`parent_rank_higher.go` 14–17: all hops of the cycle must be comparable.
`AncestorsAreFound` and `NearestAncestorIsCompared` need the walks with a depth.
`HopBooks` says that a row at depth k is the ancestor of k hops and that a row
that is done with has its parent's row among the chain. When the queue is empty,
counting the hops shows that the chain has the ancestors of all depths
(`ClimbComplete`), hence the least matching depth is that of the nearest matching
ancestor. `SelfBooks` says that a second statement is only made for a
record that was there at the first. `RankVerdictsAreOfOneTree` is inductive as it
stands: the verdict pairs the record's fields of the first statement with its
parent's of the second, in whichever tree that is; where the record's fields, or
the parent's, are the same at both moments the pair is of one tree, so only a
write that changes both can be answered with a mixture.

**`TablePassProofs`.** `TypeCorrect`, `FailuresExplained`, `CountersAgree`,
`DuplicatesHaveWitnesses`, `DuplicatesAreReported`, `QuietPassesAreExact`, for
any finite set of records, rule list, setups and number of writes and faults.
Common to all is `IInv`: `PassBooks` (the loop's position, the databases since
the pass began), `LocalBooks` (which results of the current record there are),
`Labelled` (each result carries its rule's labels). On it rest four more
invariants. `Reached`: every record behind the loop had a row all its rules
could validate, and the rules behind the loop are not in the way of the record
at hand, which is what tells where a failing pass was. `WitnessBooks`: a
failure of a uniqueness rule has two moments of the history, in order, at
which the record and another held one key. `DuplicatesFound`: the standing
duplicates that the pass has dealt with have failed. `QuietBooks`: while
nothing is written, the results so far are exactly those of the pairs of
record and rule behind the loop. The counters follow because appending a
result moves each count by the size of a set of positions. The proof corrected
the model in one place: `DuplicateHasWitness` does not hold for every
`count_across` rule, but for rules that expect no other record (`Uniqueness`
asks for `max` 0 and no `min`), since a rule that expects at least one record
fails the lonely one. The severity of a row is here too:
`HardFailureFollowsEnforcement` (the counters of a report follow the
enforcement) and `LegacyReaderAgrees` (a stored row, which keeps the severity
only, still tells hard from soft for rules that leave their severity to the
default).

**`ResultStoreProofs`.** `TypeCorrect`, `SuccessesAreComplete`,
`BatchesAreWhole`, `OthersAreUntouched`, `NothingIsLeftOver`, for any reports,
batch size, number of faults, and any names (sequences of tokens that include
the separator, so that joined names may coincide as they do in `unique_ids`).
`SuccessIsComplete` and `WholeBatches` are not inductive. `Progress` is the
heart: at any time the rows of the report that is being formatted are the
first k of its failures, where k is a multiple of the batch size or all of
them, and k is where the loop is, unless a report is about to be inserted
again without having been cleared, which its keys will refuse. `Opened` says
what the open transaction holds and that its keys are free, `Keys` and `Dated`
that keys are unique and no row has a second that is yet to come; the last is
what makes the rows of one report those of one second. `NothingIsLeftOver`
adds `Lives`: every row with a second of this formatter's life is in the table
it has detected, so the clearing of that table finds all of them, and
`Progress` says that what is there afterwards is the report's.

**`StartUpProofs`.** `TypeCorrect`, `ListsAreOneVersions`,
`ListedRulesAreFound`, `LoadedForGood`, `ReportsAreOneLook`, for any number of
goroutines, versions of the source, changes of it, tables and migrations. On
the loader's side the invariant is `LoaderBooks`: `Places` (what a caller's
position says of the version it parsed or took, which may be one without rules
if the source ever was), `Indexed` (what the JSON loader has gone through can
be looked up, for good) and `Fitting`: if one version only was ever filled in,
the index is that version's but for the rules that some caller will still
write. The lists are built by a loop, and `ListingLists` shows by counting its
turns that it lists what was asked for, in order. On the check's side `Seen`
says that every table behind the check is known by a shape it had since the
check began.

**`CheckDigitsProofs`.** `SubstitutionsAreReported` and
`TranspositionsAreReported`, for all six algorithms and every identifier: an
error at weight w changes the sum by w times the difference of two characters,
and for every weight and modulus such a product is no multiple of the modulus
unless the difference is zero. The ISBN-13 modulus 10 is not prime, its
neighbouring weights differ by 2, and 2 times 5 is 10. `luhn` sums a number of
any length in a loop; two numbers that differ in one digit have partial sums
that agree up to it and differ by what it counts from there on (`LuhnPut`),
doubling keeps the digits apart, and it shifts no two digits alike but 9
and 0. This is where the exchanges in `Unseen` come from, and
`BlindTranspositionsPass` proves that all of them pass.

**`RecordRulesProofs`.** `TypeCorrect`, `EveryGateIsExplained`,
`EveryFailureIsExplained`, `EveryVerdictHasWitness`, `EveryTypoIsReported`,
for every rule list, catalogue of relations, database, and number of writes
and faults. None of the properties is inductive. `LoopBooks` says where the
loop can be. `GateBooks` says that the conditions behind the loop held when
they were asked, `ReportBooks` that the rules behind it are reported in order
or rightly left out; with them a refusal is always one of a place the loop
could come to. `RowBooks` says that every database the call may have seen has
columns in every row, which is what tells a related row from none. The
argument common to all is that an explanation once true stays true: after the
record is read the databases seen only grow (`Grows`), and every property asks
for some moment of the call, never for the present one. That is also the most
the code can promise, since it asks each question in a query of its own. The
assumption (`CallAssumption`) is that rules and conditions are lists and that
rows are rows. `EveryTypoIsReported` joins the call to the arithmetic:
`OwnBooks` says that the record read is a row the setup gives it, `CheckBooks`
that what `check_digit` reported is what it computes from that row, and the
theorems of `CheckDigitsProofs` do the rest. It takes from the setups what "an
intended identifier" means: the field has it or one typing error of it
(`IntendedAssumption`, which TLC evaluates), and it is valid
(`IntendedAreValid`; each is also typed correctly in the run, and passes).

**Induction.** The theorems about recursive functions (the way up a tree, a filter
loop, a sum of digits, the failures of a report) are proved through sets of
numbers: a nonempty one has a least member (`LeastOf`, from the library's
`WFMin` and `NatLessThanWellFounded`), so one that contains 0 and every successor
is `Nat` (`Counting`). The library's induction theorems take an operator and
cannot be instantiated by the installed provers. Each module that counts has
its own copy of the two lemmas.

Only model-checked: the liveness properties `EventuallyFresh`, `PassEnds`,
`EventuallyStored`, `CallsReturn`, `WalkEnds`, since the prover has no ENABLED.
Every other property of a passing run is stated by a theorem. The properties
of the four violation runs are false, and are refuted by TLC.

## Where code and documentation differ

Four disagreements are shown by the violation runs:

- `validate_record.go:78`: neighbourhoods stop at the table
  (`cross_table_neighbors`);
- `validate_table.go:71`: the key is read from a column called `id`
  (`every_record_validated`);
- `validate_table.go:67`: the record use case of a pass has no resolver
  (`relation_gate`);
- `sqlite_formatter.go:220`: result keys repeat (`unique_ids`).

Six more are visible in what a passing run's property has to allow:

- `check_digit.go:14`: "adjacent-digit transposition" is not caught throughout,
  by `isbn13` and `luhn` (`Unseen` in `TyposAreReported`).
- `bundle_loader.go:65`: first loads that overlap do parse twice, and may leave the
  list of one version with the index of another (`ListedIsFound`).
- `rule.go:45`: `Priority` is documented as the execution order; rules run in the
  loader's order (`GatesAreExplained`).
- `operator.go:147`: a JSON number from 1e+06 on does not equal the same database
  integer in a `related_field_*` rule, though it does in a condition
  (`VerdictsHaveWitness`, which compares what is printed).
- `sqlite_formatter.go:77`: an error of the prefix lookup is taken for the answer
  "legacy schema" and remembered, so a formatter stores into the legacy table of
  a migrated database for the rest of its life (`NoLeftovers`, which can only ask
  that it clears where it wrote).
- `resolver.go:109`: a failure while a row is fetched is "no related row"
  (`VerdictsHaveWitness`, after a fault).

Observed while modelling, stated by no property:

- `range.go:65` mentions the bound `current_year + 5`; only `current_year` is
  known, and a bound that is not a number bounds nothing.
- `related_field_*` and `foreign_key_exists` verdicts, and relation-scoped gates,
  change when a related row does, and no neighbourhood names the records that
  look at it: the gap of `cross_table_neighbors`, for rules of another kind.
- `severity.go:19` says a hard rule always emits `error`. `EffectiveSeverity`
  gives an explicit severity precedence, and a rule with `validation_type`
  `warn` and enforcement `hard` emits `warn`. `HardFailureFollowsEnforcement`
  shows that the counters are right all the same.
- Without `clear`, a report that failed after a committed batch can never be
  formatted again: its keys are taken.
- A formatter that lives across the migration goes on writing the legacy table
  (and clearing it: `NoLeftovers`).
- Rows that an earlier formatter stored under the other prefix stay beside a new
  report; `clear` looks at one table.

## What is left out

- *Left out of modelled parts*: SQL text and identifier checks (values are bound
  as parameters; the models take identifiers as given), messages, progress
  output, timestamps except the second in a result's key, parameter errors of
  the validators (they behave as a failing query does). `ParentChain` uses one
  join for `stop_when` and `assert` together and the operators `in`, `not_in`
  (of which `equals`, `not_equals` are the cases of one value), `equals` and
  `greater_than_or_equals`.
- *In `Conditions`* a value is what the code reads off it (its Go type, what it
  prints as, parses as, scans as, its length), given with the instance. Two values
  are deeply equal if they have one type and print alike, which holds for the
  strings, numbers and booleans a row or a rule holds. Substrings and regular
  expressions are the set of strings they match. Of the operators of
  `operator.go` those that a modelled validator uses are translated.
- *In `Relations`* the query is what it selects. Identifier checks (`safeIdent`,
  `splitStepRef`), the checks for an empty target table, a column name or a primary
  key that is missing, quoting, and SQLite's affinity in comparing a filter's text
  with a column are left out: the names of a catalogue are taken as well formed,
  and the filters compare values of one kind. An ON clause may name any scope of
  the query, one joined later included, as SQLite allows for inner joins.
- *In `CheckDigits`* the identifier has been stripped of prefix, spaces and
  hyphens and its letters are of one case; how a field is split into identifiers
  is given with the value (`tokens`). A text that is no identifier is a token
  that every algorithm refuses, and an empty one has none.
- *In `RecordRules`* fields or relations a rule's parameters lack, and
  `allowed_values` that are not a list, are left out: the validators return an
  error, for a missing parameter before they ask for anything, for the list when
  they come to compare. Either fails the call as a rule in `Misfit` does.
- *In `RuleLoaders`* parsing is a property of the version (`valid`), the file is
  read in one step, and the accessors of a package (`GetTableByName`) are pure.
- *In `Requirements`* the report is its four lists; its wording is left out.
- *Not modelled*: the validators' names and `Register` (a consumer fills the
  registry before it validates; the models have the set of names registered);
  autofix (always an error); `ParseEnforcement`, `ParseSeverity` and the rule
  triggers (no use case calls them); data declarations.

## Plan

Every component with state or control is modelled. What is left:

1. Proofs: that the locks of `RegexCache` let somebody in, as far as it can be said
   without ENABLED (no state in which every caller waits); an abstract
   specification of the store (a report is there or not) that `ResultStore`
   implements.
2. `RecordRules` on the write path of `Revalidation`: which writes change a
   relation-scoped verdict, and what a reverse neighbourhood would have to name.
3. `StartUp` with a package that is reloaded by a new loader while the old one is
   still in use, should the library get an operation for it.
