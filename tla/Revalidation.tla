---------------------------- MODULE Revalidation ----------------------------
(***************************************************************************)
(* Re-validation on the write path.  Writers change rows and keep the      *)
(* stored verdicts of a table up to date with the use cases of             *)
(* validate_record.go: NeighborhoodsFromRecord with the row's pre-write    *)
(* snapshot (the old side), Neighborhoods after the write (the new side),  *)
(* and Execute for the written record and every neighbour.                 *)
(*                                                                         *)
(* The choreography is the consumer's (the comments at validate_record.go  *)
(* 52-56 and 65-70 and validator.go 29-42 prescribe it); the steps inside  *)
(* Neighborhoods and Execute are the repository's.  Every query is one     *)
(* atomic step against the live database: both read the record once and    *)
(* ask rule by rule later, so a concurrent write can fall in between, and  *)
(* each query can fail and end its call with an error and no results.      *)
(* Assumed of the consumer: snapshot and write are one transaction, a      *)
(* record is re-validated by one writer at a time, and a call that failed  *)
(* is made again.                                                          *)
(***************************************************************************)
EXTENDS CountAcross

CONSTANTS Writers, NoRecord,
          MaxWrites,    \* bound on the writes of a behaviour
          MaxFailures   \* bound on the calls that return an error

ASSUME NoRecordAssumption == NoRecord \notin Records
ASSUME BoundsAssumption == MaxWrites \in Nat /\ MaxFailures \in Nat

VARIABLES db,        \* the tables
          stored,    \* the consumer's verdict per record and rule
          pc,        \* where a writer is on its write path
          target,    \* the record it wrote
          row,       \* the row it walks the rules with: the pre-write
                     \* snapshot, then the row LoadRecord returned
          asked,     \* how many rules the running walk has behind it
          found,     \* the neighbours it has collected (seen, out)
          todo,      \* records it still has to re-validate
          cur,       \* the record its Execute call is for, or NoRecord
          loaded,    \* that record as LoadRecord returned it
          got,       \* the verdicts Execute has computed, in rule order
          writes, failures

vars == <<db, stored, pc, target, row, asked, found, todo, cur, loaded, got,
          writes, failures>>
walk == <<row, asked, found>>
execution == <<cur, loaded, got>>

Walking == {"oldside", "newside"}
Phases == Walking \cup {"idle", "reload", "work"}

TypeOK ==
  /\ db \in Databases
  /\ stored \in [Records -> [RuleIds -> Verdicts]]
  /\ pc \in [Writers -> Phases]
  /\ target \in [Writers -> Records \cup {NoRecord}]
  /\ row \in [Writers -> Rows \cup {Absent}]
  /\ asked \in [Writers -> 0 .. Len(Rules)]
  /\ found \in [Writers -> SUBSET Records]
  /\ todo \in [Writers -> SUBSET Records]
  /\ cur \in [Writers -> Records \cup {NoRecord}]
  /\ loaded \in [Writers -> Rows \cup {Absent}]
  /\ got \in [Writers -> Seq(Verdicts)]
  /\ writes \in 0 .. MaxWrites
  /\ failures \in 0 .. MaxFailures

(* What Execute would report for record x and rule i if nothing moved.     *)
Current(x, i) == Validate(db, x, db[x], Rules[i])
CurrentVerdicts(x) == [i \in RuleIds |-> Current(x, i)]

(* The consumer starts from a full validation of some database.            *)
Init ==
  /\ db \in Databases
  /\ stored = [x \in Records |-> CurrentVerdicts(x)]
  /\ pc = [w \in Writers |-> "idle"]
  /\ target = [w \in Writers |-> NoRecord]
  /\ row = [w \in Writers |-> Absent]
  /\ asked = [w \in Writers |-> 0]
  /\ found = [w \in Writers |-> {}]
  /\ todo = [w \in Writers |-> {}]
  /\ cur = [w \in Writers |-> NoRecord]
  /\ loaded = [w \in Writers |-> Absent]
  /\ got = [w \in Writers |-> <<>>]
  /\ writes = 0
  /\ failures = 0

(* Insert, update or delete record r, keeping its old row for the old side.*)
Write(w, r, new) ==
  /\ pc[w] = "idle"
  /\ writes < MaxWrites
  /\ new # db[r]
  /\ db' = [db EXCEPT ![r] = new]
  /\ row' = [row EXCEPT ![w] = db[r]]
  /\ target' = [target EXCEPT ![w] = r]
  /\ todo' = [todo EXCEPT ![w] = {r}]
  /\ pc' = [pc EXCEPT ![w] = "oldside"]
  /\ writes' = writes + 1
  /\ UNCHANGED <<stored, asked, found, execution, failures>>

(* NeighborhoodsFromRecord, one turn of the rule loop: the query runs now. *)
Ask(w) ==
  /\ pc[w] \in Walking
  /\ asked[w] < Len(Rules)
  /\ found' = [found EXCEPT ![w] =
                 @ \cup NeighborsBy(db, target[w], row[w], asked[w] + 1)]
  /\ asked' = [asked EXCEPT ![w] = @ + 1]
  /\ UNCHANGED <<db, stored, pc, target, row, todo, execution, writes, failures>>

(* NeighborhoodsFromRecord returns; the consumer notes what it named.      *)
Return(w) ==
  /\ pc[w] \in Walking
  /\ asked[w] = Len(Rules)
  /\ todo' = [todo EXCEPT ![w] = @ \cup found[w]]
  /\ asked' = [asked EXCEPT ![w] = 0]
  /\ found' = [found EXCEPT ![w] = {}]
  /\ pc' = [pc EXCEPT ![w] = IF @ = "oldside" THEN "reload" ELSE "work"]
  /\ UNCHANGED <<db, stored, target, row, execution, writes, failures>>

(* Neighborhoods(target), the new side: LoadRecord, then the walk with the *)
(* row it returned.                                                        *)
LoadTarget(w) ==
  /\ pc[w] = "reload"
  /\ db[target[w]] # Absent
  /\ row' = [row EXCEPT ![w] = db[target[w]]]
  /\ pc' = [pc EXCEPT ![w] = "newside"]
  /\ UNCHANGED <<db, stored, target, asked, found, todo, execution, writes, failures>>

(* A record that is gone is an error that leaves nothing to ask.           *)
TargetGone(w) ==
  /\ pc[w] = "reload"
  /\ db[target[w]] = Absent
  /\ pc' = [pc EXCEPT ![w] = "work"]
  /\ UNCHANGED <<db, stored, target, walk, todo, execution, writes, failures>>

(* Defect: a query that fails is passed over (continue, not return).       *)
SkipsFailed(w) == [asked |-> asked[w] + 1, found |-> found[w]]

(* LoadRecord, LoadRulesForTable or a rule's query fails: the call returns *)
(* the error without the neighbours collected so far, and the consumer     *)
(* makes it again from its start.                                          *)
AfterError(w) == [asked |-> 0, found |-> {}]

FailWalk(w) ==
  /\ \/ pc[w] = "reload"
     \/ pc[w] \in Walking /\ asked[w] < Len(Rules)
  /\ failures < MaxFailures
  /\ failures' = failures + 1
  /\ asked' = [asked EXCEPT ![w] = AfterError(w).asked]
  /\ found' = [found EXCEPT ![w] = AfterError(w).found]
  /\ pc' = [pc EXCEPT ![w] = IF @ = "oldside" THEN "oldside" ELSE "reload"]
  /\ UNCHANGED <<db, stored, target, row, todo, execution, writes>>

(* Defect: no lock on the record being re-validated.                       *)
Unlocked(x) == TRUE

NotBeingExecuted(x) == \A v \in Writers : cur[v] # x

Unclaimed(w, x) ==
  /\ pc[w] = "work"
  /\ x \in todo[w]
  /\ cur[w] = NoRecord
  /\ NotBeingExecuted(x)

(* Execute(x), first query: LoadRecord.                                    *)
Start(w, x) ==
  /\ Unclaimed(w, x)
  /\ db[x] # Absent
  /\ cur' = [cur EXCEPT ![w] = x]
  /\ loaded' = [loaded EXCEPT ![w] = db[x]]
  /\ got' = [got EXCEPT ![w] = <<>>]
  /\ todo' = [todo EXCEPT ![w] = @ \ {x}]
  /\ UNCHANGED <<db, stored, pc, target, walk, writes, failures>>

(* Execute(x) of a deleted record: LoadRecord fails, its verdicts go.      *)
Forget(w, x) ==
  /\ Unclaimed(w, x)
  /\ db[x] = Absent
  /\ stored' = [stored EXCEPT ![x] = [i \in RuleIds |-> "none"]]
  /\ todo' = [todo EXCEPT ![w] = @ \ {x}]
  /\ UNCHANGED <<db, pc, target, walk, execution, writes, failures>>

(* Execute(x), one turn of the rule loop: the row is the one loaded at the *)
(* start, the count is taken now.                                          *)
Evaluate(w) ==
  /\ cur[w] # NoRecord
  /\ Len(got[w]) < Len(Rules)
  /\ got' = [got EXCEPT ![w] =
               Append(@, Validate(db, cur[w], loaded[w], Rules[Len(@) + 1]))]
  /\ UNCHANGED <<db, stored, pc, target, walk, todo, cur, loaded, writes, failures>>

(* Execute(x) returns; the consumer stores what it reported.               *)
Finish(w) ==
  /\ cur[w] # NoRecord
  /\ Len(got[w]) = Len(Rules)
  /\ stored' = [stored EXCEPT ![cur[w]] = got[w]]
  /\ cur' = [cur EXCEPT ![w] = NoRecord]
  /\ UNCHANGED <<db, pc, target, walk, todo, loaded, got, writes, failures>>

(* Defect: an error returns the results so far, which the consumer stores. *)
PartialResults(w) == [stored EXCEPT ![cur[w]] = got[w]]

(* A query of Execute(x) fails: it returns no results at all and the       *)
(* consumer keeps the record to try again.                                 *)
ResultsOnError(w) == stored

Fail(w) ==
  /\ cur[w] # NoRecord
  /\ Len(got[w]) < Len(Rules)
  /\ failures < MaxFailures
  /\ failures' = failures + 1
  /\ todo' = [todo EXCEPT ![w] = @ \cup {cur[w]}]
  /\ stored' = ResultsOnError(w)
  /\ cur' = [cur EXCEPT ![w] = NoRecord]
  /\ UNCHANGED <<db, pc, target, walk, loaded, got, writes>>

(* LoadRecord or LoadRulesForTable of Execute(x) fails: nothing happened.  *)
FailToStart(w, x) ==
  /\ Unclaimed(w, x)
  /\ failures < MaxFailures
  /\ failures' = failures + 1
  /\ UNCHANGED <<db, stored, pc, target, walk, todo, execution, writes>>

Done(w) ==
  /\ pc[w] = "work"
  /\ todo[w] = {}
  /\ cur[w] = NoRecord
  /\ pc' = [pc EXCEPT ![w] = "idle"]
  /\ UNCHANGED <<db, stored, target, walk, todo, execution, writes, failures>>

Quiescent == \A w \in Writers : pc[w] = "idle"

(* Nobody has anything left to write.                                      *)
Rest ==
  /\ Quiescent
  /\ writes = MaxWrites
  /\ UNCHANGED vars

Propagate(w) ==
  \/ Ask(w) \/ Return(w) \/ LoadTarget(w) \/ TargetGone(w)
  \/ \E x \in Records : Start(w, x) \/ Forget(w, x)
  \/ Evaluate(w) \/ Finish(w) \/ Done(w)

Next ==
  \/ \E w \in Writers :
       \/ \E r \in Records, new \in Rows \cup {Absent} : Write(w, r, new)
       \/ Propagate(w)
       \/ FailWalk(w) \/ Fail(w)
       \/ \E x \in Records : FailToStart(w, x)
  \/ Rest

Spec == Init /\ [][Next]_vars

(* A writer goes on with the work it owes; it need not write again.        *)
FairSpec == Spec /\ \A w \in Writers : WF_vars(Propagate(w))
-----------------------------------------------------------------------------
(* An idle writer owes nothing; Execute runs only once both sides are      *)
(* known; a record is re-validated by at most one writer at a time.        *)
Bookkeeping ==
  /\ \A w \in Writers :
       /\ pc[w] = "idle" => todo[w] = {}
       /\ pc[w] # "work" => cur[w] = NoRecord
       /\ pc[w] \in Walking \cup {"reload"} => target[w] \in Records
       /\ pc[w] = "newside" => row[w] # Absent
       /\ pc[w] \notin Walking => asked[w] = 0 /\ found[w] = {}
       /\ cur[w] # NoRecord => Len(got[w]) <= Len(Rules)
  /\ \A v, w \in Writers : cur[v] = cur[w] /\ cur[v] # NoRecord => v = w

(* The neighbours of w's record by row r, were the walk to run now.        *)
Side(w, r) == NeighborhoodsFromRecord(db, target[w], r)

(* What w's running walk has found or will find if no query fails.         *)
Collected(w) ==
  found[w] \cup UNION {NeighborsBy(db, target[w], row[w], i) :
                         i \in {j \in RuleIds : j > asked[w]}}

(* Some writer still has record x on its list, or will put it there with   *)
(* the walks it has not finished, whether a query of theirs fails, and the *)
(* call is made again, or not.                                             *)
OwedBy(w, x) ==
  \/ x \in todo[w]
  \/ pc[w] = "oldside" /\ x \in Side(w, row[w]) \cap Collected(w)
  \/ pc[w] \in {"oldside", "reload"} /\ db[target[w]] # Absent
       /\ x \in Side(w, db[target[w]])
  \/ pc[w] = "newside" /\ row[w] = db[target[w]]
       /\ x \in Side(w, row[w]) \cap Collected(w)

Owed(x) == \E w \in Writers : OwedBy(w, x)

(* Writer w's running Execute is going to report today's verdict of rule i.*)
OnCourse(w, i) ==
  IF i <= Len(got[w]) THEN got[w][i] = Current(cur[w], i)
                      ELSE loaded[w] = db[cur[w]]

(* A verdict that is not today's is on some writer's list, or is being     *)
(* recomputed from today's data: a stored verdict that is stale and        *)
(* nobody's business stays stale until the record itself is next written.  *)
StaleIsOwed ==
  \A x \in Records : \A i \in RuleIds :
    \/ Owed(x)
    \/ \E w \in Writers : cur[w] = x /\ OnCourse(w, i)
    \/ (\A w \in Writers : cur[w] # x) /\ stored[x][i] = Current(x, i)

(* The rules for which a neighbourhood is the mirror image of a count: the *)
(* rule counts in its own table and compares a column with itself.         *)
SymmetricRules ==
  \A i \in RuleIds : Rules[i].validator = "count_across" =>
    /\ Rules[i].table = Rules[i].on
    /\ \A m \in Rules[i].match : m.target = m.self

(* When every writer has finished, every stored verdict is what validating *)
(* the record afresh would give (the promise of validate_record.go 52-56:  *)
(* the "other side" re-runs to see that R now, or no longer, matches).     *)
AllFresh == \A x \in Records : stored[x] = CurrentVerdicts(x)
QuiescentIsFresh == Quiescent => AllFresh

(* Uniqueness is mutual (expected max 0 with exclude_self, count_across.go *)
(* 41): when the writers have finished, records that share a key are all   *)
(* reported, never only the one written last.                              *)
IsUniqueness(u) ==
  /\ u.active /\ u.validator = "count_across" /\ u.conditions = {}
  /\ u.table = u.on /\ u.excludeSelf /\ u.skip /\ u.expected.max = 0
  /\ \A m \in u.match : m.target = m.self
ShareKey(x, y, u) ==
  /\ TableOf[x] = u.on /\ TableOf[y] = u.on /\ db[x] # Absent /\ db[y] # Absent
  /\ \A m \in u.match : db[x][m.self] = db[y][m.self] /\ ~ isEmpty(db[x][m.self])
DuplicatesAllReported ==
  Quiescent =>
    \A i \in RuleIds : IsUniqueness(Rules[i]) =>
      \A x, y \in Records : x # y /\ ShareKey(x, y, Rules[i]) =>
        stored[x][i] = "fail" /\ stored[y][i] = "fail"

(* Every record whose verdict a write changes is the written record or one *)
(* of its neighbours, before or after the write (validate_record.go 45:    *)
(* the records whose validation results may have changed).                 *)
WriteReachesChanged(r) ==
  \A x \in Records \ {r} :
    CurrentVerdicts(x) # CurrentVerdicts(x)' =>
      \/ x \in NeighborhoodsFromRecord(db', r, db[r])
      \/ x \in NeighborhoodsFromRecord(db', r, db'[r])
NeighborhoodsComplete ==
  [][\A r \in Records : db'[r] # db[r] => WriteReachesChanged(r)]_vars

(* Every write is followed up: the stored verdicts settle on the right     *)
(* ones once the writes stop.                                              *)
EventuallyFresh == <>[]AllFresh
=============================================================================
