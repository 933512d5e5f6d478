-------------------------- MODULE ResultStoreProofs --------------------------
(***************************************************************************)
(* What the validation_results table holds, for every report, batch size   *)
(* and clear option, and any number of failing statements and crashes.     *)
(***************************************************************************)
EXTENDS ResultStore, FiniteSetTheorems, NaturalsInduction, WellFoundedInduction, TLAPS

(* A nonempty set of numbers has a least one.                              *)
LEMMA LeastOf ==
  ASSUME NEW N \in SUBSET Nat, N # {}
  PROVE  \E n \in N : \A m \in N : n <= m
<1> DEFINE Less == {p \in Nat \X Nat : p[1] < p[2]}
<1>1. OpToRel(<, Nat) = Less
  BY DEF OpToRel
<1>2. IsWellFoundedOn(Less, Nat)
  BY <1>1, NatLessThanWellFounded
<1>3. PICK n \in N : \A m \in N : <<m, n>> \notin Less
  BY <1>2, WFMin
<1>4. ASSUME NEW m \in N PROVE n <= m
  <2>1. n \in Nat /\ m \in Nat
    OBVIOUS
  <2>2. ~ (m < n)
    BY <1>3, <2>1
  <2> QED
    BY <2>1, <2>2
<1> QED
  BY <1>4

(* A set of numbers that counting does not leave holds them all.           *)
LEMMA Counting ==
  ASSUME NEW N \in SUBSET Nat, 0 \in N, \A n \in N : n + 1 \in N
  PROVE  N = Nat
<1> SUFFICES ASSUME Nat \ N # {} PROVE FALSE
  OBVIOUS
<1>1. PICK n \in Nat \ N : \A m \in Nat \ N : n <= m
  BY LeastOf
<1>2. n - 1 \in Nat /\ ~ (n <= n - 1) /\ n - 1 + 1 = n
  <2>1. n # 0 /\ n \in Nat
    BY <1>1
  <2> QED BY <2>1, SMT
<1>3. n - 1 \in N
  BY <1>1, <1>2
<1> QED
  BY <1>1, <1>2, <1>3

(* One turn of the loop of Format that keeps the failed results.           *)
Kept(s, result) == IF result.passed THEN s ELSE Append(s, result)

(* The loop has a value at every turn, up to the end of the report.        *)
LEMMA LoopRuns ==
  ASSUME NEW R \in Seq(Results), NEW n \in Nat, n <= Len(R)
  PROVE  \E f \in [0 .. n -> Seq(Results)] :
           \A k \in 0 .. n : f[k] = IF k = 0 THEN <<>> ELSE Kept(f[k - 1], R[k])
<1> DEFINE Runs(m, f) ==
             /\ f \in [0 .. m -> Seq(Results)]
             /\ \A k \in 0 .. m : f[k] = IF k = 0 THEN <<>> ELSE Kept(f[k - 1], R[k])
           N == {m \in Nat : m <= Len(R) => \E f : Runs(m, f)}
<1>1. Len(R) \in Nat /\ \A k \in 1 .. Len(R) : R[k] \in Results
  BY SMT
<1>2. 0 \in N
  <2>1. Runs(0, [k \in 0 .. 0 |-> <<>>])
    BY SMT
  <2> QED BY <2>1
<1>3. ASSUME NEW m \in Nat, m + 1 <= Len(R), \E f : Runs(m, f)
      PROVE  \E f : Runs(m + 1, f)
  <2>1. m \in Nat /\ m <= Len(R) /\ m + 1 \in 1 .. Len(R)
    BY <1>1, <1>3, SMT
  <2>2. PICK f : Runs(m, f)
    BY <1>3
  <2>3. f[m] \in Seq(Results) /\ R[m + 1] \in Results
    BY <1>1, <2>1, <2>2
  <2>4. Kept(f[m], R[m + 1]) \in Seq(Results)
    BY <2>3 DEF Kept
  <2> DEFINE g == [k \in 0 .. m + 1 |-> IF k = m + 1 THEN Kept(f[m], R[m + 1]) ELSE f[k]]
  <2>5. \A k \in 0 .. m + 1 : k = m + 1 \/ k \in 0 .. m
    BY <2>1, SMT
  <2>6. g \in [0 .. m + 1 -> Seq(Results)]
    BY <2>2, <2>4, <2>5
  <2>7. ASSUME NEW k \in 0 .. m + 1
        PROVE  g[k] = IF k = 0 THEN <<>> ELSE Kept(g[k - 1], R[k])
    <3>1. CASE k = m + 1
      <4>1. k # 0 /\ k - 1 = m /\ m \in 0 .. m + 1 /\ m # m + 1
        BY <2>1, <3>1, SMT
      <4> QED BY <3>1, <4>1
    <3>2. CASE k # m + 1
      <4>1. k \in 0 .. m /\ (k # 0 => k - 1 \in 0 .. m + 1 /\ k - 1 # m + 1)
        BY <2>1, <3>2, SMT
      <4> QED BY <2>2, <3>2, <4>1
    <3> QED BY <3>1, <3>2
  <2> QED BY <2>6, <2>7
<1> HIDE DEF Runs
<1>4. \A m \in N : m + 1 \in N
  <2>1. \A m \in Nat : m + 1 <= Len(R) => m <= Len(R)
    BY <1>1, SMT
  <2> QED BY <1>3, <2>1
<1>5. N = Nat
  <2>1. N \in SUBSET Nat
    OBVIOUS
  <2> HIDE DEF N
  <2> QED BY <1>2, <1>4, <2>1, Counting
<1>6. PICK f : Runs(n, f)
  BY <1>5
<1> QED
  BY <1>6 DEF Runs

(* Format keeps the results of its report that failed, and no others.      *)
LEMMA FailuresKept ==
  ASSUME NEW r, r.results \in Seq(Results)
  PROVE  /\ FailuresOf(r) \in Seq(Results)
         /\ ToSet(FailuresOf(r)) = {x \in ToSet(r.results) : ~ x.passed}
<1> DEFINE R == r.results
           n == Len(R)
           up == CHOOSE f : f = [k \in 0 .. n |->
                   IF k = 0 THEN <<>>
                   ELSE IF R[k].passed THEN f[k - 1] ELSE Append(f[k - 1], R[k])]
           N == {m \in Nat : m <= n => /\ up[m] \in Seq(Results)
                                       /\ ToSet(up[m]) = {x \in {R[k] : k \in 1 .. m} : ~ x.passed}}
<1>1. n \in Nat /\ DOMAIN R = 1 .. n /\ \A k \in 1 .. n : R[k] \in Results
  BY SMT
<1>2. FailuresOf(r) = up[n]
  BY DEF FailuresOf
<1>a. n <= Len(R) /\ n <= n
  BY <1>1, SMT
<1>3. \A k \in 0 .. n : up[k] = IF k = 0 THEN <<>> ELSE Kept(up[k - 1], R[k])
  <2>1. PICK f \in [0 .. n -> Seq(Results)] :
          \A k \in 0 .. n : f[k] = IF k = 0 THEN <<>> ELSE Kept(f[k - 1], R[k])
    BY <1>1, <1>a, LoopRuns
  <2>2. f = [k \in 0 .. n |-> IF k = 0 THEN <<>>
                              ELSE IF R[k].passed THEN f[k - 1] ELSE Append(f[k - 1], R[k])]
    BY <2>1 DEF Kept
  <2>3. up = [k \in 0 .. n |-> IF k = 0 THEN <<>>
                               ELSE IF R[k].passed THEN up[k - 1] ELSE Append(up[k - 1], R[k])]
    BY <2>2
  <2> HIDE DEF up
  <2> QED BY <2>3 DEF Kept
<1> HIDE DEF up
<1>4. 0 \in N
  <2>1. 0 \in 0 .. n /\ 1 .. 0 = {} /\ <<>> \in Seq(Results) /\ DOMAIN <<>> = {}
    BY <1>1, SMT
  <2> QED BY <1>3, <2>1 DEF ToSet
<1>5. ASSUME NEW m \in N PROVE m + 1 \in N
  <2> SUFFICES ASSUME m + 1 <= n
               PROVE  /\ up[m + 1] \in Seq(Results)
                      /\ ToSet(up[m + 1]) = {x \in {R[k] : k \in 1 .. m + 1} : ~ x.passed}
    OBVIOUS
  <2>1. /\ m \in Nat /\ m <= n /\ m + 1 \in 0 .. n /\ m + 1 # 0 /\ m + 1 - 1 = m
        /\ R[m + 1] \in Results /\ \A k : k \in 1 .. m + 1 <=> k \in 1 .. m \/ k = m + 1
    BY <1>1, SMT
  <2>2. up[m + 1] = Kept(up[m], R[m + 1])
    BY <1>3, <2>1
  <2>3. up[m] \in Seq(Results) /\ ToSet(up[m]) = {x \in {R[k] : k \in 1 .. m} : ~ x.passed}
    BY <2>1
  <2>4. ToSet(Append(up[m], R[m + 1])) = ToSet(up[m]) \cup {R[m + 1]}
        /\ Append(up[m], R[m + 1]) \in Seq(Results)
    <3> DEFINE s == up[m]
               t == Append(up[m], R[m + 1])
    <3>1. /\ DOMAIN s = 1 .. Len(s) /\ Len(s) \in Nat
          /\ t \in Seq(Results) /\ DOMAIN t = 1 .. Len(s) + 1
          /\ t[Len(s) + 1] = R[m + 1] /\ \A k \in 1 .. Len(s) : t[k] = s[k]
      BY <2>1, <2>3, SMT
    <3>2. /\ \A k \in DOMAIN t : k \in DOMAIN s \/ k = Len(s) + 1
          /\ \A k \in DOMAIN s : k \in DOMAIN t
          /\ Len(s) + 1 \in DOMAIN t
      BY <3>1, SMT
    <3> HIDE DEF s, t
    <3>3. ToSet(t) = ToSet(s) \cup {R[m + 1]}
      BY <3>1, <3>2 DEF ToSet
    <3> QED BY <3>1, <3>3 DEF s, t
  <2> QED BY <2>1, <2>2, <2>3, <2>4 DEF Kept
<1>6. N = Nat
  BY <1>4, <1>5, Counting
<1>7. up[n] \in Seq(Results) /\ ToSet(up[n]) = {x \in {R[k] : k \in 1 .. n} : ~ x.passed}
  BY <1>1, <1>6, <1>a
<1> QED
  BY <1>1, <1>2, <1>7 DEF ToSet

-----------------------------------------------------------------------------
Stores == {"", "__gs_"}
RowRecords == [store : Stores, id : Names, table : Names, record : Names, rule : Names]

(* The row of a result in the table of store s.                            *)
Row(s, x) == [store |-> s, id |-> generateResultID(x), table |-> report.table,
              record |-> x.record, rule |-> x.rule]

LastToken(r) == r.id[Len(r.id)]

(* The rows of the report that is being formatted: no other was made in    *)
(* its second.                                                             *)
Current == {r \in rows : LastToken(r) = Seconds[now]}

Shape ==
  /\ rows \subseteq RowRecords /\ tx \in Seq(RowRecords)
  /\ migrated \in BOOLEAN /\ clear \in Clears
  /\ prefix \in Stores \cup {"unset"}
  /\ pc \in {"idle", "detect", "ensure", "clear", "insert", "ok", "failed"}
  /\ report \in Reports \cup {NoReport} /\ failures \in Seq(Results)
  /\ next \in Nat \ {0} /\ next <= Len(failures) + BatchSize
  /\ now \in 1 .. Len(Seconds)
  /\ faults \in 0 .. MaxFaults

(* The results table's primary key, and the second of each row.            *)
Keys == \A r, s \in rows : r.store = s.store /\ r.id = s.id => r = s
Dated == \A r \in rows : \E m \in 1 .. now : LastToken(r) = Seconds[m]

Whole(n) == \E q \in Nat : n = q * BatchSize

(* How far Format is, and what its open transaction holds.                 *)
Stage ==
  /\ prefix = "unset" => pc \in {"idle", "detect"}
  /\ pc \in {"detect", "ensure", "clear"} => next = 1
  /\ pc # "insert" => tx = <<>>
  /\ pc = "insert" => next <= Len(failures) /\ Whole(next - 1) /\ Len(tx) <= Len(Batch)

Opened ==
  pc = "insert" =>
    \A j \in 1 .. Len(tx) :
      /\ tx[j] = Row(prefix, failures[next - 1 + j])
      /\ \A r \in rows : r.store = prefix => r.id # tx[j].id
      /\ \A i \in 1 .. Len(tx) : tx[i].id = tx[j].id => i = j

(* The first k failures of the report are stored, and nothing else of it.  *)
Stored(k, s) ==
  /\ Whole(k) \/ k = Len(failures)
  /\ Current = {Row(s, failures[j]) : j \in 1 .. k}
  /\ \A i, j \in 1 .. k :
       generateResultID(failures[i]) = generateResultID(failures[j]) => i = j

(* That is where Format is, too; unless it is about to insert a report     *)
(* again without having cleared it, which will be refused.                 *)
Fits(k, s) ==
  /\ pc # "idle" /\ prefix # "unset" => s = prefix
  /\ pc = "detect" /\ prefix = "unset" => k = 0
  /\ pc = "insert" => \/ next = 1 /\ tx = <<>> /\ ~ clear /\ k > 0
                      \/ k = next - 1 /\ (clear => TableRows(report.table) = Current)
  /\ pc = "ok" => k = Len(failures) /\ (clear => TableRows(report.table) = Current)

Progress == \E k \in 0 .. Len(failures), s \in Stores : Stored(k, s) /\ Fits(k, s)

IInv == Shape /\ Keys /\ Dated /\ Stage /\ Opened /\ Progress

(* The names of a report, the one that stands for none included.           *)
LEMMA ReportNames == Shape => report.table \in Names
<1>1. NoReport.table \in Names
  BY SMT DEF NoReport, Names
<1> QED
  BY <1>1, StoreAssumption DEF Shape

(* Names joined by a separator make a name that ends in the last of them.  *)
Join(a, b, c, u, t) == a \o <<u>> \o b \o <<u>> \o c \o <<u, t>>
EndsIn(z, T, t) == z \in Seq(T) /\ z[Len(z)] = t

(* What generateResultID joins ends in its last part.                      *)
LEMMA Joined ==
  ASSUME NEW T, NEW a \in Seq(T), NEW b \in Seq(T), NEW c \in Seq(T), NEW u \in T, NEW t \in T
  PROVE  EndsIn(Join(a, b, c, u, t), T, t)
<1>1. \A p, q \in Seq(T) : p \o q \in Seq(T)
  BY SMT
<1>2. <<u>> \in Seq(T)
  BY SMT
<1> DEFINE stem == a \o <<u>> \o b \o <<u>> \o c
<1>3. stem \in Seq(T)
  BY <1>1, <1>2
<1> HIDE DEF stem
<1>4. EndsIn(stem \o <<u, t>>, T, t)
  BY <1>3, SMT DEF EndsIn
<1> QED
  BY <1>4 DEF stem, Join

(* A result's id is a name that ends in the second of its report.          *)
LEMMA IdEndsInSecond ==
  ASSUME Shape, NEW x \in Results, NEW s \in Stores
  PROVE  Row(s, x) \in RowRecords /\ LastToken(Row(s, x)) = Seconds[now]
<1>1. Seconds[now] \in Tokens
  BY StoreAssumption, SMT DEF Shape, Names
<1>2. report.table \in Seq(Tokens) /\ x.record \in Seq(Tokens) /\ x.rule \in Seq(Tokens)
  BY ReportNames DEF Results, Names
<1>3. generateResultID(x) = Join(report.table, x.record, x.rule, "_", Seconds[now])
  BY DEF generateResultID, Join
<1> DEFINE id == generateResultID(x)
<1>4. id \in Seq(Tokens) /\ id[Len(id)] = Seconds[now]
  <2>1. PICK bar : bar = "_"
    OBVIOUS
  <2>2. EndsIn(Join(report.table, x.record, x.rule, bar, Seconds[now]), Tokens, Seconds[now])
    BY <1>1, <1>2, <2>1, SeparatorAssumption, Joined
  <2> QED BY <1>3, <2>1, <2>2 DEF EndsIn
<1> HIDE DEF id
<1>5. Row(s, x) = [store |-> s, id |-> id, table |-> report.table,
                   record |-> x.record, rule |-> x.rule]
  BY DEF Row, id
<1> QED
  BY <1>2, <1>4, <1>5 DEF LastToken, RowRecords, Names

(* A batch has a length, wherever it starts.                               *)
LEMMA SliceLength ==
  ASSUME NEW f \in Seq(Results), NEW i \in Nat \ {0}, NEW j \in Nat, j <= Len(f)
  PROVE  Len(SubSeq(f, i, j)) \in Nat /\ 0 <= Len(SubSeq(f, i, j))
  BY SMT

(* The failures of a batch.                                                *)
LEMMA BatchIs ==
  ASSUME Shape
  PROVE  /\ Len(failures) \in Nat /\ Len(Batch) \in Nat
         /\ next <= Len(failures) =>
              /\ Len(Batch) >= 1 /\ next - 1 + Len(Batch) <= Len(failures)
              /\ \A j \in 1 .. Len(Batch) : Batch[j] = failures[next - 1 + j]
              /\ LastBatch => next - 1 + Len(Batch) = Len(failures)
              /\ ~ LastBatch => Len(Batch) = BatchSize /\ next + BatchSize <= Len(failures)
<1> DEFINE m == IF next + BatchSize - 1 < Len(failures) THEN next + BatchSize - 1 ELSE Len(failures)
<1>1. /\ Len(failures) \in Nat /\ next \in Nat /\ next >= 1 /\ BatchSize \in Nat /\ BatchSize >= 1
      /\ failures \in Seq(Results)
  BY StoreAssumption, SMT DEF Shape
<1>2. m \in Nat /\ m <= Len(failures) /\ (next <= Len(failures) => next <= m)
  BY <1>1, SMT
<1>3. /\ LastBatch <=> next + BatchSize > Len(failures)
      /\ next + BatchSize > Len(failures) => m = Len(failures)
      /\ ~ (next + BatchSize > Len(failures)) => m = next + BatchSize - 1 /\ next + BatchSize <= Len(failures)
  BY <1>1, SMT DEF LastBatch
<1>4. Batch = SubSeq(failures, next, m)
  BY DEF Batch
<1> HIDE DEF m
<1>5. /\ Len(Batch) = IF next <= m THEN m - next + 1 ELSE 0
      /\ \A j \in 1 .. m - next + 1 : Batch[j] = failures[next + j - 1]
  BY <1>1, <1>2, <1>4, SMT
<1>6. Len(Batch) \in Nat
  BY <1>1, <1>2, <1>5, SMT
<1> SUFFICES ASSUME next <= Len(failures)
    PROVE  /\ Len(Batch) >= 1 /\ next - 1 + Len(Batch) <= Len(failures)
           /\ \A j \in 1 .. Len(Batch) : Batch[j] = failures[next - 1 + j]
           /\ LastBatch => next - 1 + Len(Batch) = Len(failures)
           /\ ~ LastBatch => Len(Batch) = BatchSize /\ next + BatchSize <= Len(failures)
  BY <1>1, <1>6
<1>7. Len(Batch) = m - next + 1
  BY <1>2, <1>5
<1>8. \A j \in 1 .. Len(Batch) : Batch[j] = failures[next - 1 + j]
  <2>1. ASSUME NEW j \in 1 .. Len(Batch) PROVE Batch[j] = failures[next - 1 + j]
    <3>1. next + j - 1 = next - 1 + j
      BY <1>1, <1>6, SMT
    <3> QED BY <1>5, <1>7, <3>1
  <2> QED BY <2>1
<1> QED
  BY <1>1, <1>2, <1>3, <1>7, <1>8, SMT

(* Numbers that the steps below count with.                                *)
LEMMA Numbers ==
  Shape => /\ BatchSize \in Nat /\ BatchSize >= 1 /\ MaxFaults \in Nat /\ faults \in Nat
           /\ next \in Nat /\ next >= 1 /\ Len(failures) \in Nat
           /\ now \in Nat /\ now >= 1 /\ now <= Len(Seconds) /\ Len(Seconds) \in Nat
           /\ DOMAIN Seconds = 1 .. Len(Seconds)
           /\ Len(tx) \in Nat /\ DOMAIN tx = 1 .. Len(tx)
           /\ \A j \in 1 .. Len(failures) : failures[j] \in Results
           /\ Whole(0)
<1> SUFFICES ASSUME Shape PROVE
           /\ BatchSize \in Nat /\ BatchSize >= 1 /\ MaxFaults \in Nat /\ faults \in Nat
           /\ next \in Nat /\ next >= 1 /\ Len(failures) \in Nat
           /\ now \in Nat /\ now >= 1 /\ now <= Len(Seconds) /\ Len(Seconds) \in Nat
           /\ DOMAIN Seconds = 1 .. Len(Seconds)
           /\ Len(tx) \in Nat /\ DOMAIN tx = 1 .. Len(tx)
           /\ \A j \in 1 .. Len(failures) : failures[j] \in Results
           /\ Whole(0)
  OBVIOUS
<1>1. BatchSize \in Nat /\ BatchSize >= 1 /\ MaxFaults \in Nat /\ faults \in Nat
      /\ next \in Nat /\ next >= 1
  BY StoreAssumption, SMT DEF Shape
<1>2. Len(Seconds) \in Nat /\ DOMAIN Seconds = 1 .. Len(Seconds)
  BY StoreAssumption, SMT DEF Names
<1>3. now \in Nat /\ now >= 1 /\ now <= Len(Seconds)
  BY <1>2, SMT DEF Shape
<1>4. /\ Len(tx) \in Nat /\ DOMAIN tx = 1 .. Len(tx)
      /\ Len(failures) \in Nat /\ \A j \in 1 .. Len(failures) : failures[j] \in Results
  BY SMT DEF Shape
<1>5. Whole(0)
  <2>1. 0 = 0 * BatchSize /\ 0 \in Nat
    BY <1>1, SMT
  <2> QED BY <2>1 DEF Whole
<1> QED
  BY <1>1, <1>2, <1>3, <1>4, <1>5

(* What a step that leaves the rows and the report alone leaves alone.     *)
LEMMA StoredStays ==
  ASSUME UNCHANGED <<rows, report, failures, now>>
  PROVE  /\ Current' = Current
         /\ \A s, x : Row(s, x)' = Row(s, x)
         /\ \A k, s : Stored(k, s)' <=> Stored(k, s)
<1>1. Current' = Current
  BY DEF Current
<1>2. /\ \A x : generateResultID(x)' = generateResultID(x)
      /\ \A s, x : Row(s, x)' = Row(s, x)
  BY DEF Row, generateResultID
<1>3. \A k, s : Stored(k, s)' <=> Stored(k, s)
  <2> SUFFICES ASSUME NEW k, NEW s PROVE Stored(k, s)' <=> Stored(k, s)
    OBVIOUS
  <2>1. \A j : Row(s, failures[j])' = Row(s, failures[j])
              /\ generateResultID(failures[j])' = generateResultID(failures[j])
    BY DEF Row, generateResultID
  <2> QED BY <1>1, <2>1 DEF Stored, Whole
<1> QED
  BY <1>1, <1>2, <1>3

(* The formatter starts with nothing stored.                               *)
LEMMA InitBooks == Init => IInv
<1> SUFFICES ASSUME Init PROVE IInv
  OBVIOUS
<1>1. /\ Len(<<>>) = 0 /\ \A T : <<>> \in Seq(T)
      /\ 1 .. 0 = {} /\ 0 \in 0 .. 0
  BY SMT
<1>2. Shape
  <2>1. 1 \in 1 .. Len(Seconds)
    BY StoreAssumption, SMT DEF Names
  <2>2. 1 <= 0 + BatchSize /\ 0 \in 0 .. MaxFaults /\ 1 \in Nat \ {0}
    BY StoreAssumption, SMT
  <2> QED BY <1>1, <2>1, <2>2 DEF Init, Shape
<1>3. Keys /\ Dated /\ Stage /\ Opened
  BY DEF Init, Keys, Dated, Stage, Opened
<1>4. Progress
  <2>1. Stored(0, "")
    BY <1>1, <1>2, Numbers DEF Init, Stored, Current
  <2>2. Fits(0, "")
    BY DEF Init, Fits
  <2> QED BY <1>1, <2>1, <2>2 DEF Init, Progress, Stores
<1> QED
  BY <1>2, <1>3, <1>4 DEF IInv

(* A step that ends Format, or the process, in an error: nothing is left   *)
(* of the open transaction.                                                *)
LEMMA ErrorBooks ==
  ASSUME IInv, UNCHANGED <<rows, migrated, next, clear, report, failures, now>>,
         tx' = <<>>, faults' \in 0 .. MaxFaults,
         \/ pc' = "failed" /\ prefix' = prefix /\ prefix # "unset" /\ pc # "idle"
         \/ pc' = "idle" /\ prefix' = "unset"
  PROVE  IInv'
<1>1. Shape'
  <2>1. <<>> \in Seq(RowRecords)
    BY SMT
  <2> QED BY <2>1 DEF IInv, Shape, RowRecords, Results, Names
<1>2. Keys' /\ Dated' /\ Stage' /\ Opened'
  BY DEF IInv, Keys, Dated, LastToken, Stage, Opened
<1>3. PICK k \in 0 .. Len(failures), s \in Stores : Stored(k, s) /\ Fits(k, s)
  BY DEF IInv, Progress
<1>4. Stored(k, s)' /\ Fits(k, s)'
  BY <1>3, StoredStays DEF Fits
<1>5. Progress'
  BY <1>4 DEF Progress, Stores
<1> QED
  BY <1>1, <1>2, <1>5 DEF IInv

(* A report is formatted anew: it has no rows yet.                         *)
LEMMA FormatBooks ==
  ASSUME IInv, NEW r \in Reports, Format(r)
  PROVE  IInv'
<1>n. Shape /\ now \in Nat /\ now >= 1 /\ Len(Seconds) \in Nat /\ DOMAIN Seconds = 1 .. Len(Seconds)
  BY Numbers DEF IInv
<1>1. failures' \in Seq(Results) /\ r.results \in Seq(Results)
  BY StoreAssumption, FailuresKept DEF Format
<1>2. now' = now + 1 /\ now' \in 1 .. Len(Seconds) /\ next' = 1 /\ pc' = "detect"
      /\ prefix' = prefix /\ rows' = rows
  BY <1>n, SMT DEF Format
<1>3. tx' = <<>>
  BY DEF Format, IInv, Stage
<1>4. next' \in Nat \ {0} /\ next' <= Len(failures') + BatchSize
  BY <1>1, <1>2, StoreAssumption, SMT
<1>5. Shape'
  BY <1>1, <1>2, <1>4 DEF Format, IInv, Shape, RowRecords, Results, Names
<1>6. Dated'
  <2>1. \A m \in 1 .. now : m \in 1 .. now'
    BY <1>n, <1>2, SMT
  <2> QED BY <1>2, <2>1 DEF IInv, Dated, LastToken
<1>7. Keys' /\ Stage' /\ Opened'
  BY <1>2, <1>3 DEF IInv, Keys, Stage, Opened
<1>8. \A x \in rows : LastToken(x) # Seconds[now']
  <2> SUFFICES ASSUME NEW x \in rows, LastToken(x) = Seconds[now'] PROVE FALSE
    OBVIOUS
  <2>1. PICK m \in 1 .. now : LastToken(x) = Seconds[m]
    BY DEF IInv, Dated
  <2>2. m \in DOMAIN Seconds /\ now' \in DOMAIN Seconds /\ m # now'
    BY <1>n, <1>2, SMT
  <2> QED BY <2>1, <2>2, StoreAssumption DEF IsInjective
<1>9. Current' = {}
  BY <1>2, <1>8 DEF Current, LastToken
<1>10. PICK s \in Stores : prefix # "unset" => s = prefix
  BY DEF IInv, Shape, Stores
<1>11. Stored(0, s)' /\ Fits(0, s)'
  <2>1. 1 .. 0 = {}
    BY SMT
  <2>2. Whole(0)'
    BY <1>n, Numbers DEF Whole
  <2> QED BY <1>2, <1>9, <1>10, <2>1, <2>2 DEF Stored, Fits
<1>12. 0 \in 0 .. Len(failures')
  BY <1>1, SMT
<1> QED
  BY <1>5, <1>6, <1>7, <1>11, <1>12 DEF IInv, Progress, Stores

(* The prefix is looked up, or already known.                              *)
LEMMA DetectBooks ==
  ASSUME IInv, DetectPrefix \/ DetectFails
  PROVE  IInv'
<1>1. /\ pc = "detect" /\ pc' = "ensure" /\ prefix' \in Stores
      /\ prefix # "unset" => prefix' = prefix
      /\ UNCHANGED <<rows, migrated, next, tx, input>>
  BY DEF DetectPrefix, DetectFails, Detected, Stores, IInv, Shape
<1>2. faults' \in 0 .. MaxFaults
  <2>1. CASE DetectPrefix
    BY <2>1 DEF DetectPrefix, IInv, Shape
  <2>2. CASE DetectFails
    <3>1. faults' = faults + 1 /\ faults < MaxFaults /\ faults \in Nat /\ MaxFaults \in Nat
      BY <2>2, Numbers DEF DetectFails, IInv
    <3> QED BY <3>1, SMT
  <2> QED BY <2>1, <2>2
<1>3. Shape'
  BY <1>1, <1>2 DEF input, IInv, Shape, RowRecords, Results, Names, Stores
<1>4. Keys' /\ Dated' /\ Stage' /\ Opened'
  BY <1>1 DEF input, IInv, Keys, Dated, LastToken, Stage, Opened, Stores
<1>5. PICK k \in 0 .. Len(failures), s \in Stores : Stored(k, s) /\ Fits(k, s)
  BY DEF IInv, Progress
<1>6. PICK p : p = prefix'
  OBVIOUS
<1>7. Stored(k, p)
  <2>1. CASE prefix # "unset"
    BY <1>1, <1>5, <1>6, <2>1 DEF Fits
  <2>2. CASE prefix = "unset"
    <3>1. k = 0 /\ 1 .. 0 = {}
      BY <1>1, <1>5, <2>2, SMT DEF Fits
    <3> QED BY <1>5, <3>1 DEF Stored
  <2> QED BY <2>1, <2>2
<1>8. Stored(k, p)' /\ Fits(k, p)'
  BY <1>1, <1>6, <1>7, StoredStays DEF input, Fits
<1>9. Progress'
  BY <1>1, <1>6, <1>8 DEF input, Progress, Stores
<1> QED
  BY <1>3, <1>4, <1>9 DEF IInv

(* With clear set, the report's earlier rows are gone before it is stored. *)
LEMMA ClearBooks ==
  ASSUME IInv, ClearOldResults
  PROVE  IInv'
<1>n. Shape /\ Len(failures) \in Nat /\ Whole(0) /\ \A j \in 1 .. Len(failures) : failures[j] \in Results
  BY Numbers DEF IInv
<1>1. /\ pc = "clear" /\ pc' = IF failures = <<>> THEN "ok" ELSE "insert"
      /\ rows' = rows \ Cleared /\ prefix # "unset" /\ prefix \in Stores /\ next = 1 /\ tx = <<>>
      /\ UNCHANGED <<migrated, prefix, next, tx, faults, input>>
  BY DEF ClearOldResults, IInv, Stage, Shape
<1>2. Shape'
  BY <1>1 DEF input, IInv, Shape, RowRecords, Results, Names, Stores
<1>3. Keys' /\ Dated' /\ Opened'
  <2>1. Len(<<>>) = 0 /\ 1 .. 0 = {}
    BY SMT
  <2> QED BY <1>1, <2>1 DEF input, IInv, Keys, Dated, LastToken, Opened
<1>4. Stage'
  <2>1. failures # <<>> => 1 <= Len(failures)
    BY SMT DEF IInv, Shape
  <2>2. 1 - 1 = 0 /\ Len(<<>>) = 0
    BY SMT
  <2>3. Len(Batch) \in Nat /\ (Batch)' = Batch
    BY <1>n, <1>1, BatchIs DEF Batch, input
  <2>4. 0 <= Len(Batch)
    BY <2>3, SMT
  <2>5. Whole(0)'
    BY <1>n DEF Whole
  <2> QED BY <1>1, <2>1, <2>2, <2>3, <2>4, <2>5 DEF input, Stage
<1>5. PICK k \in 0 .. Len(failures), s \in Stores : Stored(k, s) /\ Fits(k, s)
  BY DEF IInv, Progress
<1>6. s = prefix /\ k \in Nat /\ (failures = <<>> => k = 0)
  BY <1>1, <1>5, <1>n, SMT DEF Fits
<1>7. CASE clear
  <2>1. Current \subseteq TableRows(report.table)
    BY <1>5, <1>6 DEF Stored, Row, TableRows, Current
  <2>2. rows' = rows \ TableRows(report.table)
    BY <1>1, <1>7 DEF Cleared
  <2>3. Current' = {} /\ TableRows(report.table)' = {}
    BY <1>1, <2>1, <2>2 DEF Current, TableRows, LastToken, input
  <2>4. 1 .. 0 = {} /\ 0 \in 0 .. Len(failures) /\ 1 - 1 = 0 /\ Len(<<>>) = 0
    BY <1>n, SMT
  <2>5. Stored(0, s)'
    BY <1>n, <1>1, <2>3, <2>4 DEF Stored, Whole
  <2>6. Fits(0, s)'
    BY <1>1, <1>6, <2>3, <2>4 DEF Fits, input
  <2>7. Progress'
    BY <1>1, <2>4, <2>5, <2>6 DEF Progress, Stores, input
  <2> QED BY <1>2, <1>3, <1>4, <2>7 DEF IInv
<1>8. CASE ~ clear
  <2>1. rows' = rows
    BY <1>1, <1>8 DEF Cleared
  <2>2. Stored(k, s)'
    BY <1>1, <1>5, <2>1, StoredStays DEF input
  <2>3. k > 0 \/ k = 1 - 1
    BY <1>6, SMT
  <2>4. failures = <<>> => k = Len(failures)
    <3>1. Len(<<>>) = 0
      BY SMT
    <3> QED BY <1>6, <3>1
  <2>5. Fits(k, s)'
    BY <1>1, <1>6, <1>8, <2>3, <2>4 DEF Fits, input
  <2>6. Progress'
    BY <1>1, <2>2, <2>5 DEF Progress, Stores, input
  <2> QED BY <1>2, <1>3, <1>4, <2>6 DEF IInv
<1> QED
  BY <1>7, <1>8

(* Where the open batch starts; a batch that is not refused at once is one *)
(* that is not stored yet.                                                 *)
LEMMA BatchStarts ==
  ASSUME IInv, pc = "insert", NEW k \in 0 .. Len(failures), NEW s \in Stores,
         Stored(k, s), Fits(k, s),
         tx = <<>> => ~ Refused(RowFor(failures[next]))
  PROVE  k = next - 1 /\ s = prefix /\ (clear => TableRows(report.table) = Current)
<1>1. s = prefix
  BY DEF IInv, Stage, Fits
<1>2. ASSUME next = 1, tx = <<>>, k > 0 PROVE FALSE
  <2>1. 1 \in 1 .. k
    BY <1>2, SMT
  <2>2. Row(s, failures[1]) \in rows
    BY <2>1 DEF Stored, Current
  <2>3. RowFor(failures[1]) = Row(s, failures[1])
    BY <1>1 DEF RowFor, Row
  <2> QED BY <1>2, <2>2, <2>3 DEF Refused
<1> QED
  BY <1>1, <1>2 DEF Fits

(* The open transaction grows by the next row of its batch.                *)
LEMMA InsertBooks ==
  ASSUME IInv, InsertRow
  PROVE  IInv'
<1>n. /\ Shape /\ Len(tx) \in Nat /\ DOMAIN tx = 1 .. Len(tx) /\ next \in Nat /\ next >= 1
      /\ Len(failures) \in Nat /\ \A j \in 1 .. Len(failures) : failures[j] \in Results
  BY Numbers DEF IInv
<1> DEFINE n == Len(tx)
<1>1. /\ pc = "insert" /\ next <= Len(failures) /\ n < Len(Batch) /\ Len(Batch) \in Nat
      /\ prefix \in Stores
      /\ UNCHANGED <<rows, migrated, prefix, pc, next, faults, input>>
  BY <1>n, BatchIs DEF InsertRow, IInv, Stage, Shape
<1>2. Batch[n + 1] = failures[next - 1 + (n + 1)] /\ failures[next - 1 + (n + 1)] \in Results
  <2>1. n + 1 \in 1 .. Len(Batch)
    BY <1>n, <1>1, SMT
  <2>2. Batch[n + 1] = failures[next - 1 + (n + 1)] /\ next - 1 + Len(Batch) <= Len(failures)
    BY <1>n, <1>1, <2>1, BatchIs
  <2>3. next - 1 + (n + 1) \in 1 .. Len(failures)
    BY <1>n, <1>1, <2>1, <2>2, SMT
  <2> QED BY <1>n, <2>2, <2>3
<1>3. PICK row : row = RowFor(Batch[n + 1])
  OBVIOUS
<1>4. row = Row(prefix, failures[next - 1 + (n + 1)]) /\ row \in RowRecords
      /\ row.store = prefix
  BY <1>n, <1>1, <1>2, <1>3, IdEndsInSecond DEF RowFor, Row
<1>5. ~ Refused(row) /\ tx' = Append(tx, row)
  BY <1>3 DEF InsertRow
<1>6. /\ tx' \in Seq(RowRecords) /\ Len(tx') = n + 1
      /\ \A j \in 1 .. n : tx'[j] = tx[j]
      /\ tx'[n + 1] = row
      /\ \A j \in 1 .. n + 1 : j \in 1 .. n \/ j = n + 1
  BY <1>n, <1>4, <1>5, SMT DEF Shape
<1>7. Shape'
  BY <1>1, <1>6 DEF input, IInv, Shape, RowRecords, Results, Names, Stores
<1>8. Keys' /\ Dated'
  BY <1>1 DEF input, IInv, Keys, Dated, LastToken
<1>9. Stage'
  <2>1. (Batch)' = Batch
    BY <1>1 DEF Batch, input
  <2>2. Len(tx') <= Len(Batch)
    BY <1>n, <1>1, <1>6, SMT
  <2> QED BY <1>1, <2>1, <2>2 DEF input, IInv, Stage, Whole
<1>10. Opened'
  <2>1. /\ \A r \in rows : r.store = prefix => r.id # row.id
        /\ \A j \in 1 .. n : tx[j].store = prefix => tx[j].id # row.id
    BY <1>n, <1>4, <1>5 DEF Refused, ToSet
  <2>2. \A j \in 1 .. n :
          /\ tx[j] = Row(prefix, failures[next - 1 + j])
          /\ \A r \in rows : r.store = prefix => r.id # tx[j].id
          /\ \A i \in 1 .. n : tx[i].id = tx[j].id => i = j
    BY <1>1 DEF IInv, Opened
  <2>3. \A j \in 1 .. n : tx[j].id # row.id
    <3>1. \A x : Row(prefix, x).store = prefix
      BY DEF Row
    <3> QED BY <2>1, <2>2, <3>1
  <2>4. \A j \in 1 .. n + 1 :
          /\ tx'[j] = Row(prefix, failures[next - 1 + j])
          /\ \A r \in rows : r.store = prefix => r.id # tx'[j].id
          /\ \A i \in 1 .. n + 1 : tx'[i].id = tx'[j].id => i = j
    BY <1>4, <1>6, <2>1, <2>2, <2>3
  <2>5. \A x : Row(prefix, x)' = Row(prefix, x)
    BY <1>1 DEF Row, generateResultID, input
  <2>6. \A j : Row(prefix, failures[next - 1 + j])' = Row(prefix, failures[next - 1 + j])
    BY <1>1 DEF Row, generateResultID, input
  <2> QED BY <1>1, <1>6, <2>4, <2>6 DEF Opened, input
<1>11. PICK k \in 0 .. Len(failures), s \in Stores : Stored(k, s) /\ Fits(k, s)
  BY DEF IInv, Progress
<1>12. tx = <<>> => ~ Refused(RowFor(failures[next]))
  <2>1. tx = <<>> => next - 1 + (n + 1) = next
    BY <1>n, SMT
  <2> QED BY <1>2, <1>3, <1>5, <2>1
<1>13. k = next - 1 /\ s = prefix /\ (clear => TableRows(report.table) = Current)
  BY <1>1, <1>11, <1>12, BatchStarts
<1>14. Stored(k, s)' /\ Fits(k, s)'
  <2>1. Current' = Current /\ (Stored(k, s)' <=> Stored(k, s))
    BY <1>1, StoredStays DEF input
  <2> QED BY <1>1, <1>11, <1>13, <2>1 DEF Fits, TableRows, input
<1>15. Progress'
  BY <1>1, <1>14 DEF Progress, Stores, input
<1> QED
  BY <1>7, <1>8, <1>9, <1>10, <1>15 DEF IInv

(* A whole batch is stored: the failures that are, are still the first.    *)
LEMMA CommitBooks ==
  ASSUME IInv, CommitBatch
  PROVE  IInv'
<1>n. /\ Shape /\ DOMAIN tx = 1 .. Len(tx) /\ next \in Nat /\ next >= 1
      /\ Len(failures) \in Nat /\ \A j \in 1 .. Len(failures) : failures[j] \in Results
      /\ BatchSize \in Nat /\ BatchSize >= 1
  BY Numbers DEF IInv
<1>m. PICK n, m : n = Len(Batch) /\ m = next - 1 + n
  OBVIOUS
<1>1. /\ pc = "insert" /\ next <= Len(failures) /\ Len(tx) = n /\ prefix \in Stores
      /\ rows' = rows \cup ToSet(tx) /\ tx' = <<>> /\ next' = next + BatchSize
      /\ pc' = IF LastBatch THEN "ok" ELSE "insert"
      /\ UNCHANGED <<migrated, prefix, faults, input>>
  BY <1>m DEF CommitBatch, IInv, Stage, Shape
<1>2. /\ n \in Nat /\ n >= 1 /\ m <= Len(failures) /\ m \in Nat
      /\ LastBatch => m = Len(failures)
      /\ ~ LastBatch => m = next' - 1 /\ next' <= Len(failures)
  <2>1. /\ n \in Nat /\ n >= 1 /\ m <= Len(failures)
        /\ LastBatch => m = Len(failures)
        /\ ~ LastBatch => n = BatchSize /\ next + BatchSize <= Len(failures)
    BY <1>n, <1>m, <1>1, BatchIs
  <2> QED BY <1>n, <1>m, <1>1, <2>1, SMT
<1>3. PICK k \in 0 .. Len(failures), s \in Stores : Stored(k, s) /\ Fits(k, s)
  BY DEF IInv, Progress
<1>4. k = next - 1 /\ s = prefix /\ (clear => TableRows(report.table) = Current)
  <2>1. tx # <<>>
    <3>1. Len(<<>>) = 0
      BY SMT
    <3> QED BY <1>1, <1>2, <3>1, SMT
  <2> QED BY <1>1, <1>3, <2>1, BatchStarts
<1>5. \A j \in 1 .. n :
        /\ tx[j] = Row(s, failures[k + j])
        /\ \A r \in rows : r.store = s => r.id # tx[j].id
        /\ \A i \in 1 .. n : tx[i].id = tx[j].id => i = j
  BY <1>1, <1>4 DEF IInv, Opened
<1>6. /\ k \in Nat /\ m = k + n
      /\ \A j \in 1 .. m : j \in 1 .. k \/ (j - k \in 1 .. n /\ j = k + (j - k))
      /\ \A j \in 1 .. n : k + j \in 1 .. m
      /\ \A j \in 1 .. k : j \in 1 .. m
  <2>1. k \in Nat
    BY <1>n, SMT
  <2> QED BY <1>n, <1>m, <1>2, <1>4, <2>1, SMT
<1>7. \A j \in 1 .. m : failures[j] \in Results
  <2>1. \A j \in 1 .. m : j \in 1 .. Len(failures)
    BY <1>n, <1>2, SMT
  <2> QED BY <1>n, <2>1
<1>8. \A j \in 1 .. m : Row(s, failures[j]) \in RowRecords
                        /\ LastToken(Row(s, failures[j])) = Seconds[now]
  BY <1>n, <1>7, IdEndsInSecond
<1>9. ToSet(tx) = {Row(s, failures[k + j]) : j \in 1 .. n}
  <2>1. ToSet(tx) = {tx[j] : j \in 1 .. n}
    BY <1>n, <1>1 DEF ToSet
  <2>2. \A j \in 1 .. n : tx[j] = Row(s, failures[k + j])
    BY <1>5
  <2> QED BY <2>1, <2>2
<1>10. \A r \in ToSet(tx) : r \in RowRecords /\ LastToken(r) = Seconds[now]
                           /\ r.store = s /\ r.table = report.table
  <2>1. \A x : Row(s, x).store = s /\ Row(s, x).table = report.table
    BY DEF Row
  <2> QED BY <1>6, <1>8, <1>9, <2>1
<1>11. Shape'
  <2>1. rows' \subseteq RowRecords
    BY <1>1, <1>10 DEF IInv, Shape
  <2>2. tx' \in Seq(RowRecords)
    BY <1>1, SMT
  <2>3. next' \in Nat \ {0} /\ next' <= Len(failures) + BatchSize
    BY <1>n, <1>1, SMT
  <2> QED BY <1>1, <2>1, <2>2, <2>3 DEF input, IInv, Shape, RowRecords, Results, Names, Stores
<1>12. Keys'
  <2> SUFFICES ASSUME NEW r \in rows', NEW t \in rows', r.store = t.store, r.id = t.id
               PROVE  r = t
    BY DEF Keys
  <2>1. CASE r \in rows /\ t \in rows
    BY <2>1 DEF IInv, Keys
  <2>2. ASSUME NEW a \in rows, NEW b \in ToSet(tx), a.store = b.store, a.id = b.id
        PROVE  FALSE
    BY <1>n, <1>1, <1>5, <1>10, <2>2 DEF ToSet
  <2>3. CASE r \in ToSet(tx) /\ t \in ToSet(tx)
    BY <1>n, <1>1, <1>5, <2>3 DEF ToSet
  <2> QED BY <1>1, <2>1, <2>2, <2>3
<1>13. Dated'
  <2>1. now \in 1 .. now
    BY <1>n, Numbers, SMT
  <2> QED BY <1>1, <1>10, <2>1 DEF input, IInv, Dated, LastToken
<1>14. Stage' /\ Opened'
  <2>1. Len(<<>>) = 0 /\ 1 .. 0 = {}
    BY SMT
  <2>2. Whole(next - 1)
    BY <1>1 DEF IInv, Stage
  <2>3. PICK q \in Nat : next - 1 = q * BatchSize
    BY <2>2 DEF Whole
  <2>4. next' - 1 = (q + 1) * BatchSize /\ q + 1 \in Nat
    BY <1>n, <1>1, <2>3, SMT
  <2>5. Whole(next - 1)'
    BY <2>4 DEF Whole
  <2>6. pc' = "insert" => next' <= Len(failures')
    BY <1>1, <1>2 DEF input
  <2>7. Len(tx') <= Len(Batch)'
    <3>2. PICK f, i, b : f = failures' /\ i = next' /\ b = (Batch)'
      OBVIOUS
    <3>3. f \in Seq(Results) /\ i \in Nat \ {0} /\ Len(f) \in Nat
      BY <1>11, <3>2, SMT DEF Shape, Results, Names
    <3>4. b = SubSeq(f, i, IF i + BatchSize - 1 < Len(f) THEN i + BatchSize - 1 ELSE Len(f))
      BY <3>2 DEF Batch
    <3>5. PICK j : j = IF i + BatchSize - 1 < Len(f) THEN i + BatchSize - 1 ELSE Len(f)
      OBVIOUS
    <3>6. j \in Nat /\ j <= Len(f)
      BY <1>n, <3>3, <3>5, SMT
    <3>7. 0 <= Len(b)
      BY <3>3, <3>4, <3>5, <3>6, SliceLength
    <3> QED BY <1>1, <2>1, <3>2, <3>7
  <2> QED BY <1>1, <2>1, <2>5, <2>6, <2>7 DEF Stage, Opened, Stores
<1>15. Current' = {Row(s, failures[j]) : j \in 1 .. m}
  <2>1. Current' = Current \cup ToSet(tx)
    BY <1>1, <1>10 DEF Current, LastToken, input
  <2>2. Current = {Row(s, failures[j]) : j \in 1 .. k}
    BY <1>3 DEF Stored
  <2> QED BY <1>6, <1>9, <2>1, <2>2
<1>16. \A i, j \in 1 .. m :
         generateResultID(failures[i]) = generateResultID(failures[j]) => i = j
  <2> DEFINE id(j) == generateResultID(failures[j])
  <2>1. \A j \in 1 .. k : Row(s, failures[j]) \in rows
    BY <1>3 DEF Stored, Current
  <2>2. \A j : Row(s, failures[j]).id = id(j) /\ Row(s, failures[j]).store = s
    BY DEF Row
  <2>3. \A i, j \in 1 .. k : id(i) = id(j) => i = j
    BY <1>3 DEF Stored
  <2>4. \A i \in 1 .. k, j \in 1 .. n : id(i) # id(k + j)
    BY <1>5, <2>1, <2>2
  <2>5. \A i, j \in 1 .. n : id(k + i) = id(k + j) => i = j
    BY <1>5, <2>2
  <2> HIDE DEF id
  <2>6. \A i, j \in 1 .. m : id(i) = id(j) => i = j
    BY <1>6, <2>3, <2>4, <2>5
  <2> QED BY <2>6 DEF id
<1>17. Stored(m, s)'
  <2>1. PICK F : F = failures
    OBVIOUS
  <2>2. \A j : /\ Row(s, F[j])' = Row(s, F[j])
              /\ generateResultID(F[j])' = generateResultID(F[j])
    BY <1>1 DEF Row, generateResultID, input
  <2>3. F = failures'
    BY <1>1, <2>1 DEF input
  <2>4. Whole(m)' \/ m = Len(failures')
    <3>1. ~ LastBatch => Whole(next - 1)' /\ m = next' - 1
      BY <1>1, <1>2, <1>14 DEF Stage
    <3> QED BY <1>2, <2>1, <2>3, <3>1 DEF Whole
  <2>5. Current' = {Row(s, F[j])' : j \in 1 .. m}
    BY <1>15, <2>1, <2>2
  <2>6. \A i, j \in 1 .. m : generateResultID(F[i])' = generateResultID(F[j])' => i = j
    BY <1>16, <2>1, <2>2
  <2> QED BY <2>3, <2>4, <2>5, <2>6 DEF Stored
<1>18. Fits(m, s)'
  <2>1. clear => TableRows(report.table)' = Current'
    <3>1. clear => TableRows(report.table)' = TableRows(report.table) \cup ToSet(tx)
      BY <1>1, <1>4, <1>10 DEF TableRows, input
    <3>2. Current' = Current \cup ToSet(tx)
      BY <1>1, <1>10 DEF Current, LastToken, input
    <3> QED BY <1>4, <3>1, <3>2
  <2> QED BY <1>1, <1>2, <1>4, <2>1 DEF Fits, input
<1>19. Progress'
  <2>1. m \in 0 .. Len(failures')
    BY <1>n, <1>1, <1>2, SMT DEF input
  <2> QED BY <1>17, <1>18, <2>1 DEF Progress, Stores
<1> QED
  BY <1>11, <1>12, <1>13, <1>14, <1>19 DEF IInv

(* Every step keeps the books.                                             *)
LEMMA StepBooks == IInv /\ [Next]_vars => IInv'
<1> SUFFICES ASSUME IInv, [Next]_vars PROVE IInv'
  OBVIOUS
<1>n. Shape /\ faults \in Nat /\ MaxFaults \in Nat /\ Len(failures) \in Nat
  BY Numbers DEF IInv
<1>0. ASSUME UNCHANGED <<rows, prefix, next, tx, faults, input>>,
             \/ pc' = pc
             \/ pc = "failed" /\ pc' = "detect" /\ next = 1
             \/ pc = "detect" /\ pc' = "ensure" /\ prefix # "unset"
             \/ pc = "ensure" /\ pc' = "clear",
             migrated' \in BOOLEAN
      PROVE  IInv'
  <2>1. Shape'
    BY <1>0 DEF input, IInv, Shape, RowRecords, Results, Names, Stores
  <2>2. (Batch)' = Batch
    BY <1>0 DEF Batch, input
  <2>3. Keys' /\ Dated' /\ Stage'
    BY <1>0, <2>2 DEF input, IInv, Keys, Dated, LastToken, Stage, Whole
  <2>4. \A j : Row(prefix, failures[next - 1 + j])' = Row(prefix, failures[next - 1 + j])
    BY <1>0 DEF Row, generateResultID, input
  <2>5. Opened'
    BY <1>0, <2>4 DEF input, IInv, Opened
  <2>6. PICK k \in 0 .. Len(failures), s \in Stores : Stored(k, s) /\ Fits(k, s)
    BY DEF IInv, Progress
  <2>7. Stored(k, s)' /\ Fits(k, s)'
    <3>1. Current' = Current /\ (Stored(k, s)' <=> Stored(k, s))
      BY <1>0, StoredStays DEF input
    <3>2. TableRows(report.table)' = TableRows(report.table)
      BY <1>0 DEF TableRows, input
    <3>3. prefix = "unset" => pc \in {"idle", "detect"}
      BY DEF IInv, Stage
    <3> QED BY <1>0, <2>6, <3>1, <3>2, <3>3 DEF Fits, input
  <2>8. Progress'
    BY <1>0, <2>7 DEF Progress, Stores, input
  <2> QED BY <2>1, <2>3, <2>5, <2>8 DEF IInv
<1>1. ASSUME NEW r \in Reports, Format(r) PROVE IInv'
  BY <1>1, FormatBooks
<1>2. CASE Migrate
  BY <1>0, <1>2 DEF Migrate
<1>3. CASE Retry
  <2>1. PICK k \in 0 .. Len(failures), s \in Stores : Stored(k, s) /\ Fits(k, s)
    BY DEF IInv, Progress
  <2>2. /\ pc = "failed" /\ pc' = "detect" /\ next' = 1 /\ tx = <<>> /\ prefix # "unset"
        /\ UNCHANGED <<rows, migrated, prefix, tx, faults, input>>
    BY <1>3 DEF Retry, IInv, Stage
  <2>3. 1 \in Nat \ {0} /\ 1 <= Len(failures) + BatchSize
    BY <1>n, StoreAssumption, SMT
  <2>4. Shape'
    BY <2>2, <2>3 DEF input, IInv, Shape, RowRecords, Results, Names, Stores
  <2>5. Keys' /\ Dated' /\ Stage' /\ Opened'
    BY <2>2 DEF input, IInv, Keys, Dated, LastToken, Stage, Opened
  <2>6. Stored(k, s)' /\ Fits(k, s)'
    BY <2>1, <2>2, StoredStays DEF Fits, input
  <2>7. Progress'
    BY <2>2, <2>6 DEF Progress, Stores, input
  <2> QED BY <2>4, <2>5, <2>7 DEF IInv
<1>4. CASE DetectPrefix \/ DetectFails
  BY <1>4, DetectBooks
<1>5. CASE EnsureTable
  BY <1>0, <1>5 DEF EnsureTable, IInv, Shape
<1>6. CASE ClearOldResults
  BY <1>6, ClearBooks
<1>7. CASE InsertRow
  BY <1>7, InsertBooks
<1>8. CASE InsertRefused
  BY <1>8, ErrorBooks DEF InsertRefused, RolledBack, input, IInv, Shape, Stage
<1>9. CASE CommitBatch
  BY <1>9, CommitBooks
<1>10. CASE StatementFails
  <2>1. faults' \in 0 .. MaxFaults
    BY <1>n, <1>10, SMT DEF StatementFails
  <2> QED BY <1>10, <2>1, ErrorBooks DEF StatementFails, RolledBack, input, IInv, Stage
<1>11. CASE Crash
  <2>1. faults' \in 0 .. MaxFaults
    BY <1>n, <1>11, SMT DEF Crash
  <2> QED BY <1>11, <2>1, ErrorBooks DEF Crash, input
<1>12. CASE Rest \/ UNCHANGED vars
  BY <1>0, <1>12 DEF Rest, vars, input, IInv, Shape
<1> QED
  BY <1>1, <1>2, <1>3, <1>4, <1>5, <1>6, <1>7, <1>8, <1>9, <1>10, <1>11, <1>12
  DEF Next, Run

(* The formatter writes all its rows into one physical table.              *)
Lives == born \in 1 .. now /\ \A r \in MadeHere : r.store = prefix

(* A formatter that has just been made has written none.                   *)
LEMMA InitLives == Init => Lives
<1>1. 1 \in 1 .. 1
  BY SMT
<1> QED
  BY <1>1 DEF Init, Lives, MadeHere

(* Every step keeps to that table; the rows of a process that died are not *)
(* those of the next formatter.                                            *)
LEMMA StepLives == IInv /\ Lives /\ [Next]_vars => Lives'
<1> SUFFICES ASSUME IInv, Lives, [Next]_vars PROVE Lives'
  OBVIOUS
<1>n. /\ now \in Nat /\ now >= 1 /\ Len(Seconds) \in Nat /\ born \in 1 .. now
      /\ DOMAIN Seconds = 1 .. Len(Seconds) /\ DOMAIN tx = 1 .. Len(tx)
  BY Numbers DEF IInv, Lives
<1>1. ASSUME born' = born, now' \in {now, now + 1}, rows' \subseteq rows, prefix' = prefix
      PROVE  Lives'
  <2>1. born' \in 1 .. now'
    BY <1>n, <1>1, SMT
  <2>2. MadeHere' \subseteq MadeHere
    BY <1>1 DEF MadeHere
  <2> QED BY <1>1, <2>1, <2>2 DEF Lives
<1>2. CASE DetectPrefix \/ DetectFails
  <2>1. /\ born' = born /\ now' = now /\ rows' = rows
        /\ prefix # "unset" => prefix' = prefix
    BY <1>2 DEF DetectPrefix, DetectFails, Detected, input
  <2>2. CASE prefix # "unset"
    BY <1>1, <2>1, <2>2
  <2>3. CASE prefix = "unset"
    <3>1. MadeHere = {}
      BY <2>3 DEF Lives, MadeHere, IInv, Shape, RowRecords, Stores
    <3>2. MadeHere' = {}
      BY <2>1, <3>1 DEF MadeHere
    <3> QED BY <2>1, <3>2 DEF Lives
  <2> QED BY <2>2, <2>3
<1>3. CASE CommitBatch
  <2>1. /\ born' = born /\ now' = now /\ prefix' = prefix /\ pc = "insert"
        /\ rows' = rows \cup ToSet(tx)
    BY <1>3 DEF CommitBatch, input
  <2>2. \A r \in ToSet(tx) : r.store = prefix
    <3>1. \A x : Row(prefix, x).store = prefix
      BY DEF Row
    <3> QED BY <1>n, <2>1, <3>1 DEF IInv, Opened, ToSet
  <2>3. \A r \in MadeHere' : r \in MadeHere \/ r \in ToSet(tx)
    BY <2>1 DEF MadeHere
  <2> QED BY <2>1, <2>2, <2>3 DEF Lives
<1>4. CASE Crash
  <2>1. born' = now /\ now' = now /\ rows' = rows
    BY <1>4 DEF Crash
  <2>2. now \in 1 .. now
    BY <1>n, SMT
  <2>3. ASSUME NEW r \in MadeHere' PROVE FALSE
    <3>1. PICK m \in 1 .. Len(Seconds) : m > now /\ Last(r.id) = Seconds[m]
      BY <2>1, <2>3 DEF MadeHere
    <3>2. r \in rows /\ LastToken(r) = Seconds[m]
      BY <2>1, <2>3, <3>1 DEF MadeHere, LastToken, Last
    <3>3. PICK i \in 1 .. now : LastToken(r) = Seconds[i]
      BY <3>2 DEF IInv, Dated
    <3>4. i \in DOMAIN Seconds /\ m \in DOMAIN Seconds /\ i # m
      BY <1>n, <3>1, <3>3, Numbers, SMT DEF IInv
    <3> QED BY <3>2, <3>3, <3>4, StoreAssumption DEF IsInjective
  <2> QED BY <2>1, <2>2, <2>3 DEF Lives
<1>5. CASE \/ \E r \in Reports : Format(r)
           \/ Retry \/ EnsureTable \/ ClearOldResults \/ InsertRow \/ InsertRefused
           \/ Migrate \/ StatementFails \/ Rest \/ UNCHANGED vars
  <2>1. born' = born /\ now' \in {now, now + 1} /\ rows' \subseteq rows /\ prefix' = prefix
    BY <1>5 DEF Format, Retry, EnsureTable, ClearOldResults, Cleared, InsertRow, InsertRefused,
                RolledBack, Migrate, StatementFails, Rest, vars, input
  <2> QED BY <1>1, <2>1
<1> QED
  BY <1>2, <1>3, <1>4, <1>5 DEF Next, Run

(* The formatter's state makes sense at every moment, and the rows of each *)
(* physical table have different ids.                                      *)
THEOREM TypeCorrect == Spec => []TypeOK
<1>1. IInv /\ Lives => TypeOK
  <2> SUFFICES ASSUME IInv, Lives PROVE TypeOK
    OBVIOUS
  <2>1. next \in 1 .. Len(failures) + BatchSize
    BY Numbers, SMT DEF IInv, Shape
  <2>2. Len(tx) <= Len(Batch)
    <3>1. CASE pc = "insert"
      BY <3>1 DEF IInv, Stage
    <3>2. CASE pc # "insert"
      <4>1. Len(tx) = 0 /\ Len(Batch) \in Nat
        <5>1. Len(<<>>) = 0
          BY SMT
        <5> QED BY <3>2, <5>1, BatchIs DEF IInv, Stage
      <4> QED BY <4>1, SMT
    <3> QED BY <3>1, <3>2
  <2> QED BY <2>1, <2>2 DEF IInv, Lives, Keys, Shape, Stores, TypeOK
<1> QED
  BY <1>1, InitBooks, StepBooks, InitLives, StepLives, PTL DEF Spec

(* What the entries of the first k failures are.                           *)
LEMMA FirstEntries ==
  ASSUME Shape, NEW k \in 0 .. Len(failures)
  PROVE  Entries(SubSeq(failures, 1, k)) =
           {<<failures[j].record, failures[j].rule>> : j \in 1 .. k}
<1>1. /\ DOMAIN SubSeq(failures, 1, k) = 1 .. k
      /\ \A j \in 1 .. k : SubSeq(failures, 1, k)[j] = failures[j]
  BY SMT DEF Shape
<1> QED
  BY <1>1 DEF Entries, ToSet

(* A report that was stored without an error is in the table with all its  *)
(* failures, and with clear set the table holds nothing else of its data   *)
(* table: one row for each failure, whatever earlier attempts had left.    *)
THEOREM SuccessesAreComplete == Spec => []SuccessIsComplete
<1>1. IInv => SuccessIsComplete
  <2> SUFFICES ASSUME IInv, pc = "ok" PROVE SuccessIsComplete
    BY DEF SuccessIsComplete
  <2>1. PICK k \in 0 .. Len(failures), s \in Stores : Stored(k, s) /\ Fits(k, s)
    BY DEF IInv, Progress
  <2>2. s = prefix /\ k = Len(failures) /\ (clear => TableRows(report.table) = Current)
    BY <2>1 DEF IInv, Stage, Fits
  <2>3. failures \in Seq(Results) /\ Len(failures) \in Nat /\ DOMAIN failures = 1 .. k
    BY <2>2, SMT DEF IInv, Shape
  <2>4. Current = {Row(s, failures[j]) : j \in 1 .. k}
        /\ \A i, j \in 1 .. k : Row(s, failures[i]) = Row(s, failures[j]) => i = j
    BY <2>1 DEF Stored, Row
  <2>5. Entries(failures) = {<<r.record, r.rule>> : r \in Current}
    <3>1. \A x : Row(s, x).record = x.record /\ Row(s, x).rule = x.rule
      BY DEF Row
    <3> QED BY <2>3, <2>4, <3>1 DEF Entries, ToSet
  <2>6. Current \subseteq TableRows(report.table)
    BY <2>2, <2>4 DEF Current, Row, TableRows
  <2>7. IsFiniteSet(Current) /\ Cardinality(Current) = Len(failures)
    <3> DEFINE f == [j \in 1 .. k |-> Row(s, failures[j])]
    <3>1. f \in Bijection(1 .. k, Current)
      BY <2>4 DEF Bijection, Injection, Surjection, IsInjective
    <3>2. ExistsBijection(1 .. k, Current)
      BY <3>1 DEF ExistsBijection
    <3>3. k \in Nat /\ IsFiniteSet(1 .. k) /\ Cardinality(1 .. k) = k
      <4>1. k \in Nat
        BY <2>2, <2>3
      <4> QED BY <4>1, FS_Interval, SMT
    <3> HIDE DEF f
    <3> QED BY <2>2, <3>2, <3>3, FS_Bijection
  <2> QED BY <2>2, <2>5, <2>6, <2>7 DEF SuccessIsComplete, StoredEntries
<1> QED
  BY <1>1, InitBooks, StepBooks, PTL DEF Spec

(* Whatever fails and wherever the process dies, what the table holds of a *)
(* report is its first failures, up to the end of a batch.                 *)
THEOREM BatchesAreWhole == Spec => []WholeBatches
<1>1. IInv => WholeBatches
  <2> SUFFICES ASSUME IInv PROVE WholeBatches
    OBVIOUS
  <2>1. PICK k \in 0 .. Len(failures), s \in Stores : Stored(k, s) /\ Fits(k, s)
    BY DEF IInv, Progress
  <2>2. Shape /\ k \in Nat /\ BatchSize \in Nat /\ BatchSize >= 1
    BY Numbers, SMT DEF IInv
  <2>3. k % BatchSize = 0 \/ k = Len(failures)
    <3>1. ASSUME NEW q \in Nat, k = q * BatchSize PROVE k % BatchSize = 0
      <4>1. PICK b : b = BatchSize
        OBVIOUS
      <4>2. b \in Nat \ {0} /\ k = q * b
        BY <2>2, <3>1, <4>1, SMT
      <4>3. (q * b) % b = 0
        BY <4>2, SMT
      <4> QED BY <4>1, <4>2, <4>3
    <3> QED BY <2>1, <3>1 DEF Stored, Whole
  <2>4. \A j \in 1 .. k : failures[j] \in Results /\ failures[j] \in ToSet(failures)
    BY <2>2, SMT DEF Shape, ToSet
  <2>5. \A x \in ToSet(failures) : x \in Results
    BY SMT DEF IInv, Shape, ToSet
  <2> DEFINE mine == {r \in rows : \E x \in ToSet(failures) : r.id = generateResultID(x)}
  <2>6. mine = Current
    <3>1. ASSUME NEW r \in mine PROVE r \in Current
      <4>1. PICK x \in ToSet(failures) : r.id = generateResultID(x)
        OBVIOUS
      <4>2. LastToken(Row(s, x)) = Seconds[now]
        BY <2>2, <2>5, IdEndsInSecond
      <4> QED BY <4>1, <4>2 DEF Row, LastToken, Current
    <3>2. ASSUME NEW r \in Current PROVE r \in mine
      <4>1. PICK j \in 1 .. k : r = Row(s, failures[j])
        BY <2>1 DEF Stored
      <4> QED BY <2>4, <4>1 DEF Row, Current
    <3> QED BY <3>1, <3>2
  <2>7. {<<r.record, r.rule>> : r \in mine} = Entries(SubSeq(failures, 1, k))
    <3>1. \A x : Row(s, x).record = x.record /\ Row(s, x).rule = x.rule
      BY DEF Row
    <3>2. Current = {Row(s, failures[j]) : j \in 1 .. k}
      BY <2>1 DEF Stored
    <3> HIDE DEF mine
    <3>3. {<<r.record, r.rule>> : r \in Current} =
            {<<failures[j].record, failures[j].rule>> : j \in 1 .. k}
      BY <3>1, <3>2
    <3> QED BY <2>2, <2>6, <3>3, FirstEntries
  <2> QED BY <2>3, <2>7 DEF WholeBatches
<1> QED
  BY <1>1, InitBooks, StepBooks, PTL DEF Spec

(* The rows of an open transaction are of the report's table.              *)
LEMMA TransactionIsOfTable ==
  ASSUME IInv
  PROVE  \A r \in ToSet(tx) : r.table = report.table
<1>1. DOMAIN tx = 1 .. Len(tx)
  BY Numbers DEF IInv
<1>2. CASE pc = "insert"
  <2>1. \A j \in 1 .. Len(tx) : tx[j].table = report.table
    <3>1. \A x : Row(prefix, x).table = report.table
      BY DEF Row
    <3>2. \A j \in 1 .. Len(tx) : tx[j] = Row(prefix, failures[next - 1 + j])
      BY <1>2 DEF IInv, Opened
    <3> QED BY <3>1, <3>2
  <2> QED BY <1>1, <2>1 DEF ToSet
<1>3. CASE pc # "insert"
  <2>1. tx = <<>> /\ Len(<<>>) = 0 /\ 1 .. 0 = {}
    BY <1>3, SMT DEF IInv, Stage
  <2> QED BY <1>1, <2>1 DEF ToSet
<1> QED
  BY <1>2, <1>3

(* No step of Format touches the rows of another table than its report's,  *)
(* and without the clear option none deletes a row.                        *)
THEOREM OthersAreUntouched == Spec => OthersUntouched
<1>1. IInv /\ [Next]_vars =>
        [/\ {r \in rows : r.table # report.table} = {r \in rows' : r.table # report.table}
         /\ ~ clear => rows \subseteq rows']_vars
  <2> SUFFICES ASSUME IInv, [Next]_vars
               PROVE  /\ {r \in rows : r.table # report.table} = {r \in rows' : r.table # report.table}
                      /\ ~ clear => rows \subseteq rows'
    OBVIOUS
  <2>1. CASE ClearOldResults
    BY <2>1 DEF ClearOldResults, Cleared, TableRows
  <2>2. CASE CommitBatch
    BY <2>2, TransactionIsOfTable DEF CommitBatch
  <2>3. CASE \/ \E r \in Reports : Format(r)
             \/ Retry \/ DetectPrefix \/ EnsureTable \/ InsertRow \/ InsertRefused
             \/ Migrate \/ DetectFails \/ StatementFails \/ Crash \/ Rest \/ UNCHANGED vars
    <3>1. rows' = rows
      BY <2>3 DEF Format, Retry, DetectPrefix, EnsureTable, InsertRow, InsertRefused, Migrate,
                  DetectFails, StatementFails, RolledBack, Crash, Rest, vars
    <3> QED BY <3>1
  <2> QED BY <2>1, <2>2, <2>3 DEF Next, Run
<1> QED
  BY <1>1, InitBooks, StepBooks, PTL DEF Spec, OthersUntouched

(* With clear set, what is left of a table after a success is the report   *)
(* that was stored, in both physical tables as far as this formatter has   *)
(* written them.                                                           *)
THEOREM NothingIsLeftOver == Spec => []NoLeftovers
<1>1. IInv /\ Lives => NoLeftovers
  <2> SUFFICES ASSUME IInv, Lives, pc = "ok", clear,
                      NEW r \in MadeHere, r.table = report.table
               PROVE  \E x \in ToSet(failures) : r = RowFor(x)
    BY DEF NoLeftovers
  <2>1. PICK k \in 0 .. Len(failures), s \in Stores : Stored(k, s) /\ Fits(k, s)
    BY DEF IInv, Progress
  <2>2. s = prefix /\ k = Len(failures) /\ TableRows(report.table) = Current
    BY <2>1 DEF IInv, Stage, Fits
  <2>3. r \in Current
    BY <2>2 DEF Lives, MadeHere, TableRows
  <2>4. PICK j \in 1 .. k : r = Row(s, failures[j])
    BY <2>1, <2>3 DEF Stored
  <2>5. failures[j] \in ToSet(failures)
    <3>1. j \in DOMAIN failures
      BY <2>2, SMT DEF IInv, Shape
    <3> QED BY <3>1 DEF ToSet
  <2> QED BY <2>2, <2>4, <2>5 DEF Row, RowFor
<1> QED
  BY <1>1, InitBooks, StepBooks, InitLives, StepLives, PTL DEF Spec
=============================================================================
