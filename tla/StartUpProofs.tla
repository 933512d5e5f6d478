---------------------------- MODULE StartUpProofs ----------------------------
(***************************************************************************)
(* What a consumer gets from its loader and from the requirements check at *)
(* start-up, for any number of goroutines, versions of the source, tables  *)
(* and migrations.                                                         *)
(***************************************************************************)
EXTENDS StartUp, NaturalsInduction, WellFoundedInduction, TLAPS

(* A nonempty set of numbers has a least one.                              *)
LEMMA LeastOf ==
  ASSUME NEW N \in SUBSET Nat, N # {}
  PROVE  \E n \in N : \A m \in N : n <= m
<1> DEFINE Less == {p \in Nat \X Nat : p[1] < p[2]}
<1>1. OpToRel(<, Nat) = Less
  BY DEF OpToRel
<1>2. IsWellFoundedOn(Less, Nat)
  BY <1>1, NatLessThanWellFounded
<1>3. PICK n \in N : \A m \in N : <<m, n>> \notin Less
  BY <1>2, WFMin
<1>4. ASSUME NEW m \in N PROVE n <= m
  <2>1. n \in Nat /\ m \in Nat
    OBVIOUS
  <2>2. ~ (m < n)
    BY <1>3, <2>1
  <2> QED
    BY <2>1, <2>2
<1> QED
  BY <1>4

(* A set of numbers that counting does not leave holds them all.           *)
LEMMA Counting ==
  ASSUME NEW N \in SUBSET Nat, 0 \in N, \A n \in N : n + 1 \in N
  PROVE  N = Nat
<1> SUFFICES ASSUME Nat \ N # {} PROVE FALSE
  OBVIOUS
<1>1. PICK n \in Nat \ N : \A m \in Nat \ N : n <= m
  BY LeastOf
<1>2. n - 1 \in Nat /\ ~ (n <= n - 1) /\ n - 1 + 1 = n
  <2>1. n # 0 /\ n \in Nat
    BY <1>1
  <2> QED BY <2>1, SMT
<1>3. n - 1 \in N
  BY <1>1, <1>2
<1> QED
  BY <1>1, <1>2, <1>3
-----------------------------------------------------------------------------
(* One turn of a filter loop.                                              *)
Turn(s, rule, o) == IF Asked(rule, o) THEN Append(s, rule) ELSE s

(* A filter loop has a value at every turn, up to the end of the rules.    *)
LEMMA LoopRuns ==
  ASSUME NEW R \in Seq(RuleSet), NEW o, NEW n \in Nat, n <= Len(R)
  PROVE  \E f \in [0 .. n -> Seq(RuleSet)] :
           \A k \in 0 .. n : f[k] = IF k = 0 THEN <<>> ELSE Turn(f[k - 1], R[k], o)
<1> DEFINE Runs(m, f) ==
             /\ f \in [0 .. m -> Seq(RuleSet)]
             /\ \A k \in 0 .. m : f[k] = IF k = 0 THEN <<>> ELSE Turn(f[k - 1], R[k], o)
           N == {m \in Nat : m <= Len(R) => \E f : Runs(m, f)}
<1>1. Len(R) \in Nat /\ \A k \in 1 .. Len(R) : R[k] \in RuleSet
  BY SMT
<1>2. 0 \in N
  <2>1. Runs(0, [k \in 0 .. 0 |-> <<>>])
    BY SMT
  <2> QED BY <2>1
<1>3. ASSUME NEW m \in Nat, m + 1 <= Len(R), \E f : Runs(m, f)
      PROVE  \E f : Runs(m + 1, f)
  <2>1. m \in Nat /\ m <= Len(R) /\ m + 1 \in 1 .. Len(R)
    BY <1>1, <1>3, SMT
  <2>2. PICK f : Runs(m, f)
    BY <1>3
  <2>3. f[m] \in Seq(RuleSet) /\ R[m + 1] \in RuleSet
    BY <1>1, <2>1, <2>2
  <2>4. Turn(f[m], R[m + 1], o) \in Seq(RuleSet)
    BY <2>3 DEF Turn
  <2> DEFINE g == [k \in 0 .. m + 1 |-> IF k = m + 1 THEN Turn(f[m], R[m + 1], o) ELSE f[k]]
  <2>5. \A k \in 0 .. m + 1 : k = m + 1 \/ k \in 0 .. m
    BY <2>1, SMT
  <2>6. g \in [0 .. m + 1 -> Seq(RuleSet)]
    BY <2>2, <2>4, <2>5
  <2>7. ASSUME NEW k \in 0 .. m + 1
        PROVE  g[k] = IF k = 0 THEN <<>> ELSE Turn(g[k - 1], R[k], o)
    <3>1. CASE k = m + 1
      <4>1. k # 0 /\ k - 1 = m /\ m \in 0 .. m + 1 /\ m # m + 1
        BY <2>1, <3>1, SMT
      <4> QED BY <3>1, <4>1
    <3>2. CASE k # m + 1
      <4>1. k \in 0 .. m /\ (k # 0 => k - 1 \in 0 .. m + 1 /\ k - 1 # m + 1)
        BY <2>1, <3>2, SMT
      <4> QED BY <2>2, <3>2, <4>1
    <3> QED BY <3>1, <3>2
  <2> QED BY <2>6, <2>7
<1> HIDE DEF Runs
<1>4. \A m \in N : m + 1 \in N
  <2>1. \A m \in Nat : m + 1 <= Len(R) => m <= Len(R)
    BY <1>1, SMT
  <2> QED BY <1>3, <2>1
<1>5. N = Nat
  <2>1. N \in SUBSET Nat
    OBVIOUS
  <2> HIDE DEF N
  <2> QED BY <1>2, <1>4, <2>1, Counting
<1>6. PICK f : Runs(n, f)
  BY <1>5
<1> QED
  BY <1>6 DEF Runs

(* s lists those of the first m rules of R that o asks for, in order.      *)
Lists(s, R, o, m) ==
  /\ s \in Seq(RuleSet)
  /\ \E f \in [DOMAIN s -> 1 .. m] :
       /\ \A k, l \in DOMAIN s : k < l => f[k] < f[l]
       /\ \A k \in DOMAIN s : s[k] = R[f[k]]
  /\ \A k \in 1 .. m : R[k] \in {s[l] : l \in DOMAIN s} <=> Asked(R[k], o)

(* What one turn makes of such a list.                                     *)
LEMMA OneTurn ==
  ASSUME NEW R \in Seq(RuleSet), NEW o, NEW m \in Nat, m + 1 <= Len(R),
         NEW s, Lists(s, R, o, m)
  PROVE  Lists(Turn(s, R[m + 1], o), R, o, m + 1)
<1>1. /\ m + 1 \in 1 .. m + 1 /\ R[m + 1] \in RuleSet /\ m + 1 \notin 1 .. m
      /\ \A k \in 1 .. m + 1 : k \in 1 .. m \/ k = m + 1
      /\ \A k \in 1 .. m : k \in 1 .. m + 1 /\ k < m + 1
  BY SMT
<1>2. s \in Seq(RuleSet)
  BY DEF Lists
<1>3. PICK f \in [DOMAIN s -> 1 .. m] :
        /\ \A k, l \in DOMAIN s : k < l => f[k] < f[l]
        /\ \A k \in DOMAIN s : s[k] = R[f[k]]
  BY DEF Lists
<1>4. \A k \in 1 .. m : R[k] \in {s[l] : l \in DOMAIN s} <=> Asked(R[k], o)
  BY DEF Lists
<1>5. CASE ~ Asked(R[m + 1], o)
  <2>1. Turn(s, R[m + 1], o) = s
    BY <1>5 DEF Turn
  <2>2. f \in [DOMAIN s -> 1 .. m + 1]
    BY <1>1
  <2>3. R[m + 1] \notin {s[l] : l \in DOMAIN s}
    <3> SUFFICES ASSUME NEW l \in DOMAIN s, R[m + 1] = s[l] PROVE FALSE
      OBVIOUS
    <3>1. f[l] \in 1 .. m /\ R[m + 1] = R[f[l]]
      BY <1>3
    <3>2. Asked(R[f[l]], o)
      BY <1>3, <1>4, <3>1
    <3> QED BY <1>5, <3>1, <3>2
  <2>4. \A k \in 1 .. m + 1 : R[k] \in {s[l] : l \in DOMAIN s} <=> Asked(R[k], o)
    BY <1>1, <1>4, <1>5, <2>3
  <2> QED BY <1>2, <1>3, <2>1, <2>2, <2>4 DEF Lists
<1>6. CASE Asked(R[m + 1], o)
  <2> DEFINE t == Append(s, R[m + 1])
             n == Len(s)
  <2>1. Turn(s, R[m + 1], o) = t
    BY <1>6 DEF Turn
  <2>2. /\ DOMAIN s = 1 .. n /\ n \in Nat
        /\ t \in Seq(RuleSet) /\ DOMAIN t = 1 .. n + 1
        /\ t[n + 1] = R[m + 1] /\ \A k \in 1 .. n : t[k] = s[k]
    BY <1>1, <1>2, SMT
  <2>3. /\ \A k \in DOMAIN t : k \in DOMAIN s \/ k = n + 1
        /\ \A k \in DOMAIN s : k \in DOMAIN t /\ k # n + 1 /\ k < n + 1 /\ ~ (n + 1 < k)
        /\ n + 1 \in DOMAIN t /\ n + 1 \notin DOMAIN s /\ ~ (n + 1 < n + 1)
    BY <2>2, SMT
  <2> HIDE DEF t, n
  <2> DEFINE g == [k \in DOMAIN t |-> IF k = n + 1 THEN m + 1 ELSE f[k]]
  <2>4. g \in [DOMAIN t -> 1 .. m + 1]
    BY <1>1, <2>3
  <2>5. ASSUME NEW k \in DOMAIN t, NEW l \in DOMAIN t, k < l PROVE g[k] < g[l]
    <3>1. k \in DOMAIN s
      BY <2>3, <2>5
    <3>2. g[k] = f[k] /\ f[k] \in 1 .. m
      BY <2>3, <3>1
    <3>3. CASE l = n + 1
      BY <1>1, <3>2, <3>3
    <3>4. CASE l # n + 1
      BY <1>3, <2>3, <2>5, <3>1, <3>2, <3>4
    <3> QED BY <3>3, <3>4
  <2>6. \A k \in DOMAIN t : t[k] = R[g[k]]
    BY <1>3, <2>2, <2>3
  <2>7. ASSUME NEW k \in 1 .. m + 1
        PROVE  R[k] \in {t[l] : l \in DOMAIN t} <=> Asked(R[k], o)
    <3>1. {t[l] : l \in DOMAIN t} = {s[l] : l \in DOMAIN s} \cup {R[m + 1]}
      BY <2>2, <2>3
    <3> QED BY <1>1, <1>4, <1>6, <3>1
  <2>8. \E h \in [DOMAIN t -> 1 .. m + 1] :
           /\ \A k, l \in DOMAIN t : k < l => h[k] < h[l]
           /\ \A k \in DOMAIN t : t[k] = R[h[k]]
    <3> HIDE DEF g
    <3> QED BY <2>4, <2>5, <2>6
  <2>9. Lists(t, R, o, m + 1)
    BY <2>2, <2>7, <2>8 DEF Lists
  <2> QED BY <2>1, <2>9
<1> QED
  BY <1>5, <1>6

(* The filter loops keep the rules asked for, all of them, in order.       *)
LEMMA ListingLists ==
  ASSUME NEW v, v.rules \in Seq(RuleSet), NEW o
  PROVE  Lists(Listing(v, o), v.rules, o, Len(v.rules))
<1> DEFINE R == v.rules
           n == Len(R)
           up == CHOOSE f : f = [k \in 0 .. n |->
                   IF k = 0 THEN <<>>
                   ELSE IF Asked(R[k], o) THEN Append(f[k - 1], R[k]) ELSE f[k - 1]]
           N == {m \in Nat : m <= n => Lists(up[m], R, o, m)}
<1>1. n \in Nat /\ DOMAIN R = 1 .. n /\ n <= n
  BY SMT
<1>2. Listing(v, o) = up[n]
  BY DEF Listing
<1>3. \A k \in 0 .. n : up[k] = IF k = 0 THEN <<>> ELSE Turn(up[k - 1], R[k], o)
  <2>1. PICK f \in [0 .. n -> Seq(RuleSet)] :
          \A k \in 0 .. n : f[k] = IF k = 0 THEN <<>> ELSE Turn(f[k - 1], R[k], o)
    BY <1>1, LoopRuns
  <2>2. f = [k \in 0 .. n |-> IF k = 0 THEN <<>>
                              ELSE IF Asked(R[k], o) THEN Append(f[k - 1], R[k])
                              ELSE f[k - 1]]
    BY <2>1 DEF Turn
  <2>3. up = [k \in 0 .. n |-> IF k = 0 THEN <<>>
                               ELSE IF Asked(R[k], o) THEN Append(up[k - 1], R[k])
                               ELSE up[k - 1]]
    BY <2>2
  <2> HIDE DEF up
  <2> QED BY <2>3 DEF Turn
<1> HIDE DEF up
<1>4. 0 \in N
  <2>1. /\ 0 \in 0 .. n /\ 1 .. 0 = {} /\ <<>> \in Seq(RuleSet) /\ DOMAIN <<>> = {}
        /\ <<>> \in [{} -> {}]
    BY <1>1, SMT
  <2>2. up[0] = <<>>
    BY <1>3, <2>1
  <2>3. Lists(<<>>, R, o, 0)
    BY <2>1 DEF Lists
  <2> QED BY <2>2, <2>3
<1>5. ASSUME NEW m \in N PROVE m + 1 \in N
  <2> SUFFICES ASSUME m + 1 <= n PROVE Lists(up[m + 1], R, o, m + 1)
    OBVIOUS
  <2>1. m \in Nat /\ m <= n /\ m + 1 \in 0 .. n /\ m + 1 # 0 /\ m + 1 - 1 = m
    BY <1>1, SMT
  <2>2. up[m + 1] = Turn(up[m], R[m + 1], o)
    BY <1>3, <2>1
  <2> QED BY <2>1, <2>2, OneTurn
<1>6. N = Nat
  BY <1>4, <1>5, Counting
<1>7. Lists(up[n], R, o, n)
  BY <1>1, <1>6
<1> QED
  BY <1>2, <1>7
-----------------------------------------------------------------------------
Fetched == {"store", "make", "fill"}

(* The source has been a list without rules.                               *)
Emptied == \E v \in had : v.rules = <<>>

(* What a caller's place says of its parsed version and of the fields.     *)
Place(c) ==
  /\ pc[c] # "idle" => op[c] \in Operations
  /\ pc[c] = "check" => kind = "json" /\ op[c].call # "all"
  /\ pc[c] \in Fetched =>
       /\ parsed[c] \in had /\ parsed[c].valid
       /\ (kind = "json" => parsed[c].rules # <<>>) => parsed[c] \in taken
  /\ pc[c] = "use" /\ parsed[c] \notin had =>
       kind = "json" /\ (op[c].call = "all" => Emptied)
  /\ kind = "bundle" /\ pc[c] \in {"make", "fill", "take", "use"} => cached # None
  /\ kind = "bundle" /\ pc[c] \in {"store", "make"} => pos[c] = 1
  /\ kind = "json" => pc[c] # "make"
  /\ kind = "json" /\ pc[c] \in {"take", "use"} /\ cached = None => Emptied
  /\ pc[c] = "return" /\ op[c].call = "package" /\ answer[c] # Error => answer[c] \in had

Places ==
  /\ file \in had /\ pos \in [Callers -> Nat]
  /\ answer = [c \in Callers |-> answer[c]]
  /\ \A c \in Callers : Place(c)

Has(v, k) == index[v.rules[k].id] # None

(* The JSON loader's index holds what has been gone through, for good.     *)
Indexed ==
  kind = "json" =>
    /\ cached # None => \A k \in DOMAIN cached.rules : Has(cached, k)
    /\ \A c \in Callers :
         /\ pc[c] = "store" => \A k \in DOMAIN parsed[c].rules : Has(parsed[c], k)
         /\ pc[c] = "fill" =>
              \A k \in DOMAIN parsed[c].rules : k < pos[c] => Has(parsed[c], k)

(* A caller that will still write the rule at k.                           *)
Pending(c, k) ==
  \/ kind = "bundle" /\ pc[c] \in {"store", "make"}
  \/ pc[c] = "fill" /\ pos[c] <= k

LastOf(v, k) == \A l \in DOMAIN v.rules : v.rules[l].id = v.rules[k].id => l <= k

(* The index against v, the one version that was filled in.                *)
Fits(v) ==
  /\ \A i \in Ids : (\A k \in DOMAIN v.rules : v.rules[k].id # i) => index[i] = None
  /\ \A k \in DOMAIN v.rules :
       LastOf(v, k) => \/ index[v.rules[k].id] = v.rules[k]
                       \/ \E c \in Callers : parsed[c] = v /\ Pending(c, k)

Fitting ==
  /\ taken = {} => index = NoRules
  /\ \A v \in Versions : taken = {v} => Fits(v)

LoaderBooks == LoaderTypeOK /\ Places /\ Indexed /\ Fitting

(* The rules of a version are a sequence of rules with IDs.                *)
LEMMA RulesOf ==
  ASSUME NEW v \in Versions
  PROVE  /\ v.rules \in Seq(RuleSet) /\ v.valid \in BOOLEAN /\ v # None
         /\ Len(v.rules) \in Nat /\ DOMAIN v.rules = 1 .. Len(v.rules)
         /\ \A k \in DOMAIN v.rules : /\ v.rules[k] \in Rules /\ v.rules[k].id \in Ids
                                      /\ v.rules[k] # None
<1>1. v.rules \in Seq(RuleSet) /\ v.valid \in BOOLEAN /\ v # None
  BY LoaderAssumption
<1>2. Len(v.rules) \in Nat /\ DOMAIN v.rules = 1 .. Len(v.rules)
  BY <1>1, SMT
<1>3. \A k \in DOMAIN v.rules : v.rules[k] \in RuleSet
  BY <1>1, <1>2, SMT
<1>4. \A k \in DOMAIN v.rules : v.rules[k] \in Rules
  BY DEF Rules
<1> QED
  BY <1>1, <1>2, <1>3, <1>4, LoaderAssumption DEF RuleSet

(* What the steps below need of the types.                                 *)
LEMMA Typed ==
  ASSUME LoaderBooks
  PROVE  /\ pc \in [Callers -> Loading \cup {"idle", "check", "look", "take", "use", "return"}]
         /\ op \in [Callers -> Operations \cup {None}]
         /\ parsed \in [Callers -> had \cup {None}] /\ pos \in [Callers -> Nat]
         /\ answer = [d \in Callers |-> answer[d]]
         /\ index \in [Ids -> Rules \cup {None}]
         /\ file \in had /\ had \subseteq Versions /\ taken \subseteq had /\ kind \in Kinds
         /\ LoaderTypeOK /\ Places /\ Indexed /\ Fitting
BY DEF LoaderBooks, LoaderTypeOK, Places, Place

(* A loader is made in order.                                              *)
LEMMA InitLoader == LoaderInit => LoaderBooks
<1> SUFFICES ASSUME LoaderInit PROVE LoaderBooks
  OBVIOUS
<1> USE DEF LoaderInit
<1>1. LoaderTypeOK
  BY LoaderAssumption DEF LoaderTypeOK, NoRules, Loading
<1>2. Places
  BY DEF Places, Place, Fetched, Emptied
<1>3. Indexed
  BY DEF Indexed
<1>4. Fitting
  BY DEF Fitting
<1> QED
  BY <1>1, <1>2, <1>3, <1>4 DEF LoaderBooks

(* The source changes: nobody has read the new version yet.                *)
LEMMA ChangeBooks ==
  ASSUME LoaderBooks, NEW v \in Versions, Change(v)
  PROVE  LoaderBooks'
<1> USE DEF Change, cache, locals
<1>1. LoaderTypeOK'
  BY LoaderAssumption DEF LoaderBooks, LoaderTypeOK, Operations
<1>2. Places'
  BY DEF LoaderBooks, Places, Place, Operations, Emptied
<1>3. Indexed'
  BY DEF LoaderBooks, Indexed, Has
<1>4. Fitting'
  BY DEF LoaderBooks, Fitting, Fits, Pending, NoRules, LastOf
<1> QED
  BY <1>1, <1>2, <1>3, <1>4 DEF LoaderBooks

(* A caller comes in.                                                      *)
LEMMA CallBooks ==
  ASSUME LoaderBooks, NEW c \in Callers, NEW o \in Operations, Call(c, o)
  PROVE  LoaderBooks'
<1> USE DEF Call, Goto, source, cache
<1>0. /\ pc' = [pc EXCEPT ![c] = IF kind = "json" /\ o.call # "all" THEN "check"
                                                                   ELSE "look"]
      /\ op' = [op EXCEPT ![c] = o]
      /\ pc \in [Callers -> Loading \cup {"idle", "check", "look", "take", "use", "return"}]
      /\ pc[c] = "idle"
  BY DEF LoaderBooks, LoaderTypeOK
<1>1. LoaderTypeOK'
  BY <1>0 DEF LoaderBooks, LoaderTypeOK, Operations, Loading
<1>2. Places'
  BY <1>0 DEF LoaderBooks, LoaderTypeOK, Places, Place, Operations, Fetched, Emptied
<1>3. Indexed'
  BY <1>0 DEF LoaderBooks, Indexed, Has
<1>4. Fitting'
  BY <1>0 DEF LoaderBooks, Fitting, Fits, Pending, NoRules, LastOf
<1> QED
  BY <1>1, <1>2, <1>3, <1>4 DEF LoaderBooks

(* A caller of the JSON loader looks whether it has been filled.           *)
LEMMA CheckBooks ==
  ASSUME LoaderBooks, NEW c \in Callers, Check(c)
  PROVE  LoaderBooks'
<1> USE DEF Check, Goto, source, cache, locals, Hit
<1>0. LoaderTypeOK /\ Places /\ Indexed /\ Fitting /\ kind \in Kinds
      /\ had \subseteq Versions /\ taken \subseteq had
      /\ pc \in [Callers -> Loading \cup {"idle", "check", "look", "take", "use", "return"}]
      /\ parsed \in [Callers -> had \cup {None}] /\ pos \in [Callers -> Nat]
  BY Typed
<1>1. LoaderTypeOK'
  BY <1>0 DEF LoaderTypeOK, Places, Place, Operations, Loading, Fetched, Emptied
<1>2. Places'
  BY <1>0 DEF LoaderTypeOK, Places, Place, Operations, Loading, Fetched, Emptied
<1>3. Indexed'
  BY <1>0 DEF Indexed, Has, Places, Place, Fetched, Emptied
<1>4. Fitting'
  BY <1>0 DEF Fitting, Fits, Pending, NoRules, LastOf
<1> QED
  BY <1>1, <1>2, <1>3, <1>4 DEF LoaderBooks

(* It looks in LoadPackage or LoadRules.                                   *)
LEMMA LookBooks ==
  ASSUME LoaderBooks, NEW c \in Callers, Look(c)
  PROVE  LoaderBooks'
<1> USE DEF Look, Goto, source, cache, locals, Hit
<1>0. LoaderTypeOK /\ Places /\ Indexed /\ Fitting /\ kind \in Kinds
      /\ had \subseteq Versions /\ taken \subseteq had
      /\ pc \in [Callers -> Loading \cup {"idle", "check", "look", "take", "use", "return"}]
      /\ parsed \in [Callers -> had \cup {None}] /\ pos \in [Callers -> Nat]
  BY Typed
<1>1. LoaderTypeOK'
  BY <1>0 DEF LoaderTypeOK, Places, Place, Operations, Loading, Fetched, Emptied
<1>2. Places'
  BY <1>0 DEF LoaderTypeOK, Places, Place, Operations, Loading, Fetched, Emptied
<1>3. Indexed'
  BY <1>0 DEF Indexed, Has, Places, Place, Fetched, Emptied
<1>4. Fitting'
  BY <1>0 DEF Fitting, Fits, Pending, NoRules, LastOf
<1> QED
  BY <1>1, <1>2, <1>3, <1>4 DEF LoaderBooks

(* What it found there is read once more.                                  *)
LEMMA TakeBooks ==
  ASSUME LoaderBooks, NEW c \in Callers, Take(c)
  PROVE  LoaderBooks'
<1> USE DEF Take, Goto, source, cache
<1>0. LoaderTypeOK /\ Places /\ Indexed /\ Fitting /\ kind \in Kinds
      /\ had \subseteq Versions /\ taken \subseteq had
      /\ pc \in [Callers -> Loading \cup {"idle", "check", "look", "take", "use", "return"}]
      /\ parsed \in [Callers -> had \cup {None}] /\ pos \in [Callers -> Nat]
  BY Typed
<1>1. LoaderTypeOK'
  BY <1>0 DEF LoaderTypeOK, Places, Place, Operations, Loading, Fetched, Emptied
<1>2. Places'
  <2>1. cached # None => cached \in had
    BY <1>0 DEF LoaderTypeOK
  <2>2. cached = None => kind = "json" /\ Emptied
    BY <1>0 DEF Places, Place, Kinds
  <2> QED BY <1>0, <2>1, <2>2 DEF Places, Place, Fetched, Emptied, Operations
<1>3. Indexed'
  BY <1>0 DEF Indexed, Has, Places, Place, Fetched, Emptied
<1>4. Fitting'
  BY <1>0 DEF Fitting, Fits, Pending, NoRules, LastOf
<1> QED
  BY <1>1, <1>2, <1>3, <1>4 DEF LoaderBooks

(* A read that fails leaves nothing behind.                                *)
LEMMA ReadFailsBooks ==
  ASSUME LoaderBooks, NEW c \in Callers, ReadFails(c)
  PROVE  LoaderBooks'
<1> USE DEF ReadFails, Reply, Goto, source, cache, locals
<1>0. LoaderTypeOK /\ Places /\ Indexed /\ Fitting /\ kind \in Kinds
      /\ had \subseteq Versions /\ taken \subseteq had
      /\ pc \in [Callers -> Loading \cup {"idle", "check", "look", "take", "use", "return"}]
      /\ parsed \in [Callers -> had \cup {None}] /\ pos \in [Callers -> Nat]
  BY Typed
<1>1. LoaderTypeOK'
  BY <1>0 DEF LoaderTypeOK, Places, Place, Operations, Loading, Fetched, Emptied
<1>2. Places'
  BY <1>0 DEF LoaderTypeOK, Places, Place, Operations, Loading, Fetched, Emptied
<1>3. Indexed'
  BY <1>0 DEF Indexed, Has, Places, Place, Fetched, Emptied
<1>4. Fitting'
  BY <1>0 DEF Fitting, Fits, Pending, NoRules, LastOf
<1> QED
  BY <1>1, <1>2, <1>3, <1>4 DEF LoaderBooks

(* A new index replaces the one there was.                                 *)
LEMMA MakeBooks ==
  ASSUME LoaderBooks, NEW c \in Callers, Make(c)
  PROVE  LoaderBooks'
<1> USE DEF Make, Goto, source, locals
<1>0. LoaderTypeOK /\ Places /\ Indexed /\ Fitting /\ kind \in Kinds
      /\ had \subseteq Versions /\ taken \subseteq had
      /\ pc \in [Callers -> Loading \cup {"idle", "check", "look", "take", "use", "return"}]
      /\ parsed \in [Callers -> had \cup {None}] /\ pos \in [Callers -> Nat]
  BY Typed
<1>1. LoaderTypeOK'
  <2>1. index' \in [Ids -> Rules \cup {None}]
    BY DEF NoRules
  <2>2. pos[c] = 1 /\ \A v \in Versions : 1 \in 1 .. Len(v.rules) + 1
    BY <1>0, RulesOf DEF Places, Place, Kinds
  <2>3. parsed[c] \in Versions
    BY <1>0 DEF Places, Place, Fetched
  <2> QED BY <1>0, <2>1, <2>2, <2>3 DEF LoaderTypeOK, Operations, Loading
<1>2. Places'
  BY <1>0 DEF LoaderTypeOK, Places, Place, Operations, Loading, Fetched, Emptied
<1>3. Indexed'
  BY <1>0 DEF Indexed, Has, Places, Place, Fetched, Emptied
<1>4. Fitting'
  <2>1. kind = "bundle" /\ parsed[c] \in taken /\ pos[c] = 1 /\ pc'[c] = "fill"
    BY <1>0 DEF Places, Place, Fetched, Kinds
  <2>2. taken' # {} /\ index' = NoRules
    BY <2>1
  <2>3. ASSUME NEW v \in Versions, taken' = {v} PROVE Fits(v)'
    <3>1. parsed'[c] = v
      BY <2>1, <2>3
    <3>2. \A k \in DOMAIN v.rules : Pending(c, k)'
      BY <2>1, RulesOf DEF Pending
    <3> QED BY <2>2, <3>1, <3>2 DEF Fits, NoRules
  <2> QED BY <2>2, <2>3 DEF Fitting
<1> QED
  BY <1>1, <1>2, <1>3, <1>4 DEF LoaderBooks

(* The parsed version becomes everybody's.                                 *)
LEMMA StoreBooks ==
  ASSUME LoaderBooks, NEW c \in Callers, Store(c)
  PROVE  LoaderBooks'
<1> USE DEF Store, Goto, source, locals
<1>0. LoaderTypeOK /\ Places /\ Indexed /\ Fitting /\ kind \in Kinds
      /\ had \subseteq Versions /\ taken \subseteq had
      /\ pc \in [Callers -> Loading \cup {"idle", "check", "look", "take", "use", "return"}]
      /\ parsed \in [Callers -> had \cup {None}] /\ pos \in [Callers -> Nat]
  BY Typed
<1>a. parsed[c] \in had /\ parsed[c] # None /\ parsed[c] \in Versions
  BY <1>0, RulesOf DEF Places, Place, Fetched
<1>1. LoaderTypeOK'
  BY <1>0, <1>a DEF LoaderTypeOK, Places, Place, Operations, Loading, Fetched, Emptied
<1>2. Places'
  BY <1>0, <1>a DEF LoaderTypeOK, Places, Place, Operations, Loading, Fetched, Emptied, Kinds
<1>3. Indexed'
  BY <1>0 DEF Indexed, Has, Places, Place, Fetched, Emptied
<1>4. Fitting'
  <2>1. \A d, k : Pending(d, k) => Pending(d, k)'
    BY <1>0 DEF Pending
  <2> QED BY <1>0, <2>1 DEF Fitting, Fits, NoRules, LastOf
<1> QED
  BY <1>1, <1>2, <1>3, <1>4 DEF LoaderBooks

(* The loop that fills the index is through.                               *)
LEMMA FilledBooks ==
  ASSUME LoaderBooks, NEW c \in Callers, Filled(c)
  PROVE  LoaderBooks'
<1> USE DEF Filled, Goto, source, cache
<1>0. LoaderTypeOK /\ Places /\ Indexed /\ Fitting /\ kind \in Kinds
      /\ had \subseteq Versions /\ taken \subseteq had
      /\ pc \in [Callers -> Loading \cup {"idle", "check", "look", "take", "use", "return"}]
      /\ parsed \in [Callers -> had \cup {None}] /\ pos \in [Callers -> Nat]
  BY Typed
<1>a. parsed[c] \in had /\ parsed[c] \in Versions
  BY <1>0 DEF Places, Place, Fetched
<1>b. \A k \in DOMAIN parsed[c].rules : k < pos[c] /\ ~ (pos[c] <= k)
  BY <1>0, <1>a, RulesOf
<1>1. LoaderTypeOK'
  BY <1>0 DEF LoaderTypeOK, Places, Place, Operations, Loading, Fetched, Emptied
<1>2. Places'
  BY <1>0 DEF LoaderTypeOK, Places, Place, Operations, Loading, Fetched, Emptied
<1>3. Indexed'
  BY <1>0, <1>a, <1>b DEF Indexed, Has, Places, Place, Fetched, Emptied, Kinds
<1>4. Fitting'
  <2>1. ASSUME NEW v \in Versions, NEW k \in DOMAIN v.rules, NEW d \in Callers,
               parsed[d] = v, Pending(d, k)
        PROVE  parsed'[d] = v /\ Pending(d, k)'
    <3>1. d # c
      BY <1>b, <2>1 DEF Pending
    <3> QED BY <1>0, <2>1, <3>1 DEF Pending
  <2> QED BY <1>0, <2>1 DEF Fitting, Fits, NoRules, LastOf
<1> QED
  BY <1>1, <1>2, <1>3, <1>4 DEF LoaderBooks

(* A caller that asked for the package gets it.                            *)
LEMMA HandOverBooks ==
  ASSUME LoaderBooks, NEW c \in Callers, HandOver(c)
  PROVE  LoaderBooks'
<1> USE DEF HandOver, Reply, Goto, source, cache, locals
<1>0. LoaderTypeOK /\ Places /\ Indexed /\ Fitting /\ kind \in Kinds
      /\ had \subseteq Versions /\ taken \subseteq had
      /\ pc \in [Callers -> Loading \cup {"idle", "check", "look", "take", "use", "return"}]
      /\ parsed \in [Callers -> had \cup {None}] /\ pos \in [Callers -> Nat]
  BY Typed
<1>1. LoaderTypeOK'
  BY <1>0 DEF LoaderTypeOK, Places, Place, Operations, Loading, Fetched, Emptied
<1>2. Places'
  BY <1>0 DEF LoaderTypeOK, Places, Place, Operations, Loading, Fetched, Emptied
<1>3. Indexed'
  BY <1>0 DEF Indexed, Has, Places, Place, Fetched, Emptied
<1>4. Fitting'
  BY <1>0 DEF Fitting, Fits, Pending, NoRules, LastOf
<1> QED
  BY <1>1, <1>2, <1>3, <1>4 DEF LoaderBooks

(* A list is taken from the shared version.                                *)
LEMMA ListBooks ==
  ASSUME LoaderBooks, NEW c \in Callers, List(c)
  PROVE  LoaderBooks'
<1> USE DEF List, Reply, Goto, source, cache, locals
<1>0. LoaderTypeOK /\ Places /\ Indexed /\ Fitting /\ kind \in Kinds
      /\ had \subseteq Versions /\ taken \subseteq had
      /\ pc \in [Callers -> Loading \cup {"idle", "check", "look", "take", "use", "return"}]
      /\ parsed \in [Callers -> had \cup {None}] /\ pos \in [Callers -> Nat]
  BY Typed
<1>1. LoaderTypeOK'
  BY <1>0 DEF LoaderTypeOK, Places, Place, Operations, Loading, Fetched, Emptied
<1>2. Places'
  BY <1>0 DEF LoaderTypeOK, Places, Place, Operations, Loading, Fetched, Emptied
<1>3. Indexed'
  BY <1>0 DEF Indexed, Has, Places, Place, Fetched, Emptied
<1>4. Fitting'
  BY <1>0 DEF Fitting, Fits, Pending, NoRules, LastOf
<1> QED
  BY <1>1, <1>2, <1>3, <1>4 DEF LoaderBooks

(* A rule is looked up in the shared index.                                *)
LEMMA LookUpBooks ==
  ASSUME LoaderBooks, NEW c \in Callers, LookUp(c)
  PROVE  LoaderBooks'
<1> USE DEF LookUp, Reply, Goto, source, cache, locals
<1>0. LoaderTypeOK /\ Places /\ Indexed /\ Fitting /\ kind \in Kinds
      /\ had \subseteq Versions /\ taken \subseteq had
      /\ pc \in [Callers -> Loading \cup {"idle", "check", "look", "take", "use", "return"}]
      /\ parsed \in [Callers -> had \cup {None}] /\ pos \in [Callers -> Nat]
  BY Typed
<1>1. LoaderTypeOK'
  BY <1>0 DEF LoaderTypeOK, Places, Place, Operations, Loading, Fetched, Emptied
<1>2. Places'
  BY <1>0 DEF LoaderTypeOK, Places, Place, Operations, Loading, Fetched, Emptied
<1>3. Indexed'
  BY <1>0 DEF Indexed, Has, Places, Place, Fetched, Emptied
<1>4. Fitting'
  BY <1>0 DEF Fitting, Fits, Pending, NoRules, LastOf
<1> QED
  BY <1>1, <1>2, <1>3, <1>4 DEF LoaderBooks

(* A caller leaves.                                                        *)
LEMMA ReturnBooks ==
  ASSUME LoaderBooks, NEW c \in Callers, Return(c)
  PROVE  LoaderBooks'
<1> USE DEF Return, Goto, source, cache
<1>0. LoaderTypeOK /\ Places /\ Indexed /\ Fitting /\ kind \in Kinds
      /\ had \subseteq Versions /\ taken \subseteq had
      /\ pc \in [Callers -> Loading \cup {"idle", "check", "look", "take", "use", "return"}]
      /\ parsed \in [Callers -> had \cup {None}] /\ pos \in [Callers -> Nat]
  BY Typed
<1>1. LoaderTypeOK'
  BY <1>0 DEF LoaderTypeOK, Places, Place, Operations, Loading, Fetched, Emptied
<1>2. Places'
  BY <1>0 DEF LoaderTypeOK, Places, Place, Operations, Loading, Fetched, Emptied
<1>3. Indexed'
  BY <1>0 DEF Indexed, Has, Places, Place, Fetched, Emptied
<1>4. Fitting'
  BY <1>0 DEF Fitting, Fits, Pending, NoRules, LastOf
<1> QED
  BY <1>1, <1>2, <1>3, <1>4 DEF LoaderBooks

(* A source is read: its version is one the source has had.                *)
LEMMA ReadBooks ==
  ASSUME LoaderBooks, NEW c \in Callers, Read(c)
  PROVE  LoaderBooks'
<1> USE DEF Read, Goto, source, Accepted, AfterRead
<1>0. LoaderTypeOK /\ Places /\ Indexed /\ Fitting /\ kind \in Kinds
      /\ had \subseteq Versions /\ taken \subseteq had
      /\ pc \in [Callers -> Loading \cup {"idle", "check", "look", "take", "use", "return"}]
      /\ parsed \in [Callers -> had \cup {None}] /\ pos \in [Callers -> Nat]
  BY Typed
<1>a. file \in had /\ file \in Versions /\ file # None
  BY <1>0, RulesOf DEF Places, Place
<1>1. LoaderTypeOK'
  BY <1>0, <1>a, RulesOf DEF LoaderTypeOK, Places, Place, Operations, Loading, Fetched, Emptied
<1>2. Places'
  BY <1>0, <1>a DEF LoaderTypeOK, Places, Place, Operations, Loading, Fetched, Emptied, Kinds
<1>3. Indexed'
  <2>1. \A k \in DOMAIN file.rules : ~ (k < 1)
    BY <1>a, RulesOf
  <2> QED BY <1>0, <2>1 DEF Indexed, Has, Kinds
<1>4. Fitting'
  <2>1. ASSUME NEW v \in Versions, NEW k \in DOMAIN v.rules, NEW d \in Callers,
               parsed[d] = v, Pending(d, k)
        PROVE  parsed'[d] = v /\ Pending(d, k)'
    <3>1. d # c
      BY <2>1 DEF Pending
    <3> QED BY <1>0, <2>1, <3>1 DEF Pending
  <2>2. \A k \in DOMAIN file.rules : Pending(c, k)' /\ parsed'[c] = file
    BY <1>0, <1>a, RulesOf DEF Pending, Kinds
  <2>3. CASE kind = "json" /\ file.rules = <<>>
    BY <1>0, <2>1, <2>3 DEF Fitting, Fits, NoRules, LastOf
  <2>4. CASE ~ (kind = "json" /\ file.rules = <<>>)
    <3>1. taken' = taken \cup {file}
      BY <2>4
    <3>2. ASSUME NEW v \in Versions, taken' = {v} PROVE Fits(v)'
      <4>1. v = file /\ (taken = {} \/ taken = {file})
        BY <3>1, <3>2
      <4>2. CASE taken = {}
        BY <1>0, <2>2, <4>1, <4>2 DEF Fitting, Fits, NoRules
      <4>3. CASE taken = {file}
        BY <1>0, <2>2, <4>1, <4>3 DEF Fitting, Fits, NoRules
      <4> QED BY <4>1, <4>2, <4>3
    <3> QED BY <3>1, <3>2 DEF Fitting
  <2> QED BY <2>3, <2>4
<1> QED
  BY <1>1, <1>2, <1>3, <1>4 DEF LoaderBooks

(* One turn of the loop that fills the index.                              *)
LEMMA FillBooks ==
  ASSUME LoaderBooks, NEW c \in Callers, Fill(c)
  PROVE  LoaderBooks'
<1> USE DEF Fill, source
<1>0. LoaderTypeOK /\ Places /\ Indexed /\ Fitting /\ kind \in Kinds
      /\ had \subseteq Versions /\ taken \subseteq had
      /\ pc \in [Callers -> Loading \cup {"idle", "check", "look", "take", "use", "return"}]
      /\ parsed \in [Callers -> had \cup {None}] /\ pos \in [Callers -> Nat]
  BY Typed
<1>a. PICK n : n = pos[c]
  OBVIOUS
<1>b. PICK rule : rule = parsed[c].rules[n]
  OBVIOUS
<1>c. /\ parsed[c] \in had /\ parsed[c] \in Versions /\ pc[c] = "fill"
      /\ n \in Nat /\ n \in DOMAIN parsed[c].rules
      /\ rule \in Rules /\ rule.id \in Ids /\ rule # None
      /\ index' = [index EXCEPT ![rule.id] = rule] /\ index \in [Ids -> Rules \cup {None}]
      /\ pos' = [pos EXCEPT ![c] = n + 1] /\ pos' \in [Callers -> Nat]
  <2>1. parsed[c] \in had /\ parsed[c] \in Versions /\ n \in 1 .. Len(parsed[c].rules)
    BY <1>0, <1>a, RulesOf DEF Places, Place, Fetched, LoaderTypeOK
  <2> QED BY <1>0, <1>a, <1>b, <2>1, RulesOf DEF LoaderTypeOK
<1>1. LoaderTypeOK'
  <2>1. index' \in [Ids -> Rules \cup {None}]
    BY <1>c
  <2>2. n + 1 \in 1 .. Len(parsed[c].rules) + 1
    BY <1>0, <1>c, RulesOf
  <2> QED BY <1>0, <1>c, <2>1, <2>2 DEF LoaderTypeOK, Operations
<1>2. Places'
  BY <1>0, <1>c DEF LoaderTypeOK, Places, Place, Operations, Fetched, Emptied
<1>3. Indexed'
  <2> SUFFICES ASSUME kind = "json" PROVE Indexed'
    BY DEF Indexed
  <2>1. \A v \in Versions : \A k \in DOMAIN v.rules : Has(v, k) => Has(v, k)'
    BY <1>c, RulesOf DEF Has
  <2>2. ASSUME cached # None, NEW k \in DOMAIN cached.rules PROVE Has(cached, k)'
    <3>1. cached \in Versions /\ Has(cached, k) /\ cached' = cached
      BY <1>0, <2>2 DEF LoaderTypeOK, Indexed
    <3> QED BY <2>1, <2>2, <3>1 DEF Has
  <2>3. ASSUME NEW d \in Callers, pc'[d] = "store", NEW k \in DOMAIN parsed[d].rules
        PROVE  Has(parsed[d], k)'
    <3>1. parsed[d] \in Versions /\ Has(parsed[d], k)
      BY <1>0, <2>3 DEF Indexed, Places, Place, Fetched
    <3> QED BY <2>1, <2>3, <3>1 DEF Has
  <2>4. ASSUME NEW d \in Callers, pc'[d] = "fill", NEW k \in DOMAIN parsed[d].rules,
               k < pos'[d]
        PROVE  Has(parsed[d], k)'
    <3>1. parsed[d] \in Versions /\ k \in Nat
      BY <1>0, <2>4, RulesOf DEF Places, Place, Fetched
    <3>2. k < pos[d] \/ (d = c /\ k = n)
      BY <1>0, <1>a, <1>c, <2>4, <3>1
    <3>3. CASE k < pos[d]
      <4>1. Has(parsed[d], k)
        BY <1>0, <2>4, <3>3 DEF Indexed
      <4> QED BY <2>1, <2>4, <3>1, <4>1 DEF Has
    <3>4. CASE d = c /\ k = n
      BY <1>b, <1>c, <3>4 DEF Has
    <3> QED BY <3>2, <3>3, <3>4
  <2> QED BY <2>2, <2>3, <2>4 DEF Indexed
<1>4. Fitting'
  <2>1. parsed[c] \in taken
    <3>1. parsed[c].rules # <<>>
      BY <1>c
    <3> QED BY <1>0, <1>c, <3>1 DEF Places, Place, Fetched
  <2>2. ASSUME NEW v \in Versions, taken' = {v} PROVE Fits(v)'
    <3>1. v = parsed[c] /\ Fits(v)
      BY <1>0, <2>1, <2>2 DEF Fitting
    <3>2. ASSUME NEW i \in Ids, \A k \in DOMAIN v.rules : v.rules[k].id # i
          PROVE  index'[i] = None
      BY <1>b, <1>c, <3>1, <3>2 DEF Fits
    <3>3. ASSUME NEW k \in DOMAIN v.rules, LastOf(v, k)
          PROVE  \/ index'[v.rules[k].id] = v.rules[k]
                 \/ \E d \in Callers : parsed'[d] = v /\ Pending(d, k)'
      <4>1. k \in Nat
        BY RulesOf
      <4>2. n < k => Pending(c, k)'
        BY <1>c, <4>1 DEF Pending
      <4>3. CASE v.rules[k].id = rule.id
        <5>1. n <= k
          BY <1>b, <1>c, <3>1, <3>3, <4>3 DEF LastOf
        <5>2. CASE n = k
          BY <1>b, <1>c, <3>1, <5>2
        <5>3. CASE n # k
          BY <1>c, <3>1, <4>1, <4>2, <5>1, <5>3
        <5> QED BY <5>2, <5>3
      <4>4. CASE v.rules[k].id # rule.id
        <5>1. index'[v.rules[k].id] = index[v.rules[k].id]
          BY <1>c, <4>4, RulesOf
        <5>2. CASE index[v.rules[k].id] = v.rules[k]
          BY <5>1, <5>2
        <5>3. ASSUME NEW d \in Callers, parsed[d] = v, Pending(d, k)
              PROVE  parsed'[d] = v /\ Pending(d, k)'
          <6>1. CASE d = c
            <7>1. n # k
              BY <1>b, <3>1, <4>4
            <7>2. n <= k
              BY <1>a, <1>c, <5>3, <6>1 DEF Pending
            <7> QED BY <1>c, <4>1, <4>2, <5>3, <6>1, <7>1, <7>2
          <6>2. CASE d # c
            BY <1>0, <1>c, <5>3, <6>2 DEF Pending
          <6> QED BY <6>1, <6>2
        <5> QED BY <3>1, <3>3, <5>2, <5>3 DEF Fits
      <4> QED BY <4>3, <4>4
    <3> QED BY <3>2, <3>3 DEF Fits, LastOf
  <2> QED BY <2>1, <2>2 DEF Fitting
<1> QED
  BY <1>1, <1>2, <1>3, <1>4 DEF LoaderBooks

(* The process is ended by the runtime and starts with an empty loader.    *)
LEMMA CrashBooks ==
  ASSUME LoaderBooks, Crash
  PROVE  LoaderBooks'
<1> USE DEF Crash, Fresh
<1>0. LoaderTypeOK /\ Places
  BY Typed
<1>1. LoaderTypeOK'
  BY <1>0 DEF LoaderTypeOK, Places, Place, NoRules, Loading
<1>2. Places'
  BY DEF Places, Place, Fetched, Emptied
<1>3. Indexed'
  BY DEF Indexed
<1>4. Fitting'
  BY DEF Fitting
<1> QED
  BY <1>1, <1>2, <1>3, <1>4 DEF LoaderBooks

(* Every step of the loaders keeps their books.                            *)
LEMMA LoaderStepBooks ==
  ASSUME LoaderBooks, [LoaderNext]_loaderVars
  PROVE  LoaderBooks'
<1>1. CASE UNCHANGED loaderVars
  <2> USE <1>1 DEF loaderVars, source, cache, locals
  <2>1. LoaderTypeOK'
    BY DEF LoaderBooks, LoaderTypeOK, Operations
  <2>2. Places'
    BY DEF LoaderBooks, Places, Place, Operations, Emptied
  <2>3. Indexed'
    BY DEF LoaderBooks, Indexed, Has
  <2>4. Fitting'
    BY DEF LoaderBooks, Fitting, Fits, Pending, LastOf, NoRules
  <2> QED BY <2>1, <2>2, <2>3, <2>4 DEF LoaderBooks
<1>2. CASE \E v \in Versions : Change(v)
  BY <1>2, ChangeBooks
<1>3. CASE \E c \in Callers : \E o \in Operations : Call(c, o)
  BY <1>3, CallBooks
<1>4. ASSUME NEW c \in Callers, CallerStep(c) PROVE LoaderBooks'
  BY <1>4, CheckBooks, LookBooks, TakeBooks, ReadBooks, ReadFailsBooks, StoreBooks,
     MakeBooks, FillBooks, FilledBooks, HandOverBooks, ListBooks, LookUpBooks DEF CallerStep
<1>5. CASE \E c \in Callers : Return(c)
  BY <1>5, ReturnBooks
<1>6. CASE Crash
  BY <1>6, CrashBooks
<1> QED
  BY <1>1, <1>2, <1>3, <1>4, <1>5, <1>6 DEF LoaderNext
-----------------------------------------------------------------------------
Listed(c) == pc[c] = "return" /\ op[c].call \in {"all", "table"} /\ answer[c] # Error

(* The answer of c is what v says.                                         *)
Says(c, v) ==
  /\ \E f \in [DOMAIN answer[c] -> DOMAIN v.rules] :
       /\ \A k, l \in DOMAIN answer[c] : k < l => f[k] < f[l]
       /\ \A k \in DOMAIN answer[c] : answer[c][k] = v.rules[f[k]]
  /\ \A k \in DOMAIN v.rules :
       v.rules[k] \in {answer[c][l] : l \in DOMAIN answer[c]}
         <=> /\ op[c].call = "table" => v.rules[k].table = op[c].table
             /\ kind = "bundle" => v.rules[k].active

(* ListsAreVersions, caller by caller.                                     *)
LEMMA SaysLists ==
  ListsAreVersions <=> \A c \in Callers : Listed(c) => \E v \in had : Says(c, v)
BY DEF ListsAreVersions, Listed, Says

(* A list is made from one version the source has had.                     *)
LEMMA ListSays ==
  ASSUME LoaderBooks, NEW c \in Callers, List(c)
  PROVE  \E v \in had' : Says(c, v)'
<1>0. LoaderTypeOK /\ Places /\ had \subseteq Versions /\ pc[c] = "use"
      /\ answer = [d \in Callers |-> answer[d]]
  BY Typed DEF List
<1>1. PICK o : o = op[c]
  OBVIOUS
<1>2. PICK s : s = Listing(Current(c), o)
  OBVIOUS
<1>3. answer'[c] = s /\ op'[c] = o /\ kind' = kind /\ had' = had
  BY <1>0, <1>1, <1>2 DEF List, Reply, source, locals
<1>4. PICK v \in had : v.rules = Current(c).rules
  <2>1. PICK rules :
          rules = IF kind = "json" /\ op[c].call = "table" THEN cached ELSE parsed[c]
    OBVIOUS
  <2>2. Current(c) = IF rules = None THEN [rules |-> <<>>] ELSE rules
    BY <2>1 DEF Current
  <2>3. rules \in had \/ (rules = None /\ Emptied)
    <3>1. cached \in had \/ cached = None
      BY <1>0 DEF LoaderTypeOK
    <3>2. parsed[c] \in had \/ parsed[c] = None
      BY <1>0 DEF LoaderTypeOK
    <3>3. CASE kind = "json" /\ op[c].call = "table"
      BY <1>0, <2>1, <3>1, <3>3 DEF Places, Place
    <3>4. CASE ~ (kind = "json" /\ op[c].call = "table")
      <4>1. parsed[c] \notin had => Emptied
        BY <1>0, <3>4 DEF Places, Place, List
      <4> QED BY <2>1, <3>2, <3>4, <4>1
    <3> QED BY <3>3, <3>4
  <2>4. CASE rules \in had
    BY <1>0, <2>2, <2>4, RulesOf
  <2>5. CASE rules = None /\ Emptied
    BY <2>2, <2>5 DEF Emptied
  <2> QED BY <2>3, <2>4, <2>5
<1>5. v.rules \in Seq(RuleSet) /\ DOMAIN v.rules = 1 .. Len(v.rules)
  BY <1>0, RulesOf
<1>6. Lists(s, v.rules, o, Len(v.rules))
  BY <1>2, <1>4, <1>5, ListingLists
<1>7. \E f \in [DOMAIN s -> DOMAIN v.rules] :
        /\ \A k, l \in DOMAIN s : k < l => f[k] < f[l]
        /\ \A k \in DOMAIN s : s[k] = v.rules[f[k]]
  BY <1>5, <1>6 DEF Lists
<1>8. \A k \in DOMAIN v.rules :
        v.rules[k] \in {s[l] : l \in DOMAIN s}
          <=> /\ o.call = "table" => v.rules[k].table = o.table
              /\ kind = "bundle" => v.rules[k].active
  BY <1>5, <1>6 DEF Lists, Asked, Surfaced
<1>9. Says(c, v)'
  BY <1>3, <1>7, <1>8 DEF Says
<1> QED
  BY <1>3, <1>9

(* The answer c has now is the one it had before.                          *)
Standing(c) ==
  /\ Listed(c) /\ answer'[c] = answer[c] /\ op'[c] = op[c] /\ kind' = kind
  /\ had \subseteq had'

(* A list that was given stays what it is, and its version has been had.   *)
LEMMA ListStays ==
  ASSUME LoaderBooks, [LoaderNext]_loaderVars, NEW c \in Callers, Listed(c)',
         ~ List(c)
  PROVE  Standing(c)
<1>0. LoaderTypeOK /\ answer = [d \in Callers |-> answer[d]]
      /\ pc \in [Callers -> Loading \cup {"idle", "check", "look", "take", "use", "return"}]
      /\ op \in [Callers -> Operations \cup {None}]
  BY Typed
<1> USE DEF Standing, Listed, source, cache, locals, Goto, Reply
<1>1. CASE UNCHANGED loaderVars
  BY <1>1 DEF loaderVars
<1>2. ASSUME NEW v \in Versions, Change(v) PROVE Standing(c)
  BY <1>2 DEF Change
<1>3. ASSUME NEW d \in Callers, NEW o \in Operations, Call(d, o) PROVE Standing(c)
  BY <1>0, <1>3 DEF Call
<1>4. ASSUME NEW d \in Callers, CallerStep(d) PROVE Standing(c)
  BY <1>0, <1>4 DEF CallerStep, Check, Look, Take, Read, ReadFails, Store, Make, Fill, Filled,
                    HandOver, List, LookUp, Loading, AfterRead
<1>5. ASSUME NEW d \in Callers, Return(d) PROVE Standing(c)
  BY <1>0, <1>5 DEF Return
<1>6. CASE Crash
  BY <1>6 DEF Crash, Fresh
<1> QED
  BY <1>1, <1>2, <1>3, <1>4, <1>5, <1>6 DEF LoaderNext

(* No step of the loaders makes a list that is not a version's.            *)
LEMMA ListsStep ==
  ASSUME LoaderBooks, ListsAreVersions, [LoaderNext]_loaderVars
  PROVE  ListsAreVersions'
<1>1. ASSUME NEW c \in Callers, Listed(c)' PROVE \E v \in had' : Says(c, v)'
  <2>1. CASE List(c)
    BY <2>1, ListSays
  <2>2. CASE ~ List(c)
    <3>1. Standing(c)
      BY <1>1, <2>2, ListStays
    <3>2. PICK v \in had : Says(c, v)
      BY <3>1, SaysLists DEF Standing
    <3>3. v \in had' /\ Says(c, v)'
      BY <3>1, <3>2 DEF Standing, Says
    <3> QED BY <3>3
  <2> QED BY <2>1, <2>2
<1>2. ListsAreVersions' <=> \A c \in Callers : Listed(c)' => \E v \in had' : Says(c, v)'
  BY DEF ListsAreVersions, Listed, Says
<1> QED
  BY <1>1, <1>2

(* The last rule of an ID.                                                 *)
LEMMA LastExists ==
  ASSUME NEW v \in Versions, NEW i, NEW j \in DOMAIN v.rules, v.rules[j].id = i
  PROVE  \E k \in DOMAIN v.rules : v.rules[k].id = i /\ LastOf(v, k)
<1> DEFINE n == Len(v.rules)
           at == {k \in DOMAIN v.rules : v.rules[k].id = i}
           N == {m \in Nat : \E k \in at : m = n - k}
<1>1. n \in Nat /\ DOMAIN v.rules = 1 .. n
  BY RulesOf
<1>2. n - j \in N
  BY <1>1
<1>3. PICK m \in N : \A l \in N : m <= l
  BY <1>2, LeastOf
<1>4. PICK k \in at : m = n - k
  BY <1>3
<1>5. ASSUME NEW l \in DOMAIN v.rules, v.rules[l].id = i PROVE l <= k
  <2>1. n - l \in Nat /\ k \in Nat /\ l \in Nat
    BY <1>1, <1>4, <1>5
  <2>2. n - l \in N
    BY <1>5, <2>1
  <2>3. n - k <= n - l
    BY <1>3, <1>4, <2>2
  <2> HIDE DEF n
  <2> QED BY <1>1, <2>1, <2>3, SMT
<1> QED
  BY <1>4, <1>5 DEF LastOf

(* What the books say of the index is what callers rely on.                *)
LEMMA IndexFound == LoaderBooks => ListedIsFound
<1> SUFFICES ASSUME LoaderBooks, cached # None PROVE ListedIsFound
  BY DEF ListedIsFound
<1>0. LoaderTypeOK /\ Indexed /\ Fitting /\ index \in [Ids -> Rules \cup {None}]
      /\ cached \in Versions /\ taken \subseteq had
  BY Typed DEF LoaderTypeOK
<1>1. kind = "json" => \A k \in DOMAIN cached.rules : index[cached.rules[k].id] # None
  BY <1>0 DEF Indexed, Has
<1>2. ASSUME ~ Busy, taken = {cached} PROVE index = IndexOf(cached)
  <2>1. Fits(cached)
    BY <1>0, <1>2 DEF Fitting
  <2>2. \A c \in Callers : \A k : ~ Pending(c, k)
    BY <1>2 DEF Busy, Loading, Pending
  <2>3. ASSUME NEW i \in Ids PROVE index[i] = IndexOf(cached)[i]
    <3> DEFINE at == {k \in DOMAIN cached.rules : cached.rules[k].id = i}
    <3>1. IndexOf(cached)[i] =
            IF at = {} THEN None
            ELSE cached.rules[CHOOSE k \in at : \A l \in at : l <= k]
      BY DEF IndexOf
    <3>2. CASE at = {}
      BY <2>1, <3>1, <3>2 DEF Fits
    <3>3. CASE at # {}
      <4>1. \E k \in at : \A l \in at : l <= k
        BY <1>0, <3>3, LastExists DEF LastOf
      <4>2. PICK k \in at : k = CHOOSE j \in at : \A l \in at : l <= j
        BY <4>1
      <4>3. \A l \in at : l <= k
        BY <4>1, <4>2
      <4>4. index[i] = cached.rules[k]
        BY <2>1, <2>2, <4>3 DEF Fits, LastOf
      <4> QED BY <3>1, <3>3, <4>2, <4>4
    <3> QED BY <3>2, <3>3
  <2>4. IndexOf(cached) = [i \in Ids |-> IndexOf(cached)[i]]
    BY DEF IndexOf
  <2> QED BY <1>0, <2>3, <2>4
<1> QED
  BY <1>1, <1>2 DEF ListedIsFound

(* A loader that has its version and is not loading stays as it is.        *)
LEMMA KeptStep ==
  ASSUME LoaderBooks, LoaderNext, cached # None, ~ Busy
  PROVE  (cached' = cached /\ index' = index /\ ~ Busy') \/ Crash
<1>0. pc \in [Callers -> Loading \cup {"idle", "check", "look", "take", "use", "return"}]
      /\ \A c \in Callers : pc[c] \notin Loading
  BY Typed DEF Busy
<1> USE DEF Busy, source, cache, locals, Goto, Reply
<1>1. ASSUME NEW v \in Versions, Change(v) PROVE cached' = cached /\ index' = index /\ ~ Busy'
  BY <1>0, <1>1 DEF Change
<1>2. ASSUME NEW c \in Callers, NEW o \in Operations, Call(c, o)
      PROVE  cached' = cached /\ index' = index /\ ~ Busy'
  BY <1>0, <1>2 DEF Call, Loading
<1>3. ASSUME NEW c \in Callers, CallerStep(c)
      PROVE  cached' = cached /\ index' = index /\ ~ Busy'
  <2>1. Check(c) \/ Look(c) \/ Take(c) \/ HandOver(c) \/ List(c) \/ LookUp(c)
    BY <1>0, <1>3 DEF CallerStep, Read, ReadFails, Store, Make, Fill, Filled, Loading
  <2> QED BY <1>0, <2>1 DEF Check, Look, Take, Hit, HandOver, List, LookUp, Loading
<1>4. ASSUME NEW c \in Callers, Return(c)
      PROVE  cached' = cached /\ index' = index /\ ~ Busy'
  BY <1>0, <1>4 DEF Return, Loading
<1> QED
  BY <1>1, <1>2, <1>3, <1>4 DEF LoaderNext
-----------------------------------------------------------------------------
(* What CheckRequires reports when every table has been looked at.         *)
Findings ==
  [tables |-> {t \in Mentioned(req) : ~ Exists(t)},
   columns |-> MissingColumns,
   types |-> TypeMismatches,
   relations |-> req.relations \ available]

(* Every table is known by a shape it had since the check began.           *)
Seen ==
  /\ stage = "off" => tableCols = NoTables /\ report = NoReport
  /\ stage \in {"introspect", "done"} =>
       \A t \in SchemaTables :
         /\ schema[t] \in shapes[t]
         /\ t \in Mentioned(req) \ tablesToCheck => tableCols[t] \in shapes[t]
  /\ stage = "done" => tablesToCheck = {} /\ report = Findings

(* Before the check nothing has been seen.                                 *)
LEMMA InitCheck == CheckInit => CheckTypeOK /\ Seen
<1> SUFFICES ASSUME CheckInit PROVE CheckTypeOK /\ Seen
  OBVIOUS
<1>1. CheckTypeOK
  BY SchemaAssumption DEF CheckInit, CheckTypeOK, NoRequires, NoReport, NoTables, NoShape
<1>2. Seen
  BY DEF CheckInit, Seen
<1> QED
  BY <1>1, <1>2

(* The requirements mention tables of the schema.                          *)
LEMMA MentionedTables ==
  ASSUME CheckTypeOK
  PROVE  Mentioned(req) \subseteq SchemaTables
BY DEF CheckTypeOK, ColumnSpecs, Mentioned, WellFormed

(* The check begins with the tables as they are.                           *)
LEMMA BeginSees ==
  ASSUME CheckTypeOK, Seen, NEW r \in RequiresRecords, NEW rs \in SUBSET Relations,
         NEW found \in Schemas, Begin(r, rs, found)
  PROVE  CheckTypeOK' /\ Seen'
<1>1. /\ r.tables \subseteq SchemaTables /\ r.columns \subseteq ColumnSpecs
      /\ r.relations \subseteq Relations /\ found \in [SchemaTables -> Shapes \cup {NoShape}]
      /\ Mentioned(r) \subseteq SchemaTables
  <2>1. /\ r.tables \subseteq SchemaTables /\ r.columns \subseteq ColumnSpecs
        /\ r.relations \subseteq Relations
    BY DEF RequiresRecords
  <2> QED BY <2>1, SchemasAssumption DEF Mentioned, WellFormed, ColumnSpecs
<1>2. CheckTypeOK'
  BY <1>1 DEF Begin, CheckTypeOK
<1>3. tableCols = NoTables /\ report = NoReport /\ Mentioned(req)' = Mentioned(r)
  BY DEF Begin, Seen, Mentioned, WellFormed
<1>4. ASSUME NEW t \in SchemaTables
      PROVE  /\ schema'[t] \in shapes'[t]
             /\ t \notin Mentioned(r) \ tablesToCheck'
  BY <1>1 DEF Begin
<1>5. ASSUME IsEmpty(r) PROVE tablesToCheck' = {} /\ report' = Findings'
  <2>1. Mentioned(r) = {} /\ r.columns = {} /\ r.relations = {}
    BY <1>5 DEF IsEmpty, Mentioned
  <2>2. MissingColumns' = {} /\ TypeMismatches' = {}
    BY <2>1 DEF Begin, MissingColumns, TypeMismatches
  <2> QED BY <1>3, <2>1, <2>2 DEF Begin, Findings, NoReport
<1>6. stage' = "done" => IsEmpty(r)
  BY DEF Begin
<1>7. stage' # "off"
  BY DEF Begin
<1>8. Seen'
  BY <1>3, <1>4, <1>5, <1>6, <1>7 DEF Seen
<1> QED
  BY <1>2, <1>8

(* It looks at one table at a time, and tables change.                     *)
LEMMA CheckStepSees ==
  ASSUME CheckTypeOK, Seen, CheckStep
  PROVE  CheckTypeOK' /\ Seen'
<1>0. NoShape \in Shapes \cup {NoShape} /\ Mentioned(req) \subseteq SchemaTables
      /\ (req' = req => Mentioned(req)' = Mentioned(req))
  BY MentionedTables DEF Mentioned, WellFormed
<1>1. ASSUME NEW t \in SchemaTables, NEW shape \in Shapes \cup {NoShape}, Migrate(t, shape)
      PROVE  CheckTypeOK' /\ Seen'
  <2>1. CheckTypeOK'
    BY <1>1, SchemaAssumption DEF Migrate, CheckTypeOK
  <2>2. Seen'
    BY <1>0, <1>1 DEF Migrate, CheckTypeOK, Seen
  <2> QED BY <2>1, <2>2
<1>2. ASSUME NEW t \in SchemaTables, Introspect(t) PROVE CheckTypeOK' /\ Seen'
  <2>1. CheckTypeOK'
    BY <1>2 DEF Introspect, CheckTypeOK
  <2>2. Seen'
    BY <1>0, <1>2 DEF Introspect, CheckTypeOK, Seen
  <2> QED BY <2>1, <2>2
<1>3. CASE IntrospectFails
  BY <1>3 DEF IntrospectFails, CheckTypeOK, Seen
<1>4. CASE Conclude
  <2>1. report' = Findings /\ Findings' = Findings
    BY <1>4 DEF Conclude, Findings, Mentioned, WellFormed, Exists, MissingColumns,
                TypeMismatches, ColumnsSeen
  <2>2. /\ Findings.tables \subseteq SchemaTables
        /\ Findings.columns \cup Findings.types \subseteq ColumnSpecs
        /\ Findings.relations \subseteq Relations
    BY <1>0 DEF CheckTypeOK, Findings, MissingColumns, TypeMismatches
  <2>3. CheckTypeOK'
    BY <1>4, <2>1, <2>2 DEF Conclude, CheckTypeOK
  <2>4. Seen'
    BY <1>0, <1>4, <2>1 DEF Conclude, Seen
  <2> QED BY <2>3, <2>4
<1> QED
  BY <1>1, <1>2, <1>3, <1>4 DEF CheckStep

(* It ends, and forgets.                                                   *)
LEMMA EndCheckSees ==
  ASSUME CheckTypeOK, EndCheck
  PROVE  CheckTypeOK' /\ Seen'
<1>1. CheckTypeOK'
  BY SchemaAssumption DEF EndCheck, CheckTypeOK, NoRequires, NoReport, NoTables, NoShape
<1>2. Seen'
  BY DEF EndCheck, Seen
<1> QED
  BY <1>1, <1>2

(* A report that was made from shapes the tables had is one look at them.  *)
LEMMA OneLook ==
  ASSUME CheckTypeOK, Seen
  PROVE  ReportIsOneLook
<1> SUFFICES ASSUME stage = "done"
             PROVE  \E m \in Moments :
                      /\ HasIssues(report) <=> ~ Met(m)
                      /\ report.tables = {t \in Mentioned(req) : m[t] = NoShape}
                      /\ report.columns \cap report.types = {}
                      /\ \A s \in req.columns :
                           LET judged == WellFormed(s) => s.table \notin report.tables
                               bad == ~ WellFormed(s) \/ ~ HasColumn(m, s) \/ ~ RightType(m, s)
                           IN  s \in report.columns \cup report.types <=> judged /\ bad
  BY DEF ReportIsOneLook
<1>0. /\ Mentioned(req) \subseteq SchemaTables /\ report = Findings
      /\ \A t \in SchemaTables : schema[t] \in shapes[t]
      /\ \A t \in Mentioned(req) : tableCols[t] \in shapes[t]
  BY MentionedTables DEF Seen
<1>1. PICK m : m = [t \in SchemaTables |-> IF t \in Mentioned(req) THEN tableCols[t] ELSE schema[t]]
  OBVIOUS
<1>2. m \in Moments
  <2>1. m \in [SchemaTables -> Shapes \cup {NoShape}]
    BY <1>1 DEF CheckTypeOK
  <2>2. \A t \in SchemaTables : m[t] \in shapes[t]
    BY <1>0, <1>1
  <2> QED BY <2>1, <2>2 DEF Moments
<1>3. \A t \in Mentioned(req) : m[t] = tableCols[t]
  BY <1>0, <1>1
<1>4. /\ report.tables = {t \in Mentioned(req) : ~ Exists(t)}
      /\ report.columns = MissingColumns /\ report.types = TypeMismatches
      /\ report.relations = req.relations \ available
  BY <1>0 DEF Findings
<1>5. report.tables = {t \in Mentioned(req) : m[t] = NoShape}
  BY <1>3, <1>4 DEF Exists
<1>6. report.columns \cap report.types = {}
  BY <1>4 DEF MissingColumns, TypeMismatches
<1>7. ASSUME NEW s \in req.columns, WellFormed(s)
      PROVE  /\ s.table \in Mentioned(req) /\ s.column \in Columns
             /\ m[s.table] = tableCols[s.table]
             /\ HasColumn(m, s) => Exists(s.table)
             /\ s \in report.columns <=> Exists(s.table) /\ ~ HasColumn(m, s)
             /\ s \in report.types <=> HasColumn(m, s) /\ ~ RightType(m, s)
  <2>1. s.table \in Mentioned(req) /\ s.column \in Columns
    BY <1>7 DEF Mentioned, CheckTypeOK, ColumnSpecs
  <2>2. m[s.table] = tableCols[s.table]
    BY <1>3, <2>1
  <2>3. HasColumn(m, s) => Exists(s.table)
    BY <2>1, <2>2 DEF HasColumn, Exists, NoShape
  <2>4. s \in report.columns <=> Exists(s.table) /\ ~ HasColumn(m, s)
    BY <1>4, <1>7, <2>2 DEF MissingColumns, ColumnsSeen, HasColumn
  <2>5. s \in report.types <=> HasColumn(m, s) /\ ~ RightType(m, s)
    BY <1>4, <1>7, <2>2, <2>3 DEF TypeMismatches, ColumnsSeen, HasColumn, RightType
  <2> QED BY <2>1, <2>2, <2>3, <2>4, <2>5
<1>8. \A s \in req.columns : ~ WellFormed(s) => s \in report.columns
  BY <1>4 DEF MissingColumns
<1>9. \A s \in req.columns :
        s \in report.columns \cup report.types
          <=> /\ WellFormed(s) => s.table \notin report.tables
              /\ ~ WellFormed(s) \/ ~ HasColumn(m, s) \/ ~ RightType(m, s)
  BY <1>4, <1>7, <1>8
<1>10. ASSUME Met(m) PROVE report = NoReport
  <2>1. report.tables = {}
    <3> SUFFICES ASSUME NEW t \in report.tables PROVE FALSE
      OBVIOUS
    <3>1. t \in Mentioned(req) /\ m[t] = NoShape /\ ~ Exists(t)
      BY <1>4, <1>5
    <3>2. t \notin req.tables
      BY <1>10, <3>1 DEF Met
    <3>3. PICK s \in req.columns : WellFormed(s) /\ s.table = t
      BY <3>1, <3>2 DEF Mentioned
    <3> QED BY <1>7, <1>10, <3>1, <3>3 DEF Met
  <2>2. report.columns = {} /\ report.types = {}
    BY <1>4, <1>7, <1>10 DEF Met, MissingColumns, TypeMismatches
  <2>3. report.relations = {}
    BY <1>4, <1>10 DEF Met
  <2> QED BY <1>0, <2>1, <2>2, <2>3 DEF Findings, NoReport
<1>11. ASSUME report = NoReport PROVE Met(m)
  <2>1. report.tables = {} /\ report.columns = {} /\ report.types = {} /\ report.relations = {}
    BY <1>11 DEF NoReport
  <2>2. \A t \in req.tables : m[t] # NoShape
    BY <1>5, <2>1 DEF Mentioned
  <2>3. ASSUME NEW s \in req.columns PROVE WellFormed(s) /\ HasColumn(m, s) /\ RightType(m, s)
    BY <1>4, <1>7, <1>8, <2>1
  <2>4. req.relations \subseteq available
    BY <1>4, <2>1
  <2> QED BY <2>2, <2>3, <2>4 DEF Met
<1> QED
  BY <1>2, <1>5, <1>6, <1>9, <1>10, <1>11 DEF HasIssues
-----------------------------------------------------------------------------
IInv == LoaderBooks /\ CheckTypeOK /\ Seen

(* The two halves meet where the check gets its package.                   *)
LEMMA Step == IInv /\ [Next]_vars => IInv' /\ [LoaderNext]_loaderVars
<1> SUFFICES ASSUME IInv, [Next]_vars PROVE IInv' /\ [LoaderNext]_loaderVars
  OBVIOUS
<1>1. [LoaderNext]_loaderVars
  BY DEF Next, vars, StartCheck, Activate, LoaderNext
<1>2. LoaderBooks'
  BY <1>1, LoaderStepBooks DEF IInv
<1>3. CheckTypeOK' /\ Seen'
  <2>1. CASE UNCHANGED checkVars
    BY <2>1 DEF checkVars, IInv, CheckTypeOK, Seen, Findings, Mentioned, WellFormed, Exists,
                MissingColumns, TypeMismatches, ColumnsSeen
  <2>2. CASE CheckStep
    BY <2>2, CheckStepSees DEF IInv
  <2>3. CASE EndCheck
    BY <2>3, EndCheckSees DEF IInv
  <2>4. ASSUME NEW c \in Callers, NEW rs \in SUBSET Relations, NEW found \in Schemas,
               StartCheck(c, rs, found)
        PROVE  CheckTypeOK' /\ Seen'
    <3>1. answer[c] \in Versions
      BY <2>4, Typed DEF IInv, StartCheck, Places, Place
    <3>2. answer[c].requires \in RequiresRecords
      BY <3>1, VersionsAssumption
    <3> QED BY <2>4, <3>2, BeginSees DEF IInv, StartCheck
  <2> QED BY <2>1, <2>2, <2>3, <2>4 DEF Next, vars, Activate
<1> QED
  BY <1>1, <1>2, <1>3 DEF IInv

(* The books of loader and check hold in every state.                      *)
LEMMA Always == Spec => []IInv
<1>1. Init => IInv
  BY InitLoader, InitCheck DEF Init, IInv
<1> QED
  BY <1>1, Step, PTL DEF Spec

(* The loaders' and the check's variables hold what their types say.       *)
THEOREM TypeCorrect == Spec => []TypeOK
<1>1. IInv => TypeOK
  BY DEF IInv, LoaderBooks, TypeOK
<1> QED
  BY <1>1, Always, PTL

(* A list of rules is always one version's, whole and in order, whichever  *)
(* loads overlap and whenever the source changes.                          *)
THEOREM ListsAreOneVersions == Spec => []ListsAreVersions
<1>1. Init => ListsAreVersions
  BY DEF Init, LoaderInit, ListsAreVersions
<1>2. IInv /\ ListsAreVersions /\ [Next]_vars => ListsAreVersions'
  BY Step, ListsStep DEF IInv
<1> QED
  BY <1>1, <1>2, Always, PTL DEF Spec

(* A rule that the JSON loader lists can be looked up at any moment; the   *)
(* bundle loader's index is its package's when all loads read one version. *)
THEOREM ListedRulesAreFound == Spec => []ListedIsFound
<1>1. IInv => ListedIsFound
  BY IndexFound DEF IInv
<1> QED
  BY <1>1, Always, PTL

(* A loader that has loaded answers from the same fields until the process *)
(* ends.                                                                   *)
THEOREM LoadedForGood == Spec => KeptForGood
<1>1. IInv /\ [Next]_vars =>
        [cached # None /\ ~ Busy => \/ cached' = cached /\ index' = index /\ ~ Busy'
                                    \/ Crash]_loaderVars
  BY Step, KeptStep DEF IInv
<1> QED
  BY <1>1, Always, PTL DEF Spec, KeptForGood

(* The report of a requirements check is that of one look at each table,   *)
(* for every schema, set of requirements and number of migrations.         *)
THEOREM ReportsAreOneLook == Spec => []ReportIsOneLook
<1>1. IInv => ReportIsOneLook
  BY OneLook DEF IInv
<1> QED
  BY <1>1, Always, PTL
=============================================================================
