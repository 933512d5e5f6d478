----------------------------- MODULE RuleLoaders -----------------------------
(***************************************************************************)
(* The two rule loaders of adapter/repository: BundleLoader over a schema  *)
(* package and JSONRuleLoader over a rule file.  Each parses its source on *)
(* the first call that needs it and keeps the result in plain fields.      *)
(* Neither has a lock, and one loader serves every goroutine that          *)
(* validates records, so first calls may run together.  The source may     *)
(* change and a read may fail.                                             *)
(*                                                                         *)
(* Every access to a shared field is one step, and stores become visible   *)
(* in program order (true of the x86-64 build).  Go's runtime may end the  *)
(* process when it notices a map being read or written while it is         *)
(* written; Crash is that outcome.                                         *)
(***************************************************************************)
EXTENDS Naturals, Sequences

CONSTANTS Callers,      \* the goroutines that share a loader
          Ids,          \* rule IDs
          Tables,
          Versions,     \* what the source may hold
          None, Error, NotFound,
          MaxChanges    \* bound on the changes of the source

RuleSet == [id : Ids, table : Tables, active : BOOLEAN]

(* valid: the source parses and, for a bundle, has a name and a version.   *)
ASSUME LoaderAssumption ==
  /\ \A v \in Versions : v.valid \in BOOLEAN /\ v.rules \in Seq(RuleSet)
  /\ None \notin Versions \cup Ids \cup RuleSet /\ MaxChanges \in Nat

Kinds == {"bundle", "json"}
VARIABLES kind,             \* which loader it is
          file, changes,    \* the source
          had,              \* history: what it has held since the loader was made
          taken,            \* history: the versions the loader has filled in
          cached,           \* l.pkg, or l.rules: None when nil (when empty)
          index,            \* l.ruleByID, or l.ruleMap
          pc, op,           \* a caller's place and its call, None outside one
          parsed, pos,      \* what it parsed, and the fill loop's position
          answer

source == <<kind, file, changes, had>>
cache == <<taken, cached, index>>
locals == <<op, parsed, pos>>
loaderVars == <<source, cache, locals, pc, answer>>

(* LoadPackage is the bundle loader's alone.                               *)
Operations ==
  (IF kind = "bundle" THEN [call : {"package"}] ELSE {}) \cup
  [call : {"all"}] \cup [call : {"table"}, table : Tables] \cup [call : {"byID"}, id : Ids]

Rules == UNION {{v.rules[k] : k \in DOMAIN v.rules} : v \in Versions}
NoRules == [i \in Ids |-> None]

Loading == {"read", "store", "make", "fill"}

LoaderTypeOK ==
  /\ kind \in Kinds /\ file \in Versions /\ changes \in 0 .. MaxChanges
  /\ had \subseteq Versions /\ taken \subseteq had
  /\ cached # None => cached \in taken /\ cached.valid
  /\ index \in [Ids -> Rules \cup {None}]
  /\ pc \in [Callers -> Loading \cup {"idle", "check", "look", "take", "use", "return"}]
  /\ op \in [Callers -> Operations \cup {None}]
  /\ parsed \in [Callers -> had \cup {None}]
  /\ \A c \in Callers : /\ pos[c] \in Nat
                        /\ pc[c] = "fill" => pos[c] \in 1 .. Len(parsed[c].rules) + 1
                        /\ pc[c] # "return" => answer[c] = None

Fresh ==
  /\ had' = {file} /\ taken' = {} /\ cached' = None /\ index' = NoRules
  /\ pc' = [c \in Callers |-> "idle"] /\ op' = [c \in Callers |-> None]
  /\ parsed' = [c \in Callers |-> None] /\ pos' = [c \in Callers |-> 1]
  /\ answer' = [c \in Callers |-> None]

LoaderInit ==
  /\ kind \in Kinds /\ file \in Versions /\ changes = 0
  /\ had = {file} /\ taken = {} /\ cached = None /\ index = NoRules
  /\ pc = [c \in Callers |-> "idle"] /\ op = [c \in Callers |-> None]
  /\ parsed = [c \in Callers |-> None] /\ pos = [c \in Callers |-> 1]
  /\ answer = [c \in Callers |-> None]

Goto(c, label) == pc' = [pc EXCEPT ![c] = label]
Reply(c, a) == answer' = [answer EXCEPT ![c] = a] /\ Goto(c, "return")

(* The file is replaced while the process runs.                            *)
Change(v) ==
  /\ changes < MaxChanges /\ v # file
  /\ file' = v /\ changes' = changes + 1 /\ had' = had \cup {v}
  /\ UNCHANGED <<kind, cache, locals, pc, answer>>

Call(c, o) ==
  /\ pc[c] = "idle"
  /\ op' = [op EXCEPT ![c] = o]
  /\ Goto(c, IF kind = "json" /\ o.call # "all" THEN "check" ELSE "look")
  /\ UNCHANGED <<source, cache, parsed, pos, answer>>

(* Defect: the cached result is not looked at.                             *)
HitNever == FALSE

(* l.pkg != nil, len(l.rules) > 0                                          *)
Hit == cached # None

(* LoadRuleByID and LoadRulesForTable of the JSON loader look once before  *)
(* they call LoadRules, which looks again.                                 *)
Check(c) ==
  /\ pc[c] = "check"
  /\ Goto(c, IF Hit THEN "use" ELSE "look")
  /\ UNCHANGED <<source, cache, locals, answer>>

(* LoadPackage, and LoadRules of the JSON loader.                          *)
Look(c) ==
  /\ pc[c] = "look"
  /\ Goto(c, IF Hit THEN "take" ELSE "read")
  /\ UNCHANGED <<source, cache, locals, answer>>

(* The field is read once more to be returned: another list by now, maybe  *)
(* one without rules.                                                      *)
Take(c) ==
  /\ pc[c] = "take"
  /\ parsed' = [parsed EXCEPT ![c] = cached]
  /\ Goto(c, "use")
  /\ UNCHANGED <<source, cache, op, pos, answer>>

(* Defect: the package is cached before it is validated.                   *)
AcceptedUnseen(v) == TRUE

Accepted(v) == v.valid

(* Defect: the JSON loader, too, caches the rules before it indexes them.  *)
StoreFirst == "store"

(* A bundle is cached, then indexed; a rule list is indexed, then cached.  *)
AfterRead == IF kind = "bundle" THEN "store" ELSE "fill"

(* The source is read, parsed and validated.                               *)
Read(c) ==
  /\ pc[c] = "read"
  /\ Accepted(file)
  /\ parsed' = [parsed EXCEPT ![c] = file]
  /\ pos' = [pos EXCEPT ![c] = 1]
  /\ taken' = IF kind = "json" /\ file.rules = <<>> THEN taken ELSE taken \cup {file}
  /\ Goto(c, AfterRead)
  /\ UNCHANGED <<source, cached, index, op, answer>>

(* The read fails or the source is refused: an error, nothing is kept.     *)
ReadFails(c) ==
  /\ pc[c] = "read"
  /\ Reply(c, Error)
  /\ UNCHANGED <<source, cache, locals>>

(* l.pkg = &pkg, l.rules = rules.  An empty list counts as not loaded.     *)
Store(c) ==
  /\ pc[c] = "store"
  /\ cached' = IF kind = "json" /\ parsed[c].rules = <<>> THEN None ELSE parsed[c]
  /\ Goto(c, IF kind = "bundle" THEN "make" ELSE "use")
  /\ UNCHANGED <<source, taken, index, locals, answer>>

(* l.ruleByID = make(...): the bundle loader starts a new map; the JSON    *)
(* loader keeps the one its constructor made.                              *)
Make(c) ==
  /\ pc[c] = "make"
  /\ index' = NoRules
  /\ Goto(c, "fill")
  /\ UNCHANGED <<source, taken, cached, locals, answer>>

(* One turn of the loop: of two rules with one ID the later one stays.     *)
Fill(c) ==
  /\ pc[c] = "fill" /\ pos[c] <= Len(parsed[c].rules)
  /\ LET rule == parsed[c].rules[pos[c]]
     IN  index' = [index EXCEPT ![rule.id] = rule]
  /\ pos' = [pos EXCEPT ![c] = @ + 1]
  /\ UNCHANGED <<source, taken, cached, op, parsed, pc, answer>>

(* The loop ends.  The bundle loader reads l.pkg again to return it.       *)
Filled(c) ==
  /\ pc[c] = "fill" /\ pos[c] > Len(parsed[c].rules)
  /\ parsed' = [parsed EXCEPT ![c] = IF kind = "bundle" THEN cached ELSE @]
  /\ Goto(c, IF kind = "bundle" THEN "use" ELSE "store")
  /\ UNCHANGED <<source, cache, op, pos, answer>>

(* Defect: the JSON loader's filter, which lets inactive rules through.    *)
SurfacedAll(rule) == TRUE

(* LoadRules and LoadRulesForTable of the bundle loader leave inactive     *)
(* rules out; the JSON loader leaves that to the use cases.                *)
Surfaced(rule) == kind = "bundle" => rule.active

Asked(rule, o) == Surfaced(rule) /\ (o.call = "table" => rule.table = o.table)

(* The filter loops, which append one rule after the other.                *)
Listing(v, o) ==
  LET upTo[n \in 0 .. Len(v.rules)] ==
        IF n = 0 THEN <<>>
        ELSE IF Asked(v.rules[n], o) THEN Append(upTo[n - 1], v.rules[n])
        ELSE upTo[n - 1]
  IN  upTo[Len(v.rules)]

(* LoadRulesForTable of the JSON loader drops what LoadRules returned and  *)
(* reads l.rules once more.                                                *)
Current(c) ==
  LET rules == IF kind = "json" /\ op[c].call = "table" THEN cached ELSE parsed[c]
  IN  IF rules = None THEN [rules |-> <<>>] ELSE rules

HandOver(c) ==
  /\ pc[c] = "use" /\ op[c].call = "package"
  /\ Reply(c, parsed[c])
  /\ UNCHANGED <<source, cache, locals>>

List(c) ==
  /\ pc[c] = "use" /\ op[c].call \in {"all", "table"}
  /\ Reply(c, Listing(Current(c), op[c]))
  /\ UNCHANGED <<source, cache, locals>>

(* The map is read, whichever map it is by now.                            *)
LookUp(c) ==
  /\ pc[c] = "use" /\ op[c].call = "byID"
  /\ Reply(c, IF index[op[c].id] = None THEN NotFound ELSE index[op[c].id])
  /\ UNCHANGED <<source, cache, locals>>

Return(c) ==
  /\ pc[c] = "return"
  /\ op' = [op EXCEPT ![c] = None]
  /\ parsed' = [parsed EXCEPT ![c] = None]
  /\ pos' = [pos EXCEPT ![c] = 1]
  /\ answer' = [answer EXCEPT ![c] = None]
  /\ Goto(c, "idle")
  /\ UNCHANGED <<source, cache>>

Filling(c) == pc[c] = "fill" /\ pos[c] <= Len(parsed[c].rules)
Reading(c) == pc[c] = "use" /\ op[c].call = "byID"
MapRace == \E c, d \in Callers : c # d /\ Filling(c) /\ (Filling(d) \/ Reading(d))

(* Concurrent map access is noticed: the process ends and is started again.*)
Crash ==
  /\ MapRace
  /\ Fresh
  /\ UNCHANGED <<kind, file, changes>>

CallerStep(c) ==
  \/ Check(c) \/ Look(c) \/ Take(c) \/ Read(c) \/ ReadFails(c)
  \/ Store(c) \/ Make(c) \/ Fill(c) \/ Filled(c) \/ HandOver(c) \/ List(c) \/ LookUp(c)

LoaderNext ==
  \/ \E v \in Versions : Change(v)
  \/ \E c \in Callers : (\E o \in Operations : Call(c, o)) \/ CallerStep(c) \/ Return(c)
  \/ Crash

LoaderSpec == LoaderInit /\ [][LoaderNext]_loaderVars
-----------------------------------------------------------------------------
IndexOf(v) ==
  [i \in Ids |->
     LET at == {k \in DOMAIN v.rules : v.rules[k].id = i}
     IN  IF at = {} THEN None
         ELSE v.rules[CHOOSE k \in at : \A l \in at : l <= k]]

Busy == \E c \in Callers : pc[c] \in Loading

(* A list is what one version the source has had says, rules of the bundle *)
(* without the inactive ones: never a mixture of two, never part of one    *)
(* (bundle_loader.go 91-134, json_rule_loader.go 29-103).                  *)
ListsAreVersions ==
  \A c \in Callers :
    pc[c] = "return" /\ op[c].call \in {"all", "table"} /\ answer[c] # Error =>
      \E v \in had :
        /\ \E f \in [DOMAIN answer[c] -> DOMAIN v.rules] :
             /\ \A k, l \in DOMAIN answer[c] : k < l => f[k] < f[l]
             /\ \A k \in DOMAIN answer[c] : answer[c][k] = v.rules[f[k]]
        /\ \A k \in DOMAIN v.rules :
             v.rules[k] \in {answer[c][l] : l \in DOMAIN answer[c]}
               <=> /\ op[c].call = "table" => v.rules[k].table = op[c].table
                   /\ kind = "bundle" => v.rules[k].active

(* A rule that is listed can be looked up.  The JSON loader indexes first, *)
(* so there it holds at every moment.  The bundle loader caches first: it  *)
(* holds when no first load is under way and the loads that overlapped     *)
(* read the same version; two that read different ones can leave the list  *)
(* of one with the map of the other for good (bundle_loader.go 79-83).     *)
ListedIsFound ==
  cached # None =>
    /\ kind = "json" =>
         \A k \in DOMAIN cached.rules : index[cached.rules[k].id] # None
    /\ ~ Busy /\ taken = {cached} => index = IndexOf(cached)

(* Once a version is cached and no load is under way the loader never      *)
(* reads again and answers from it for the rest of the process             *)
(* (bundle_loader.go 24: "parsed once on the first Load call and cached"). *)
KeptForGood ==
  [][cached # None /\ ~ Busy =>
       \/ cached' = cached /\ index' = index /\ ~ Busy'
       \/ Crash]_loaderVars
=============================================================================
