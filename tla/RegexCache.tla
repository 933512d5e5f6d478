----------------------------- MODULE RegexCache -----------------------------
(***************************************************************************)
(* RegexValidator.getCompiledPattern (usecase/validator/regex.go): a map   *)
(* of compiled patterns behind a sync.RWMutex, read under the read lock    *)
(* and, on a miss, looked up again and filled under the write lock.  The   *)
(* validator is registered once and shared by every goroutine that         *)
(* validates records.                                                      *)
(*                                                                         *)
(* The lock is Go's: a writer first takes the writers' mutex, from which   *)
(* moment new readers queue, and waits for the readers inside to leave;    *)
(* when it unlocks, the queued readers are let in.                         *)
(***************************************************************************)
EXTENDS FiniteSets

CONSTANTS Callers,      \* the goroutines that share the validator
          Patterns,
          Valid,        \* the patterns that compile
          None, Error

ASSUME CacheAssumption ==
  /\ Valid \subseteq Patterns
  /\ None \notin Patterns \cup Callers
  /\ None # Error
  /\ \A p \in Patterns, c \in Callers : <<p, c>> # None /\ <<p, c>> # Error

VARIABLES cache,    \* compiledPatterns
          arg, res, \* a call's pattern and answer, None outside a call
          pc,
          readers,  \* callers that hold the read lock
          queued,   \* callers waiting for a writer to let them read
          writer    \* the caller that holds the writers' mutex, or None

vars == <<cache, arg, res, pc, readers, queued, writer>>
lock == <<readers, queued, writer>>

Memo == INSTANCE PatternMemo WITH memo <- cache

TypeOK ==
  /\ cache \in [Patterns -> Memo!Objects \cup {None}]
  /\ arg \in [Callers -> Patterns \cup {None}]
  /\ res \in [Callers -> Memo!Objects \cup {None, Error}]
  /\ pc \in [Callers -> {"idle", "rlock", "queued", "read", "runlock", "lock",
                         "drain", "recheck", "compile", "unlock", "return"}]
  /\ readers \subseteq Callers /\ queued \subseteq Callers
  /\ writer \in Callers \cup {None}

Init ==
  /\ cache = [p \in Patterns |-> None]
  /\ arg = [c \in Callers |-> None] /\ res = [c \in Callers |-> None]
  /\ pc = [c \in Callers |-> "idle"]
  /\ readers = {} /\ queued = {} /\ writer = None

Goto(c, label) == pc' = [pc EXCEPT ![c] = label]

Call(c, p) ==
  /\ pc[c] = "idle"
  /\ arg' = [arg EXCEPT ![c] = p]
  /\ Goto(c, "rlock")
  /\ UNCHANGED <<cache, res, lock>>

RLock(c) ==
  /\ pc[c] = "rlock"
  /\ writer = None
  /\ readers' = readers \cup {c}
  /\ Goto(c, "read")
  /\ UNCHANGED <<cache, arg, res, queued, writer>>

(* A writer holds the lock or waits for it: the reader queues behind it.   *)
Queue(c) ==
  /\ pc[c] = "rlock"
  /\ writer # None
  /\ queued' = queued \cup {c}
  /\ Goto(c, "queued")
  /\ UNCHANGED <<cache, arg, res, readers, writer>>

(* re, exists := compiledPatterns[pattern]                                 *)
Found(c) == [res EXCEPT ![c] = cache[arg[c]]]

Read(c) ==
  /\ pc[c] = "read"
  /\ res' = Found(c)
  /\ Goto(c, "runlock")
  /\ UNCHANGED <<cache, arg, lock>>

RUnlock(c) ==
  /\ pc[c] = "runlock"
  /\ readers' = readers \ {c}
  /\ Goto(c, IF res[c] # None THEN "return" ELSE "lock")
  /\ UNCHANGED <<cache, arg, res, queued, writer>>

Lock(c) ==
  /\ pc[c] = "lock"
  /\ writer = None
  /\ writer' = c
  /\ Goto(c, "drain")
  /\ UNCHANGED <<cache, arg, res, readers, queued>>

(* Defect: the writer does not wait for the readers inside.                *)
NoDrain == TRUE

Drained == readers = {}

Enter(c) ==
  /\ pc[c] = "drain"
  /\ Drained
  /\ Goto(c, "recheck")
  /\ UNCHANGED <<cache, arg, res, lock>>

(* Defect: no second look under the write lock.                            *)
FoundNever(c) == res

(* The second look, under the write lock.                                  *)
FoundAgain(c) == Found(c)

Recheck(c) ==
  /\ pc[c] = "recheck"
  /\ res' = FoundAgain(c)
  /\ Goto(c, IF res'[c] # None THEN "unlock" ELSE "compile")
  /\ UNCHANGED <<cache, arg, lock>>

(* Defects: the cache keeps what Compile returned, error or not; an error  *)
(* path without the deferred unlock.                                       *)
CompiledOrError(c) == IF arg[c] \in Valid THEN <<arg[c], c>> ELSE Error
CacheErrors(c) == [cache EXCEPT ![arg[c]] = CompiledOrError(c)]
ReturnLocked(c) == IF arg[c] \in Valid THEN "unlock" ELSE "return"

Compiled(c) == CompiledOrError(c)
Filled(c) == IF arg[c] \in Valid THEN [cache EXCEPT ![arg[c]] = Compiled(c)] ELSE cache
AfterCompile(c) == "unlock"

Compile(c) ==
  /\ pc[c] = "compile"
  /\ cache' = Filled(c)
  /\ res' = [res EXCEPT ![c] = Compiled(c)]
  /\ Goto(c, AfterCompile(c))
  /\ UNCHANGED <<arg, lock>>

(* The deferred Unlock: the queued readers are let in.                     *)
Unlock(c) ==
  /\ pc[c] = "unlock"
  /\ writer' = None
  /\ readers' = readers \cup queued
  /\ queued' = {}
  /\ pc' = [d \in Callers |-> IF d = c THEN "return"
                              ELSE IF d \in queued THEN "read" ELSE pc[d]]
  /\ UNCHANGED <<cache, arg, res>>

Return(c) ==
  /\ pc[c] = "return"
  /\ arg' = [arg EXCEPT ![c] = None]
  /\ res' = [res EXCEPT ![c] = None]
  /\ Goto(c, "idle")
  /\ UNCHANGED <<cache, lock>>

Step(c) ==
  \/ RLock(c) \/ Queue(c) \/ Read(c) \/ RUnlock(c) \/ Enter(c)
  \/ Recheck(c) \/ Compile(c) \/ Unlock(c) \/ Return(c)

Next ==
  \E c \in Callers : (\E p \in Patterns : Call(c, p)) \/ Lock(c) \/ Step(c)

Spec == Init /\ [][Next]_vars

(* A goroutine inside a call goes on; sync.Mutex starves no waiting writer.*)
FairSpec == Spec /\ \A c \in Callers : WF_vars(Step(c)) /\ SF_vars(Lock(c))
-----------------------------------------------------------------------------
Reading == {c \in Callers : pc[c] = "read"}
Writing == {c \in Callers : pc[c] \in {"recheck", "compile"}}

(* The map is never written while anyone else reads or writes it, which    *)
(* Go's runtime would end the process for.                                 *)
MapAccessExclusive ==
  /\ \A c, d \in Writing : c = d
  /\ Writing # {} => Reading = {}

(* The lock's variables agree with where the callers are.                  *)
LockBooks ==
  /\ readers = {c \in Callers : pc[c] \in {"read", "runlock"}}
  /\ queued = {c \in Callers : pc[c] = "queued"}
  /\ \A c \in Callers :
       writer = c <=> pc[c] \in {"drain", "recheck", "compile", "unlock"}
  /\ \A c \in Callers : pc[c] \in {"recheck", "compile", "unlock"} => readers = {}

(* A call's answer and the cache agree with where the call is; what has    *)
(* been seen missing under the write lock is still missing when it is      *)
(* filled in.                                                              *)
CallBooks ==
  /\ \A c \in Callers : arg[c] = None <=> pc[c] = "idle"
  /\ \A c \in Callers :
       /\ pc[c] \in {"return", "unlock"} => res[c] # None
       /\ pc[c] \notin {"runlock", "unlock", "return"} => res[c] = None
       /\ pc[c] = "compile" => cache[arg[c]] = None
  /\ \A p \in Patterns \ Valid : cache[p] = None

(* The lock is held exactly where the code holds it, by nobody after a     *)
(* call has returned, and a pattern missed under the write lock is still   *)
(* missing when the compiled one is stored (regex.go 82-106).              *)
BooksAgree == LockBooks /\ CallBooks

(* The cache keeps the promise of PatternMemo: one object per pattern, the *)
(* same for everyone, and errors that are never remembered.                *)
Memoizes == Memo!MemoSpec

(* Every call returns, however many others come meanwhile.                 *)
CallsReturn == \A c \in Callers : (pc[c] # "idle") ~> (pc[c] = "idle")
=============================================================================
