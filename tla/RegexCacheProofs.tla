-------------------------- MODULE RegexCacheProofs --------------------------
(***************************************************************************)
(* Proofs about RegexCache, for any number of goroutines and patterns: the *)
(* map is never accessed concurrently with a write, and the cache          *)
(* implements PatternMemo.                                                 *)
(***************************************************************************)
EXTENDS RegexCache, TLAPS

USE CacheAssumption

IInv == TypeOK /\ BooksAgree

(* The books agree before the first call.                                  *)
LEMMA InitIInv == Init => IInv
BY DEF Init, IInv, TypeOK, BooksAgree, LockBooks, CallBooks

(* Every step keeps the types.                                             *)
LEMMA StepTypeOK == IInv /\ [Next]_vars => TypeOK'
<1> SUFFICES ASSUME IInv, [Next]_vars PROVE TypeOK'
  OBVIOUS
<1> USE DEF IInv, BooksAgree, LockBooks, CallBooks, TypeOK, Goto, lock, Memo!Objects
<1>1. ASSUME NEW c \in Callers, NEW p \in Patterns, Call(c, p) PROVE TypeOK'
  BY <1>1 DEF Call
<1>2. ASSUME NEW c \in Callers, RLock(c) PROVE TypeOK'
  BY <1>2 DEF RLock
<1>3. ASSUME NEW c \in Callers, Queue(c) PROVE TypeOK'
  BY <1>3 DEF Queue
<1>4. ASSUME NEW c \in Callers, Read(c) PROVE TypeOK'
  BY <1>4 DEF Read, Found
<1>5. ASSUME NEW c \in Callers, RUnlock(c) PROVE TypeOK'
  BY <1>5 DEF RUnlock
<1>6. ASSUME NEW c \in Callers, Lock(c) PROVE TypeOK'
  BY <1>6 DEF Lock
<1>7. ASSUME NEW c \in Callers, Enter(c) PROVE TypeOK'
  BY <1>7 DEF Enter, Drained
<1>8. ASSUME NEW c \in Callers, Recheck(c) PROVE TypeOK'
  BY <1>8 DEF Recheck, FoundAgain, Found
<1>9. ASSUME NEW c \in Callers, Compile(c) PROVE TypeOK'
  BY <1>9 DEF Compile, Filled, Compiled, CompiledOrError, AfterCompile
<1>10. ASSUME NEW c \in Callers, Unlock(c) PROVE TypeOK'
  BY <1>10 DEF Unlock
<1>11. ASSUME NEW c \in Callers, Return(c) PROVE TypeOK'
  BY <1>11 DEF Return
<1>12. CASE UNCHANGED vars
  BY <1>12 DEF vars
<1> QED
  BY <1>1, <1>2, <1>3, <1>4, <1>5, <1>6, <1>7, <1>8, <1>9,
      <1>10, <1>11, <1>12 DEF Next, Step

(* Every step keeps the lock's books.                                      *)
LEMMA StepLockBooks == IInv /\ [Next]_vars => LockBooks'
<1> SUFFICES ASSUME IInv, [Next]_vars PROVE LockBooks'
  OBVIOUS
<1> USE DEF IInv, BooksAgree, LockBooks, CallBooks, TypeOK, Goto, lock
<1>1. ASSUME NEW c \in Callers, NEW p \in Patterns, Call(c, p) PROVE LockBooks'
  BY <1>1 DEF Call
<1>2. ASSUME NEW c \in Callers, RLock(c) PROVE LockBooks'
  BY <1>2 DEF RLock
<1>3. ASSUME NEW c \in Callers, Queue(c) PROVE LockBooks'
  BY <1>3 DEF Queue
<1>4. ASSUME NEW c \in Callers, Read(c) PROVE LockBooks'
  BY <1>4 DEF Read, Found
<1>5. ASSUME NEW c \in Callers, RUnlock(c) PROVE LockBooks'
  BY <1>5 DEF RUnlock
<1>6. ASSUME NEW c \in Callers, Lock(c) PROVE LockBooks'
  BY <1>6 DEF Lock
<1>7. ASSUME NEW c \in Callers, Enter(c) PROVE LockBooks'
  BY <1>7 DEF Enter, Drained
<1>8. ASSUME NEW c \in Callers, Recheck(c) PROVE LockBooks'
  BY <1>8 DEF Recheck, FoundAgain, Found
<1>9. ASSUME NEW c \in Callers, Compile(c) PROVE LockBooks'
  BY <1>9 DEF Compile, Filled, Compiled, CompiledOrError, AfterCompile
<1>10. ASSUME NEW c \in Callers, Unlock(c) PROVE LockBooks'
  BY <1>10 DEF Unlock
<1>11. ASSUME NEW c \in Callers, Return(c) PROVE LockBooks'
  BY <1>11 DEF Return
<1>12. CASE UNCHANGED vars
  BY <1>12 DEF vars
<1> QED
  BY <1>1, <1>2, <1>3, <1>4, <1>5, <1>6, <1>7, <1>8, <1>9,
      <1>10, <1>11, <1>12 DEF Next, Step

(* Every step keeps the calls' books.                                      *)
LEMMA StepCallBooks == IInv /\ [Next]_vars => CallBooks'
<1> SUFFICES ASSUME IInv, [Next]_vars PROVE CallBooks'
  OBVIOUS
<1> USE DEF IInv, BooksAgree, LockBooks, CallBooks, TypeOK, Goto, lock, Memo!Objects
<1>1. ASSUME NEW c \in Callers, NEW p \in Patterns, Call(c, p) PROVE CallBooks'
  BY <1>1 DEF Call
<1>2. ASSUME NEW c \in Callers, RLock(c) PROVE CallBooks'
  BY <1>2 DEF RLock
<1>3. ASSUME NEW c \in Callers, Queue(c) PROVE CallBooks'
  BY <1>3 DEF Queue
<1>4. ASSUME NEW c \in Callers, Read(c) PROVE CallBooks'
  BY <1>4 DEF Read, Found
<1>5. ASSUME NEW c \in Callers, RUnlock(c) PROVE CallBooks'
  BY <1>5 DEF RUnlock
<1>6. ASSUME NEW c \in Callers, Lock(c) PROVE CallBooks'
  BY <1>6 DEF Lock
<1>7. ASSUME NEW c \in Callers, Enter(c) PROVE CallBooks'
  BY <1>7 DEF Enter, Drained
<1>8. ASSUME NEW c \in Callers, Recheck(c) PROVE CallBooks'
  BY <1>8 DEF Recheck, FoundAgain, Found
<1>9. ASSUME NEW c \in Callers, Compile(c) PROVE CallBooks'
  BY <1>9 DEF Compile, Filled, Compiled, CompiledOrError, AfterCompile
<1>10. ASSUME NEW c \in Callers, Unlock(c) PROVE CallBooks'
  BY <1>10 DEF Unlock
<1>11. ASSUME NEW c \in Callers, Return(c) PROVE CallBooks'
  BY <1>11 DEF Return
<1>12. CASE UNCHANGED vars
  BY <1>12 DEF vars
<1> QED
  BY <1>1, <1>2, <1>3, <1>4, <1>5, <1>6, <1>7, <1>8, <1>9,
      <1>10, <1>11, <1>12 DEF Next, Step

(* The invariant is inductive.                                             *)
LEMMA StepIInv == IInv /\ [Next]_vars => IInv'
BY StepTypeOK, StepLockBooks, StepCallBooks DEF IInv, BooksAgree

(* Type correctness.                                                       *)
THEOREM TypeCorrect == Spec => []TypeOK
<1>1. IInv => TypeOK
  BY DEF IInv
<1> QED
  BY <1>1, InitIInv, StepIInv, PTL DEF Spec

(* The map of compiled patterns is never written while another goroutine   *)
(* reads or writes it (regex.go 80-108).                                   *)
THEOREM NoConcurrentMapAccess == Spec => []MapAccessExclusive
<1>1. IInv => MapAccessExclusive
  <2> SUFFICES ASSUME IInv PROVE MapAccessExclusive
    OBVIOUS
  <2>1. ASSUME NEW c \in Writing, NEW d \in Writing PROVE c = d
    BY <2>1 DEF IInv, BooksAgree, LockBooks, TypeOK, Writing
  <2>2. ASSUME NEW c \in Writing PROVE Reading = {}
    BY <2>2 DEF IInv, BooksAgree, LockBooks, Writing, Reading
  <2> QED
    BY <2>1, <2>2 DEF MapAccessExclusive
<1> QED
  BY <1>1, InitIInv, StepIInv, PTL DEF Spec

(* The cache implements PatternMemo: a call is answered when it finds its  *)
(* pattern in the map or when it fills it in.                              *)
THEOREM CacheMemoizes == Spec => Memoizes
<1>1. Init => Memo!MemoInit
  BY DEF Init, Memo!MemoInit
<1>2. IInv /\ [Next]_vars => [Memo!MemoNext]_Memo!memoVars
  <2> SUFFICES ASSUME IInv, [Next]_vars
               PROVE  [Memo!MemoNext]_Memo!memoVars
    OBVIOUS
  <2> USE DEF IInv, BooksAgree, CallBooks, TypeOK, lock, Memo!memoVars
  <2>1. ASSUME NEW c \in Callers, NEW p \in Patterns, Call(c, p)
        PROVE  Memo!Invoke(c, p)
    BY <2>1 DEF Call, Memo!Invoke
  <2>2. ASSUME NEW c \in Callers, Read(c)
        PROVE  Memo!Answer(c) \/ UNCHANGED Memo!memoVars
    BY <2>2 DEF Read, Found, Memo!Answer
  <2>3. ASSUME NEW c \in Callers, Recheck(c)
        PROVE  Memo!Answer(c) \/ UNCHANGED Memo!memoVars
    BY <2>3 DEF Recheck, FoundAgain, Found, Memo!Answer
  <2>4. ASSUME NEW c \in Callers, Compile(c)
        PROVE  Memo!Answer(c)
    BY <2>4 DEF Compile, Filled, Compiled, CompiledOrError, Memo!Answer
  <2>5. ASSUME NEW c \in Callers, Return(c)
        PROVE  Memo!Return(c)
    BY <2>5 DEF Return, Memo!Return
  <2>6. ASSUME NEW c \in Callers,
               \/ RLock(c) \/ Queue(c) \/ RUnlock(c) \/ Lock(c) \/ Enter(c) \/ Unlock(c)
        PROVE  UNCHANGED Memo!memoVars
    BY <2>6 DEF RLock, Queue, RUnlock, Lock, Enter, Unlock
  <2>7. CASE UNCHANGED vars
    BY <2>7 DEF vars
  <2> QED
    BY <2>1, <2>2, <2>3, <2>4, <2>5, <2>6, <2>7 DEF Next, Step, Memo!MemoNext
<1> QED
  BY <1>1, <1>2, InitIInv, StepIInv, PTL DEF Spec, Memoizes, Memo!MemoSpec
=============================================================================
