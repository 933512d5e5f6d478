---------------------------- MODULE PatternMemo ----------------------------
(***************************************************************************)
(* What RegexValidator.getCompiledPattern promises its callers: a pattern  *)
(* is compiled at most once, everyone who asks for it gets that very       *)
(* object, and a pattern that does not compile is an error every time.     *)
(* A call is answered in one step between its invocation and its return.   *)
(***************************************************************************)
CONSTANTS Callers,   \* the goroutines that share the validator
          Patterns,
          Valid,     \* the patterns that compile
          None, Error

VARIABLES memo,  \* the compiled object of a pattern, or None
          arg,   \* the pattern a caller asks for, or None
          res    \* the answer a caller has got, or None

memoVars == <<memo, arg, res>>

(* A compiled object is identified by its pattern and who compiled it.     *)
Objects == Patterns \X Callers

MemoInit ==
  /\ memo = [p \in Patterns |-> None]
  /\ arg = [c \in Callers |-> None]
  /\ res = [c \in Callers |-> None]

Invoke(c, p) ==
  /\ arg[c] = None
  /\ arg' = [arg EXCEPT ![c] = p]
  /\ UNCHANGED <<memo, res>>

Answer(c) ==
  /\ arg[c] # None /\ res[c] = None
  /\ \/ /\ memo[arg[c]] # None
        /\ res' = [res EXCEPT ![c] = memo[arg[c]]]
        /\ UNCHANGED memo
     \/ /\ memo[arg[c]] = None /\ arg[c] \in Valid
        /\ memo' = [memo EXCEPT ![arg[c]] = <<arg[c], c>>]
        /\ res' = [res EXCEPT ![c] = <<arg[c], c>>]
     \/ /\ memo[arg[c]] = None /\ arg[c] \notin Valid
        /\ res' = [res EXCEPT ![c] = Error]
        /\ UNCHANGED memo
  /\ UNCHANGED arg

Return(c) ==
  /\ res[c] # None
  /\ arg' = [arg EXCEPT ![c] = None]
  /\ res' = [res EXCEPT ![c] = None]
  /\ UNCHANGED memo

MemoNext ==
  \E c \in Callers : (\E p \in Patterns : Invoke(c, p)) \/ Answer(c) \/ Return(c)

MemoSpec == MemoInit /\ [][MemoNext]_memoVars
=============================================================================
