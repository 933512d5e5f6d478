------------------------------- MODULE StartUp -------------------------------
(***************************************************************************)
(* A consumer's start-up: it loads its rules through RuleLoaders and, when *)
(* it has a schema package in hand, checks the package's requirements      *)
(* before it activates the rules (domain/requires.go 3-7).  While the      *)
(* check runs it makes no calls of the loader.                             *)
(***************************************************************************)
EXTENDS RuleLoaders, Requirements

(* A version carries the Requires block of its package.                    *)
ASSUME VersionsAssumption == \A v \in Versions : v.requires \in RequiresRecords

vars == <<loaderVars, checkVars>>

TypeOK == LoaderTypeOK /\ CheckTypeOK

Init == LoaderInit /\ CheckInit

(* The caller that got the package goes on to CheckRequires.               *)
StartCheck(c, relations, found) ==
  /\ pc[c] = "return" /\ op[c].call = "package" /\ answer[c] # Error
  /\ \A d \in Callers \ {c} : pc[d] = "idle"
  /\ Begin(answer[c].requires, relations, found)
  /\ UNCHANGED loaderVars

(* Its call of LoadPackage is over once the check is.                      *)
Activate(c) ==
  /\ pc[c] = "return"
  /\ EndCheck
  /\ Return(c)

Next ==
  \/ stage = "off" /\ LoaderNext /\ UNCHANGED checkVars
  \/ CheckStep /\ UNCHANGED loaderVars
  \/ \E c \in Callers : Activate(c)
  \/ \E c \in Callers, rs \in SUBSET Relations, found \in Schemas : StartCheck(c, rs, found)

Spec == Init /\ [][Next]_vars
=============================================================================
