------------------------------ MODULE Severity ------------------------------
(***************************************************************************)
(* Enforcement and severity: how a rule's labels become a result's labels  *)
(* (domain/severity.go, domain/rule.go) and how a result's labels are read *)
(* back (domain/result.go).                                                *)
(*                                                                         *)
(* A label is the string found in the JSON or in a results row, "" when    *)
(* the field is missing; any other string the code does not know is        *)
(* "other".                                                                *)
(***************************************************************************)

Enforcements == {"hard", "soft"}
Severities == {"error", "warn", "info", "debug"}
LegacyLabels == Enforcements \cup Severities \cup {"warning", "", "other"}

(* The three label fields of a rule or of a result.                        *)
Labels == [enforcement : Enforcements \cup {"", "other"},
           severity : Severities \cup {"", "other"},
           validationType : LegacyLabels]

DefaultSeverityFor(e) == IF e = "hard" THEN "error" ELSE "warn"

(* Rule.EffectiveEnforcement                                               *)
EffectiveEnforcement(rule) ==
  CASE rule.enforcement \in Enforcements -> rule.enforcement
    [] rule.enforcement \notin Enforcements
         /\ rule.validationType \in {"hard", "error"} -> "hard"
    [] OTHER -> "soft"

(* Rule.EffectiveSeverity                                                  *)
EffectiveSeverity(rule) ==
  CASE rule.severity \in Severities -> rule.severity
    [] rule.severity \notin Severities
         /\ rule.validationType \in Severities -> rule.validationType
    [] rule.severity \notin Severities
         /\ rule.validationType = "warning" -> "warn"
    [] OTHER -> DefaultSeverityFor(EffectiveEnforcement(rule))

(* NewResult: the labels every validator stamps on its result.             *)
NewResult(rule) ==
  [enforcement |-> EffectiveEnforcement(rule),
   severity |-> EffectiveSeverity(rule),
   validationType |-> EffectiveSeverity(rule)]

(* What a validation_results row keeps of a result: the validation_type    *)
(* column only (sqlite_formatter.go 143-156).                              *)
Persisted(result) ==
  [enforcement |-> "", severity |-> "", validationType |-> result.validationType]

(* Result.effectiveSeverity                                                *)
ResultSeverity(result) ==
  CASE result.severity \in Severities -> result.severity
    [] result.severity \notin Severities
         /\ result.validationType \in Severities -> result.validationType
    [] result.severity \notin Severities
         /\ result.validationType = "hard" -> "error"
    [] OTHER -> "warn"

(* Result.IsError, of a failed result.                                     *)
IsError(result) == ResultSeverity(result) = "error"

(* Result.IsHardFailure, of a failed result: the enforcement if there is   *)
(* one, the legacy severity otherwise.                                     *)
IsHardFailure(result) ==
  IF result.enforcement \in Enforcements THEN result.enforcement = "hard"
  ELSE IsError(result)
=============================================================================
