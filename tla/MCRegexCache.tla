---------------------------- MODULE MCRegexCache ----------------------------
(* Three goroutines, a pattern that compiles and one that does not.        *)
EXTENDS RegexCache
=============================================================================
