----------------------------- MODULE CheckDigits -----------------------------
(***************************************************************************)
(* The algorithms of usecase/validator/check_digit.go.  An identifier is   *)
(* the sequence of its characters, prefixes and separators already         *)
(* stripped; a character is its position in the base32-Crockford alphabet  *)
(* 0..9 a..z without i, l, o, u, so that digits stand for themselves, or   *)
(* Other, which none of the algorithms takes.                              *)
(***************************************************************************)
EXTENDS Integers, Sequences

Digits == 0 .. 9
Alphabet == 0 .. 31
Other == 32
X == 29

AllDigits(s, from, to) == \A i \in from .. to : s[i] \in Digits

(* isISSNLastChar, isORCIDLastChar                                         *)
IsLastChar(c) == c \in Digits \cup {X}

(* Defect: an X counts as the digit 0.                                     *)
XIsZero(c) == IF c = X THEN 0 ELSE c

LastValue(c) == IF c = X THEN 10 ELSE c

(* total = (total + digit) * 2, over the first fifteen digits              *)
OrcidTotal(s) ==
  32768 * s[1] + 16384 * s[2] + 8192 * s[3] + 4096 * s[4] + 2048 * s[5]
  + 1024 * s[6] + 512 * s[7] + 256 * s[8] + 128 * s[9] + 64 * s[10]
  + 32 * s[11] + 16 * s[12] + 8 * s[13] + 4 * s[14] + 2 * s[15]

verifyOrcid(s) ==
  /\ Len(s) = 16 /\ AllDigits(s, 1, 15) /\ IsLastChar(s[16])
  /\ (12 - (OrcidTotal(s) % 11)) % 11 = LastValue(s[16])

IssnSum(s) ==
  8 * s[1] + 7 * s[2] + 6 * s[3] + 5 * s[4] + 4 * s[5] + 3 * s[6] + 2 * s[7]

verifyISSN(s) ==
  /\ Len(s) = 8 /\ AllDigits(s, 1, 7) /\ IsLastChar(s[8])
  /\ (11 - (IssnSum(s) % 11)) % 11 = LastValue(s[8])

Isbn10Sum(s) ==
  10 * s[1] + 9 * s[2] + 8 * s[3] + 7 * s[4] + 6 * s[5]
  + 5 * s[6] + 4 * s[7] + 3 * s[8] + 2 * s[9]

verifyISBN10(s) ==
  /\ Len(s) = 10 /\ AllDigits(s, 1, 9) /\ IsLastChar(s[10])
  /\ (Isbn10Sum(s) + LastValue(s[10])) % 11 = 0

Isbn13Sum(s) ==
  s[1] + 3 * s[2] + s[3] + 3 * s[4] + s[5] + 3 * s[6] + s[7]
  + 3 * s[8] + s[9] + 3 * s[10] + s[11] + 3 * s[12] + s[13]

verifyISBN13(s) ==
  /\ Len(s) = 13 /\ AllDigits(s, 1, 13)
  /\ Isbn13Sum(s) % 10 = 0

(* The payload as a number in base 32, crockfordValue by crockfordValue.   *)
RorValue(s) ==
  33554432 * s[2] + 1048576 * s[3] + 32768 * s[4] + 1024 * s[5] + 32 * s[6] + s[7]

(* n * 100 is an int64 in the code; % 97 first keeps TLC's integers small. *)
verifyRORID(s) ==
  /\ Len(s) = 9 /\ s[1] = 0
  /\ \A i \in 2 .. 7 : s[i] \in Alphabet
  /\ s[8] \in Digits /\ s[9] \in Digits
  /\ 10 * s[8] + s[9] = 98 - (((RorValue(s) % 97) * 100) % 97)

(* Every second digit from the right is doubled, less 9 if that is over 9. *)
Doubled(d) == IF 2 * d > 9 THEN 2 * d - 9 ELSE 2 * d

(* The k-th digit from the right, as it counts.                            *)
Weighed(s, k) ==
  LET d == s[Len(s) - k + 1] IN IF k % 2 = 0 THEN Doubled(d) ELSE d

LuhnSum(s) ==
  LET sum[k \in 0 .. Len(s)] == IF k = 0 THEN 0 ELSE sum[k - 1] + Weighed(s, k)
  IN  sum[Len(s)]

verifyLuhn(s) ==
  /\ Len(s) >= 2 /\ AllDigits(s, 1, Len(s))
  /\ LuhnSum(s) % 10 = 0

Algorithms == {"orcid", "issn", "isbn10", "isbn13", "rorid", "luhn"}

(* An identifier of the wrong form is an error of the algorithm, as is an  *)
(* algorithm of another name, and an error is a failed result of the rule, *)
(* like a wrong check digit.                                               *)
verifyCheckDigit(algorithm, s) ==
  CASE algorithm = "orcid" -> verifyOrcid(s)
    [] algorithm = "issn" -> verifyISSN(s)
    [] algorithm = "isbn10" -> verifyISBN10(s)
    [] algorithm = "isbn13" -> verifyISBN13(s)
    [] algorithm = "rorid" -> verifyRORID(s)
    [] algorithm = "luhn" -> verifyLuhn(s)
    [] OTHER -> FALSE
-----------------------------------------------------------------------------
(* The two typing errors check digits are designed for (check_digit.go 14).*)
Substitutions(s) == {[s EXCEPT ![i] = c] : i \in DOMAIN s, c \in Alphabet} \ {s}
Transpositions(s) ==
  {[s EXCEPT ![i] = s[i + 1], ![i + 1] = s[i]] : i \in 1 .. Len(s) - 1} \ {s}

(* The transpositions an algorithm cannot see: of digits 5 apart in an     *)
(* ISBN-13, whose weights differ by 2, and of 0 and 9 under Luhn.          *)
Blind(algorithm, a, b) ==
  \/ algorithm = "isbn13" /\ a - b \in {5, -5}
  \/ algorithm = "luhn" /\ {a, b} = {0, 9}
Unseen(algorithm, s) ==
  {[s EXCEPT ![i] = s[i + 1], ![i + 1] = s[i]] :
     i \in {j \in 1 .. Len(s) - 1 : Blind(algorithm, s[j], s[j + 1])}}
=============================================================================
