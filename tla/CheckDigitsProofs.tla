-------------------------- MODULE CheckDigitsProofs --------------------------
(***************************************************************************)
(* Which typing errors the check digits report, for every identifier: the  *)
(* argument is that an error at weight w changes the sum by w times the    *)
(* difference of two characters, and that no such product is a multiple of *)
(* the modulus.  Under luhn the weight is Doubled, which keeps digits      *)
(* apart, and the sums of its loop differ by what one digit counts.        *)
(***************************************************************************)
EXTENDS CheckDigits, NaturalsInduction, WellFoundedInduction, TLAPS

Put(s, i, c) == [s EXCEPT ![i] = c]
Swap(s, i) == [s EXCEPT ![i] = s[i + 1], ![i + 1] = s[i]]

OrcidWeight ==
  <<32768, 16384, 8192, 4096, 2048, 1024, 512, 256, 128, 64, 32, 16, 8, 4, 2>>
RorWeight == <<0, 33554432, 1048576, 32768, 1024, 32, 1>>

-----------------------------------------------------------------------------
(* Arithmetic.                                                             *)

(* The complements of two remainders are equal only if the remainders are. *)
LEMMA Complement11 ==
  ASSUME NEW S \in Int, NEW R \in Int,
         NEW m \in {11, 12}, (m - (S % 11)) % 11 = (m - (R % 11)) % 11
  PROVE  S % 11 = R % 11
  <1>1. /\ S % 11 \in 0 .. 10
        /\ R % 11 \in 0 .. 10
    BY SMT
  <1>2. \A a, b \in 0 .. 10 : (m - a) % 11 = (m - b) % 11 => a = b
    BY SMT
  <1> QED BY <1>1, <1>2

(* A multiple of d by a number below 11 is no multiple of 11.              *)
LEMMA Shift11 ==
  ASSUME NEW S \in Int, NEW w \in 1 .. 10, NEW d \in -10 .. 10,
         (S + w * d) % 11 = S % 11
  PROVE  d = 0
  <1>1. w \in {1, 2, 3, 4, 5, 6, 7, 8, 9, 10}
    BY SMT
  <1> QED BY <1>1, SMT

(* Nor is a multiple by a power of two.                                    *)
LEMMA ShiftOrcid ==
  ASSUME NEW S \in Int, NEW i \in 1 .. 15, NEW d \in -10 .. 10,
         (S + OrcidWeight[i] * d) % 11 = S % 11
  PROVE  d = 0
  <1>1. OrcidWeight[i] \in {32768, 16384, 8192, 4096, 2048, 1024, 512, 256,
                            128, 64, 32, 16, 8, 4, 2}
    BY SMT DEF OrcidWeight
  <1> QED BY <1>1, SMT

(* What ROR's six payload characters weigh, and what neighbours differ by. *)
RorWeights ==
  {33554432, 1048576, 32768, 1024, 32, 1} \cup {32505856, 1015808, 31744, 992, 31}

(* Values with the same check digits agree modulo 97.                      *)
LEMMA SameCheck ==
  ASSUME NEW S \in Int, NEW R \in Int, NEW k,
         k = 98 - (((S % 97) * 100) % 97), k = 98 - (((R % 97) * 100) % 97)
  PROVE  R % 97 = S % 97
  <1>1. /\ S % 97 \in 0 .. 96
        /\ R % 97 \in 0 .. 96
    BY SMT
  <1>2. \A a, b \in 0 .. 96 : 98 - ((a * 100) % 97) = 98 - ((b * 100) % 97) => a = b
    BY SMT
  <1> QED BY <1>1, <1>2

(* No such weight times a difference of two characters is a multiple of 97.*)
LEMMA ShiftRor ==
  ASSUME NEW S \in Int, NEW w \in RorWeights, NEW d \in -31 .. 31,
         (S + w * d) % 97 = S % 97
  PROVE  d = 0
  BY SMTT(60) DEF RorWeights

(* What an error adds to a sum.                                            *)
LEMMA OrcidPut ==
  ASSUME NEW s \in [1 .. 16 -> Int], NEW i \in 1 .. 15, NEW c \in Int
  PROVE  OrcidTotal(Put(s, i, c)) = OrcidTotal(s) + OrcidWeight[i] * (c - s[i])
  <1>1. CASE i \in 1 .. 4 BY <1>1, SMTT(30) DEF OrcidTotal, OrcidWeight, Put
  <1>2. CASE i \in 5 .. 6 BY <1>2, SMTT(30) DEF OrcidTotal, OrcidWeight, Put
  <1>5. CASE i \in 7 .. 8 BY <1>5, SMTT(30) DEF OrcidTotal, OrcidWeight, Put
  <1>3. CASE i \in 9 .. 12 BY <1>3, SMTT(30) DEF OrcidTotal, OrcidWeight, Put
  <1>4. CASE i \in 13 .. 15 BY <1>4, SMTT(30) DEF OrcidTotal, OrcidWeight, Put
  <1> QED BY <1>1, <1>2, <1>3, <1>4, <1>5, SMT

(* So does an exchange, at the weight of its second position.              *)
LEMMA OrcidSwap ==
  ASSUME NEW s \in [1 .. 16 -> Int], NEW i \in 1 .. 14
  PROVE  OrcidTotal(Swap(s, i)) = OrcidTotal(s) + OrcidWeight[i + 1] * (s[i + 1] - s[i])
  BY SMTT(30) DEF OrcidTotal, OrcidWeight, Swap

(* ISSN's weights fall from 8 to 2.                                        *)
LEMMA IssnPut ==
  ASSUME NEW s \in [1 .. 8 -> Int], NEW i \in 1 .. 7, NEW c \in Int
  PROVE  IssnSum(Put(s, i, c)) = IssnSum(s) + (9 - i) * (c - s[i])
  BY SMT DEF IssnSum, Put

(* Neighbours differ by one.                                               *)
LEMMA IssnSwap ==
  ASSUME NEW s \in [1 .. 8 -> Int], NEW i \in 1 .. 6
  PROVE  IssnSum(Swap(s, i)) = IssnSum(s) + (s[i + 1] - s[i])
  BY SMT DEF IssnSum, Swap

(* ISBN-10's weights fall from 10 to 2.                                    *)
LEMMA Isbn10Put ==
  ASSUME NEW s \in [1 .. 10 -> Int], NEW i \in 1 .. 9, NEW c \in Int
  PROVE  Isbn10Sum(Put(s, i, c)) = Isbn10Sum(s) + (11 - i) * (c - s[i])
  BY SMT DEF Isbn10Sum, Put

(* Neighbours differ by one.                                               *)
LEMMA Isbn10Swap ==
  ASSUME NEW s \in [1 .. 10 -> Int], NEW i \in 1 .. 8
  PROVE  Isbn10Sum(Swap(s, i)) = Isbn10Sum(s) + (s[i + 1] - s[i])
  BY SMT DEF Isbn10Sum, Swap

(* ISBN-13's weights are 1 and 3.                                          *)
LEMMA Isbn13Put ==
  ASSUME NEW s \in [1 .. 13 -> Int], NEW i \in 1 .. 13, NEW c \in Int
  PROVE  \E w \in {1, 3} : Isbn13Sum(Put(s, i, c)) = Isbn13Sum(s) + w * (c - s[i])
  <1>1. \/ Isbn13Sum(Put(s, i, c)) = Isbn13Sum(s) + 1 * (c - s[i])
        \/ Isbn13Sum(Put(s, i, c)) = Isbn13Sum(s) + 3 * (c - s[i])
    BY SMT DEF Isbn13Sum, Put
  <1> QED BY <1>1

(* Neighbours differ by two, up or down.                                   *)
LEMMA Isbn13Swap ==
  ASSUME NEW s \in [1 .. 13 -> Int], NEW i \in 1 .. 12
  PROVE  \/ Isbn13Sum(Swap(s, i)) = Isbn13Sum(s) + 2 * (s[i + 1] - s[i])
         \/ Isbn13Sum(Swap(s, i)) = Isbn13Sum(s) - 2 * (s[i + 1] - s[i])
  <1>1. CASE i \in {1, 3, 5, 7, 9, 11} BY <1>1, SMT DEF Isbn13Sum, Swap
  <1>2. CASE i \in {2, 4, 6, 8, 10, 12} BY <1>2, SMT DEF Isbn13Sum, Swap
  <1> QED BY <1>1, <1>2, SMT

(* ROR's payload is a number in base 32.                                   *)
LEMMA RorPut ==
  ASSUME NEW s \in [1 .. 9 -> Int], NEW i \in 2 .. 7, NEW c \in Int
  PROVE  RorValue(Put(s, i, c)) = RorValue(s) + RorWeight[i] * (c - s[i])
  BY SMT DEF RorValue, RorWeight, Put

(* Neighbours differ by 31 times a power of 32.                            *)
LEMMA RorSwap ==
  ASSUME NEW s \in [1 .. 9 -> Int], NEW i \in 2 .. 6
  PROVE  RorValue(Swap(s, i)) = RorValue(s) + (RorWeight[i] - RorWeight[i + 1]) * (s[i + 1] - s[i])
  BY SMT DEF RorValue, RorWeight, Swap
-----------------------------------------------------------------------------
(* ISSN: the check digit is the complement of the weighted sum.            *)
(* A character that is replaced unnoticed was replaced by itself.          *)
LEMMA IssnSubstitution ==
  ASSUME NEW s \in [1 .. 8 -> Int], NEW i \in 1 .. 8, NEW c \in Int,
         verifyISSN(s), verifyISSN(Put(s, i, c))
  PROVE  c = s[i]
  <1> DEFINE t == Put(s, i, c)
  <1>1. /\ \A j \in 1 .. 7 : s[j] \in Digits /\ t[j] \in Digits
        /\ IsLastChar(s[8]) /\ IsLastChar(t[8])
    BY DEF verifyISSN, AllDigits
  <1>2. /\ (11 - (IssnSum(s) % 11)) % 11 = LastValue(s[8])
        /\ (11 - (IssnSum(t) % 11)) % 11 = LastValue(t[8])
    BY DEF verifyISSN
  <1>3. IssnSum(s) \in Int
    BY SMT DEF IssnSum
  <1>4. CASE i = 8
    <2>1. IssnSum(t) = IssnSum(s) /\ t[8] = c
      BY <1>4, SMT DEF IssnSum, Put
    <2>2. LastValue(c) = LastValue(s[8])
      BY <1>2, <2>1
    <2> QED BY <1>1, <1>4, <2>1, <2>2, SMT DEF IsLastChar, LastValue, Digits, X
  <1>5. CASE i \in 1 .. 7
    <2>1. t[8] = s[8] /\ t[i] = c
      BY <1>5, SMT DEF Put
    <2>2. IssnSum(t) = IssnSum(s) + (9 - i) * (c - s[i])
      BY <1>5, IssnPut
    <2>3. IssnSum(t) \in Int
      BY <1>3, <2>2, <1>5, SMT
    <2>4. IssnSum(t) % 11 = IssnSum(s) % 11
      BY <1>2, <1>3, <2>1, <2>3, Complement11
    <2>5. c - s[i] \in -10 .. 10 /\ 9 - i \in 1 .. 10
      BY <1>1, <1>5, <2>1, SMT DEF Digits
    <2>6. c - s[i] = 0
      BY <1>3, <2>2, <2>4, <2>5, Shift11
    <2> QED BY <2>6, SMT
  <1> QED BY <1>4, <1>5, SMT

(* Neighbours that are exchanged unnoticed are equal.                      *)
LEMMA IssnTransposition ==
  ASSUME NEW s \in [1 .. 8 -> Int], NEW i \in 1 .. 7,
         verifyISSN(s), verifyISSN(Swap(s, i))
  PROVE  s[i] = s[i + 1]
  <1> DEFINE t == Swap(s, i)
  <1>1. /\ \A j \in 1 .. 7 : s[j] \in Digits /\ t[j] \in Digits
        /\ IsLastChar(s[8]) /\ IsLastChar(t[8])
    BY DEF verifyISSN, AllDigits
  <1>2. /\ (11 - (IssnSum(s) % 11)) % 11 = LastValue(s[8])
        /\ (11 - (IssnSum(t) % 11)) % 11 = LastValue(t[8])
    BY DEF verifyISSN
  <1>3. IssnSum(s) \in Int
    BY SMT DEF IssnSum
  <1>4. CASE i = 7
    <2>1. t[7] = s[8] /\ t[8] = s[7] /\ s[7] \in 0 .. 9 /\ s[8] \in 0 .. 9
      BY <1>1, <1>4, SMT DEF Swap, Digits
    <2>2. IssnSum(t) = IssnSum(s) + 2 * (s[8] - s[7])
      BY <1>4, SMT DEF IssnSum, Swap
    <2>3. LastValue(s[8]) = s[8] /\ LastValue(s[7]) = s[7]
      BY <2>1, SMT DEF LastValue, X
    <2>4. \A S \in Int : \A a, b \in 0 .. 9 :
            (11 - (S % 11)) % 11 = b /\ (11 - ((S + 2 * (b - a)) % 11)) % 11 = a => a = b
      BY SMT
    <2>5. s[7] = s[8]
      BY <1>2, <1>3, <2>1, <2>2, <2>3, <2>4
    <2> QED BY <1>4, <2>5, SMT
  <1>5. CASE i \in 1 .. 6
    <2>1. t[8] = s[8]
      BY <1>5, SMT DEF Swap
    <2>2. IssnSum(t) = IssnSum(s) + (s[i + 1] - s[i])
      BY <1>5, IssnSwap
    <2>3. s[i + 1] - s[i] \in -10 .. 10
      BY <1>1, <1>5, SMT DEF Digits
    <2>4. IssnSum(t) \in Int /\ IssnSum(t) = IssnSum(s) + 1 * (s[i + 1] - s[i])
      BY <1>3, <2>2, <2>3, SMT
    <2>5. IssnSum(t) % 11 = IssnSum(s) % 11
      BY <1>2, <1>3, <2>1, <2>4, Complement11
    <2>6. s[i + 1] - s[i] = 0
      <3>1. (IssnSum(s) + 1 * (s[i + 1] - s[i])) % 11 = IssnSum(s) % 11
        BY <2>4, <2>5
      <3>2. 1 \in 1 .. 10
        BY SMT
      <3> QED BY <1>3, <2>3, <3>1, <3>2, Shift11
    <2> QED BY <1>5, <2>6, SMT
  <1> QED BY <1>4, <1>5, SMT

-----------------------------------------------------------------------------
(* ORCID: the check digit is the complement of the total plus one.         *)
(* A character that is replaced unnoticed was replaced by itself.          *)
LEMMA OrcidSubstitution ==
  ASSUME NEW s \in [1 .. 16 -> Int], NEW i \in 1 .. 16, NEW c \in Int,
         verifyOrcid(s), verifyOrcid(Put(s, i, c))
  PROVE  c = s[i]
  <1> DEFINE t == Put(s, i, c)
  <1>1. /\ \A j \in 1 .. 15 : s[j] \in Digits /\ t[j] \in Digits
        /\ IsLastChar(s[16]) /\ IsLastChar(t[16])
    BY DEF verifyOrcid, AllDigits
  <1>2. /\ (12 - (OrcidTotal(s) % 11)) % 11 = LastValue(s[16])
        /\ (12 - (OrcidTotal(t) % 11)) % 11 = LastValue(t[16])
    BY DEF verifyOrcid
  <1>3. OrcidTotal(s) \in Int
    BY SMT DEF OrcidTotal
  <1>4. CASE i = 16
    <2>1. OrcidTotal(t) = OrcidTotal(s) /\ t[16] = c
      BY <1>4, SMT DEF OrcidTotal, Put
    <2>2. LastValue(c) = LastValue(s[16])
      BY <1>2, <2>1
    <2> QED BY <1>1, <1>4, <2>1, <2>2, SMT DEF IsLastChar, LastValue, Digits, X
  <1>5. CASE i \in 1 .. 15
    <2>1. t[16] = s[16] /\ t[i] = c
      BY <1>5, SMT DEF Put
    <2>2. OrcidTotal(t) = OrcidTotal(s) + OrcidWeight[i] * (c - s[i])
      BY <1>5, OrcidPut
    <2>3. OrcidTotal(t) \in Int
      <3>1. t \in [1 .. 16 -> Int]
        BY DEF Put
      <3> HIDE DEF t
      <3> QED BY <3>1, SMT DEF OrcidTotal
    <2>4. OrcidTotal(t) % 11 = OrcidTotal(s) % 11
      BY <1>2, <1>3, <2>1, <2>3, Complement11
    <2>5. c - s[i] \in -10 .. 10
      BY <1>1, <1>5, <2>1, SMT DEF Digits
    <2>6. c - s[i] = 0
      BY <1>3, <1>5, <2>2, <2>4, <2>5, ShiftOrcid
    <2> QED BY <2>6, SMT
  <1> QED BY <1>4, <1>5, SMT

(* Neighbours that are exchanged unnoticed are equal.                      *)
LEMMA OrcidTransposition ==
  ASSUME NEW s \in [1 .. 16 -> Int], NEW i \in 1 .. 15,
         verifyOrcid(s), verifyOrcid(Swap(s, i))
  PROVE  s[i] = s[i + 1]
  <1> DEFINE t == Swap(s, i)
  <1>1. /\ \A j \in 1 .. 15 : s[j] \in Digits /\ t[j] \in Digits
        /\ IsLastChar(s[16]) /\ IsLastChar(t[16])
    BY DEF verifyOrcid, AllDigits
  <1>2. /\ (12 - (OrcidTotal(s) % 11)) % 11 = LastValue(s[16])
        /\ (12 - (OrcidTotal(t) % 11)) % 11 = LastValue(t[16])
    BY DEF verifyOrcid
  <1>3. OrcidTotal(s) \in Int
    BY SMT DEF OrcidTotal
  <1>4. CASE i = 15
    <2>1. t[15] = s[16] /\ t[16] = s[15] /\ s[15] \in 0 .. 9 /\ s[16] \in 0 .. 9
      BY <1>1, <1>4, SMT DEF Swap, Digits
    <2>2. OrcidTotal(t) = OrcidTotal(s) + 2 * (s[16] - s[15])
      BY <1>4, SMT DEF OrcidTotal, Swap
    <2>3. LastValue(s[16]) = s[16] /\ LastValue(s[15]) = s[15]
      BY <2>1, SMT DEF LastValue, X
    <2>4. \A S \in Int : \A a, b \in 0 .. 9 :
            (12 - (S % 11)) % 11 = b /\ (12 - ((S + 2 * (b - a)) % 11)) % 11 = a => a = b
      BY SMT
    <2>5. s[15] = s[16]
      BY <1>2, <1>3, <2>1, <2>2, <2>3, <2>4
    <2> QED BY <1>4, <2>5, SMT
  <1>5. CASE i \in 1 .. 14
    <2>1. t[16] = s[16]
      BY <1>5, SMT DEF Swap
    <2>2. OrcidTotal(t) = OrcidTotal(s) + OrcidWeight[i + 1] * (s[i + 1] - s[i])
      BY <1>5, OrcidSwap
    <2>3. s[i + 1] - s[i] \in -10 .. 10 /\ i + 1 \in 1 .. 15
      BY <1>1, <1>5, SMT DEF Digits
    <2>4. OrcidTotal(t) \in Int
      <3>1. t \in [1 .. 16 -> Int]
        BY <1>5, SMT DEF Swap
      <3> HIDE DEF t
      <3> QED BY <3>1, SMT DEF OrcidTotal
    <2>5. OrcidTotal(t) % 11 = OrcidTotal(s) % 11
      BY <1>2, <1>3, <2>1, <2>4, Complement11
    <2>6. s[i + 1] - s[i] = 0
      BY <1>3, <2>2, <2>3, <2>5, ShiftOrcid
    <2> QED BY <1>5, <2>6, SMT
  <1> QED BY <1>4, <1>5, SMT
-----------------------------------------------------------------------------
(* ISBN-10: the whole weighted sum is a multiple of 11.                    *)
(* A character that is replaced unnoticed was replaced by itself.          *)
LEMMA Isbn10Substitution ==
  ASSUME NEW s \in [1 .. 10 -> Int], NEW i \in 1 .. 10, NEW c \in Int,
         verifyISBN10(s), verifyISBN10(Put(s, i, c))
  PROVE  c = s[i]
  <1> DEFINE t == Put(s, i, c)
  <1>1. /\ \A j \in 1 .. 9 : s[j] \in Digits /\ t[j] \in Digits
        /\ IsLastChar(s[10]) /\ IsLastChar(t[10])
    BY DEF verifyISBN10, AllDigits
  <1>2. /\ (Isbn10Sum(s) + LastValue(s[10])) % 11 = 0
        /\ (Isbn10Sum(t) + LastValue(t[10])) % 11 = 0
    BY DEF verifyISBN10
  <1>3. Isbn10Sum(s) \in Int
    BY SMT DEF Isbn10Sum
  <1>4. LastValue(s[10]) \in 0 .. 10 /\ LastValue(t[10]) \in 0 .. 10
    BY <1>1, SMT DEF IsLastChar, LastValue, Digits, X
  <1>5. CASE i = 10
    <2>1. Isbn10Sum(t) = Isbn10Sum(s) /\ t[10] = c
      BY <1>5, SMT DEF Isbn10Sum, Put
    <2>2. \A S \in Int : \A a, b \in 0 .. 10 :
            (S + a) % 11 = 0 /\ (S + b) % 11 = 0 => a = b
      BY SMT
    <2>3. LastValue(c) = LastValue(s[10])
      BY <1>2, <1>3, <1>4, <2>1, <2>2
    <2> QED BY <1>1, <1>5, <2>1, <2>3, SMT DEF IsLastChar, LastValue, Digits, X
  <1>6. CASE i \in 1 .. 9
    <2>1. t[10] = s[10] /\ t[i] = c
      BY <1>6, SMT DEF Put
    <2>2. Isbn10Sum(t) = Isbn10Sum(s) + (11 - i) * (c - s[i])
      BY <1>6, Isbn10Put
    <2> DEFINE S == Isbn10Sum(s) + LastValue(s[10])
    <2>3. c - s[i] \in -10 .. 10 /\ 11 - i \in 1 .. 10
      BY <1>1, <1>6, <2>1, SMT DEF Digits
    <2>4. S \in Int
      BY <1>3, <1>4, SMT
    <2>5. (S + (11 - i) * (c - s[i])) % 11 = S % 11
      <3>1. S + (11 - i) * (c - s[i]) = Isbn10Sum(t) + LastValue(t[10])
        BY <1>3, <1>4, <1>6, <2>1, <2>2, SMT
      <3> QED BY <1>2, <3>1
    <2> HIDE DEF S
    <2>6. c - s[i] = 0
      BY <2>3, <2>4, <2>5, Shift11
    <2> QED BY <2>6, SMT
  <1> QED BY <1>5, <1>6, SMT

(* Neighbours that are exchanged unnoticed are equal.                      *)
LEMMA Isbn10Transposition ==
  ASSUME NEW s \in [1 .. 10 -> Int], NEW i \in 1 .. 9,
         verifyISBN10(s), verifyISBN10(Swap(s, i))
  PROVE  s[i] = s[i + 1]
  <1> DEFINE t == Swap(s, i)
  <1>1. /\ \A j \in 1 .. 9 : s[j] \in Digits /\ t[j] \in Digits
        /\ IsLastChar(s[10]) /\ IsLastChar(t[10])
    BY DEF verifyISBN10, AllDigits
  <1>2. /\ (Isbn10Sum(s) + LastValue(s[10])) % 11 = 0
        /\ (Isbn10Sum(t) + LastValue(t[10])) % 11 = 0
    BY DEF verifyISBN10
  <1>3. Isbn10Sum(s) \in Int
    BY SMT DEF Isbn10Sum
  <1>4. LastValue(s[10]) \in 0 .. 10
    BY <1>1, SMT DEF IsLastChar, LastValue, Digits, X
  <1>5. CASE i = 9
    <2>1. t[9] = s[10] /\ t[10] = s[9] /\ s[9] \in 0 .. 9 /\ s[10] \in 0 .. 9
      BY <1>1, <1>5, SMT DEF Swap, Digits
    <2>2. Isbn10Sum(t) = Isbn10Sum(s) + 2 * (s[10] - s[9])
      BY <1>5, SMT DEF Isbn10Sum, Swap
    <2>3. LastValue(s[10]) = s[10] /\ LastValue(s[9]) = s[9]
      BY <2>1, SMT DEF LastValue, X
    <2>4. \A S \in Int : \A a, b \in 0 .. 9 :
            (S + b) % 11 = 0 /\ (S + 2 * (b - a) + a) % 11 = 0 => a = b
      BY SMT
    <2>5. s[9] = s[10]
      BY <1>2, <1>3, <2>1, <2>2, <2>3, <2>4
    <2> QED BY <1>5, <2>5, SMT
  <1>6. CASE i \in 1 .. 8
    <2>1. t[10] = s[10]
      BY <1>6, SMT DEF Swap
    <2>2. Isbn10Sum(t) = Isbn10Sum(s) + (s[i + 1] - s[i])
      BY <1>6, Isbn10Swap
    <2> DEFINE d == s[i + 1] - s[i]
    <2>3. d \in -10 .. 10
      BY <1>1, <1>6, SMT DEF Digits
    <2>4. \A S \in Int, v \in 0 .. 10, e \in -10 .. 10 :
            (S + v) % 11 = 0 /\ ((S + e) + v) % 11 = 0 => e = 0
      BY SMT
    <2>5. d = 0
      BY <1>2, <1>3, <1>4, <2>1, <2>2, <2>3, <2>4
    <2> QED BY <1>6, <2>5, SMT
  <1> QED BY <1>5, <1>6, SMT

-----------------------------------------------------------------------------
(* ISBN-13: the sum with weights 1 and 3 is a multiple of 10.              *)
(* A character that is replaced unnoticed was replaced by itself.          *)
LEMMA Isbn13Substitution ==
  ASSUME NEW s \in [1 .. 13 -> Int], NEW i \in 1 .. 13, NEW c \in Int,
         verifyISBN13(s), verifyISBN13(Put(s, i, c))
  PROVE  c = s[i]
  <1> DEFINE t == Put(s, i, c)
  <1>1. s[i] \in 0 .. 9 /\ t[i] \in 0 .. 9
    BY DEF verifyISBN13, AllDigits, Digits
  <1>2. t[i] = c
    BY DEF Put
  <1>3. Isbn13Sum(s) \in Int /\ Isbn13Sum(s) % 10 = 0 /\ Isbn13Sum(t) % 10 = 0
    <2>1. Isbn13Sum(s) \in Int
      BY SMT DEF Isbn13Sum
    <2> QED BY <2>1 DEF verifyISBN13
  <1>4. PICK w \in {1, 3} : Isbn13Sum(t) = Isbn13Sum(s) + w * (c - s[i])
    BY Isbn13Put
  <1>5. \A S \in Int : \A a, b \in 0 .. 9 : \A u \in {1, 3} :
          S % 10 = 0 /\ (S + u * (b - a)) % 10 = 0 => a = b
    BY SMT
  <1> QED BY <1>1, <1>2, <1>3, <1>4, <1>5

(* Neighbours that are exchanged unnoticed are equal or differ by 5.       *)
LEMMA Isbn13Transposition ==
  ASSUME NEW s \in [1 .. 13 -> Int], NEW i \in 1 .. 12,
         verifyISBN13(s), verifyISBN13(Swap(s, i))
  PROVE  s[i] = s[i + 1] \/ Blind("isbn13", s[i], s[i + 1])
  <1> DEFINE t == Swap(s, i)
             d == s[i + 1] - s[i]
  <1>1. s[i] \in 0 .. 9 /\ s[i + 1] \in 0 .. 9
    BY SMT DEF verifyISBN13, AllDigits, Digits
  <1>2. Isbn13Sum(s) % 10 = 0 /\ Isbn13Sum(t) % 10 = 0
    BY DEF verifyISBN13
  <1>3. Isbn13Sum(s) \in Int
    BY SMT DEF Isbn13Sum
  <1>4. \/ Isbn13Sum(t) = Isbn13Sum(s) + 2 * d
        \/ Isbn13Sum(t) = Isbn13Sum(s) - 2 * d
    BY Isbn13Swap
  <1>5. \A S \in Int : \A e \in -9 .. 9 :
          S % 10 = 0 /\ ((S + 2 * e) % 10 = 0 \/ (S - 2 * e) % 10 = 0) => e \in {0, 5, -5}
    BY SMT
  <1>6. d \in -9 .. 9
    BY <1>1, SMT
  <1>7. d \in {0, 5, -5}
    BY <1>2, <1>3, <1>4, <1>5, <1>6
  <1> QED BY <1>1, <1>7, SMT DEF Blind

(* The transpositions it is blind to do pass.                              *)
LEMMA Isbn13Blind ==
  ASSUME NEW s \in [1 .. 13 -> Int], NEW i \in 1 .. 12,
         verifyISBN13(s), Blind("isbn13", s[i], s[i + 1])
  PROVE  verifyISBN13(Swap(s, i))
  <1> DEFINE t == Swap(s, i)
             d == s[i + 1] - s[i]
  <1>1. \A j \in 1 .. 13 : s[j] \in Digits
    BY DEF verifyISBN13, AllDigits
  <1>2. \A j \in 1 .. 13 : t[j] \in Digits
    BY <1>1, SMT DEF Swap
  <1>3. d \in {5, -5}
    BY <1>1, SMT DEF Blind, Digits
  <1>4. \/ Isbn13Sum(t) = Isbn13Sum(s) + 2 * d
        \/ Isbn13Sum(t) = Isbn13Sum(s) - 2 * d
    BY Isbn13Swap
  <1>5. Isbn13Sum(s) \in Int /\ Isbn13Sum(s) % 10 = 0
    <2>1. Isbn13Sum(s) \in Int
      BY SMT DEF Isbn13Sum
    <2> QED BY <2>1 DEF verifyISBN13
  <1>6. \A S \in Int : \A e \in {5, -5} :
          S % 10 = 0 => (S + 2 * e) % 10 = 0 /\ (S - 2 * e) % 10 = 0
    BY SMT
  <1>7. Isbn13Sum(t) % 10 = 0
    BY <1>3, <1>4, <1>5, <1>6
  <1>8. Len(t) = 13
    <2>1. t \in [1 .. 13 -> Int] /\ DOMAIN t = 1 .. 13
      BY SMT DEF Swap
    <2> QED BY <2>1, SMT
  <1> QED BY <1>2, <1>7, <1>8 DEF verifyISBN13, AllDigits
-----------------------------------------------------------------------------
(* ROR: the last two digits are 98 less a hundred times the value, mod 97. *)
(* A character that is replaced unnoticed was replaced by itself.          *)
LEMMA RorSubstitution ==
  ASSUME NEW s \in [1 .. 9 -> Int], NEW i \in 1 .. 9, NEW c \in Int,
         verifyRORID(s), verifyRORID(Put(s, i, c))
  PROVE  c = s[i]
  <1> DEFINE t == Put(s, i, c)
  <1>1. /\ s[1] = 0 /\ t[1] = 0
        /\ \A j \in 2 .. 7 : s[j] \in Alphabet /\ t[j] \in Alphabet
        /\ s[8] \in Digits /\ s[9] \in Digits /\ t[8] \in Digits /\ t[9] \in Digits
    BY DEF verifyRORID
  <1>2. /\ 10 * s[8] + s[9] = 98 - (((RorValue(s) % 97) * 100) % 97)
        /\ 10 * t[8] + t[9] = 98 - (((RorValue(t) % 97) * 100) % 97)
    BY DEF verifyRORID
  <1>3. RorValue(s) \in Int
    BY SMT DEF RorValue
  <1>4. t[i] = c
    BY SMT DEF Put
  <1>5. CASE i = 1
    BY <1>1, <1>4, <1>5
  <1>6. CASE i \in 2 .. 7
    <2>1. t[8] = s[8] /\ t[9] = s[9]
      BY <1>6, SMT DEF Put
    <2>2. RorValue(t) = RorValue(s) + RorWeight[i] * (c - s[i])
      BY <1>6, RorPut
    <2>3. c - s[i] \in -31 .. 31 /\ RorWeight[i] \in RorWeights
      BY <1>1, <1>4, <1>6, SMT DEF Alphabet, RorWeight, RorWeights
    <2>4. RorValue(t) \in Int
      BY <1>3, <2>2, <2>3, SMT DEF RorWeights
    <2>5. RorValue(t) % 97 = RorValue(s) % 97
      <3>1. 10 * s[8] + s[9] = 98 - (((RorValue(t) % 97) * 100) % 97)
        BY <1>2, <2>1
      <3> QED BY <1>2, <1>3, <2>4, <3>1, SameCheck
    <2>6. c - s[i] = 0
      BY <1>3, <2>2, <2>3, <2>5, ShiftRor
    <2> QED BY <2>6, SMT
  <1>7. CASE i \in 8 .. 9
    <2>1. RorValue(t) = RorValue(s)
      BY <1>7, SMT DEF RorValue, Put
    <2>2. 10 * s[8] + s[9] = 10 * t[8] + t[9]
      BY <1>2, <2>1
    <2>4. s[8] = t[8] /\ s[9] = t[9]
      <3> HIDE DEF t
      <3>1. s[8] \in 0 .. 9 /\ s[9] \in 0 .. 9 /\ t[8] \in 0 .. 9 /\ t[9] \in 0 .. 9
        BY <1>1 DEF Digits
      <3> DEFINE a == s[8]
                 b == s[9]
                 x == t[8]
                 y == t[9]
      <3>2. a \in 0 .. 9 /\ b \in 0 .. 9 /\ x \in 0 .. 9 /\ y \in 0 .. 9
        BY <3>1
      <3>3. 10 * a + b = 10 * x + y
        BY <2>2
      <3> HIDE DEF a, b, x, y
      <3>4. a = x /\ b = y
        BY <3>2, <3>3, SMT
      <3> QED BY <3>4 DEF a, b, x, y
    <2> QED BY <1>4, <1>7, <2>4, SMT
  <1> QED BY <1>5, <1>6, <1>7, SMT

(* Neighbours that are exchanged unnoticed are equal.                      *)
LEMMA RorTransposition ==
  ASSUME NEW s \in [1 .. 9 -> Int], NEW i \in 1 .. 8,
         verifyRORID(s), verifyRORID(Swap(s, i))
  PROVE  s[i] = s[i + 1]
  <1> DEFINE t == Swap(s, i)
             d == s[i + 1] - s[i]
  <1>1. /\ s[1] = 0 /\ t[1] = 0
        /\ \A j \in 2 .. 7 : s[j] \in Alphabet /\ t[j] \in Alphabet
        /\ s[8] \in Digits /\ s[9] \in Digits /\ t[8] \in Digits /\ t[9] \in Digits
    BY DEF verifyRORID
  <1>2. /\ 10 * s[8] + s[9] = 98 - (((RorValue(s) % 97) * 100) % 97)
        /\ 10 * t[8] + t[9] = 98 - (((RorValue(t) % 97) * 100) % 97)
    BY DEF verifyRORID
  <1>3. RorValue(s) \in Int
    BY SMT DEF RorValue
  <1>4. t[i] = s[i + 1] /\ t[i + 1] = s[i]
    BY SMT DEF Swap
  <1>5. CASE i = 1
    BY <1>1, <1>4, <1>5, SMT
  <1>6. CASE i \in 2 .. 6
    <2>1. t[8] = s[8] /\ t[9] = s[9]
      BY <1>6, SMT DEF Swap
    <2> DEFINE w == RorWeight[i] - RorWeight[i + 1]
    <2>2. RorValue(t) = RorValue(s) + w * d
      BY <1>6, RorSwap
    <2>3. d \in -31 .. 31
      BY <1>1, <1>6, SMT DEF Alphabet
    <2>4. w \in RorWeights
      BY <1>6, SMT DEF RorWeight, RorWeights
    <2>5. w \in Int /\ d \in Int
      BY <2>3, <2>4, SMT DEF RorWeights
    <2> HIDE DEF w, d
    <2>6. RorValue(t) \in Int
      BY <1>3, <2>2, <2>5, SMT
    <2>7. RorValue(t) % 97 = RorValue(s) % 97
      <3>1. 10 * s[8] + s[9] = 98 - (((RorValue(t) % 97) * 100) % 97)
        BY <1>2, <2>1
      <3> QED BY <1>2, <1>3, <2>6, <3>1, SameCheck
    <2>8. d = 0
      BY <1>3, <2>2, <2>3, <2>4, <2>7, ShiftRor
    <2> QED BY <2>8, <1>6, <1>1, SMT DEF d
  <1>7. CASE i = 7
    <2>1. RorValue(t) = RorValue(s) + (s[8] - s[7]) /\ t[8] = s[7] /\ t[9] = s[9]
      BY <1>7, SMT DEF RorValue, Swap
    <2>2. s[7] \in 0 .. 9 /\ s[8] \in 0 .. 9 /\ s[9] \in 0 .. 9
      BY <1>1, <2>1, SMT DEF Digits
    <2>4. /\ 10 * s[8] + s[9] = 98 - (((RorValue(s) % 97) * 100) % 97)
          /\ 10 * s[7] + s[9] = 98 - ((((RorValue(s) + (s[8] - s[7])) % 97) * 100) % 97)
      BY <1>2, <2>1
    <2>5. s[7] = s[8]
      <3> DEFINE V == RorValue(s)
                 a == s[7]
                 b == s[8]
                 z == s[9]
      <3>1. /\ V \in Int /\ a \in 0 .. 9 /\ b \in 0 .. 9 /\ z \in 0 .. 9
            /\ 10 * b + z = 98 - (((V % 97) * 100) % 97)
            /\ 10 * a + z = 98 - ((((V + (b - a)) % 97) * 100) % 97)
        BY <1>3, <2>2, <2>4
      <3> HIDE DEF V, a, b, z
      <3>2. a = b
        BY <3>1, SMTT(60)
      <3> QED BY <3>2 DEF a, b
    <2> QED BY <1>7, <2>5, SMT
  <1>8. CASE i = 8
    <2>1. RorValue(t) = RorValue(s) /\ t[8] = s[9] /\ t[9] = s[8]
      BY <1>8, SMT DEF RorValue, Swap
    <2>2. 10 * s[8] + s[9] = 10 * s[9] + s[8]
      BY <1>2, <2>1
    <2> QED BY <1>1, <1>8, <2>2, SMT DEF Digits
  <1> QED BY <1>5, <1>6, <1>7, <1>8, SMT
-----------------------------------------------------------------------------
(* Luhn: identifiers of any length, summed from the right.                 *)
(* A nonempty set of numbers has a least one.                              *)
LEMMA LeastOf ==
  ASSUME NEW N \in SUBSET Nat, N # {}
  PROVE  \E n \in N : \A m \in N : n <= m
  <1> DEFINE Less == {p \in Nat \X Nat : p[1] < p[2]}
  <1>1. OpToRel(<, Nat) = Less
    BY DEF OpToRel
  <1>2. IsWellFoundedOn(Less, Nat)
    BY <1>1, NatLessThanWellFounded
  <1>3. PICK n \in N : \A m \in N : <<m, n>> \notin Less
    BY <1>2, WFMin
  <1>4. ASSUME NEW m \in N PROVE n <= m
    <2>1. n \in Nat /\ m \in Nat
      OBVIOUS
    <2>2. ~ (m < n)
      BY <1>3, <2>1
    <2> QED BY <2>1, <2>2
  <1> QED BY <1>4

(* A set of numbers that counting does not leave holds them all.           *)
LEMMA Counting ==
  ASSUME NEW N \in SUBSET Nat, 0 \in N, \A n \in N : n + 1 \in N
  PROVE  N = Nat
  <1> SUFFICES ASSUME Nat \ N # {} PROVE FALSE
    OBVIOUS
  <1>1. PICK n \in Nat \ N : \A m \in Nat \ N : n <= m
    BY LeastOf
  <1>2. n - 1 \in Nat /\ ~ (n <= n - 1) /\ n - 1 + 1 = n
    <2>1. n # 0
      OBVIOUS
    <2> QED BY <2>1, SMT
  <1>3. n - 1 \in N
    BY <1>1, <1>2
  <1> QED BY <1>2, <1>3

(* The sum of the last m digits of s is f[m], for every m up to n.         *)
Partial(s, n, f) ==
  f = [k \in 0 .. n |-> IF k = 0 THEN 0 ELSE f[k - 1] + Weighed(s, k)]

(* The loop has such sums.                                                 *)
LEMMA PartialExists ==
  ASSUME NEW s, NEW n \in Nat
  PROVE  \E f : Partial(s, n, f)
  <1> DEFINE N == {m \in Nat : \E f : Partial(s, m, f)}
  <1>1. 0 \in N
    <2>1. Partial(s, 0, [k \in 0 .. 0 |-> 0])
      BY SMT DEF Partial
    <2> QED BY <2>1
  <1>2. ASSUME NEW m \in N PROVE m + 1 \in N
    <2>1. PICK f : Partial(s, m, f)
      OBVIOUS
    <2> DEFINE g == [k \in 0 .. m + 1 |-> IF k = m + 1 THEN f[m] + Weighed(s, k) ELSE f[k]]
    <2>2. /\ \A k \in 0 .. m + 1 : k = m + 1 \/ k \in 0 .. m
          /\ \A k \in 0 .. m : k # 0 => k - 1 \in 0 .. m
          /\ \A k \in 0 .. m : k # m + 1 /\ k \in 0 .. m + 1
          /\ m + 1 # 0 /\ m + 1 - 1 = m /\ m \in 0 .. m /\ m + 1 \in 0 .. m + 1
      BY SMT
    <2>3. \A k \in 0 .. m : f[k] = IF k = 0 THEN 0 ELSE f[k - 1] + Weighed(s, k)
      BY <2>1 DEF Partial
    <2>4. \A k \in 0 .. m : g[k] = f[k]
      BY <2>2
    <2>5. g[m + 1] = f[m] + Weighed(s, m + 1)
      BY <2>2
    <2>6. ASSUME NEW k \in 0 .. m + 1
          PROVE  g[k] = IF k = 0 THEN 0 ELSE g[k - 1] + Weighed(s, k)
      <3>1. CASE k = m + 1
        BY <2>2, <2>4, <2>5, <3>1
      <3>2. CASE k \in 0 .. m
        BY <2>2, <2>3, <2>4, <3>2
      <3> QED BY <2>2, <3>1, <3>2
    <2>7. g = [k \in 0 .. m + 1 |-> g[k]]
      OBVIOUS
    <2> HIDE DEF g
    <2>8. Partial(s, m + 1, g)
      BY <2>6, <2>7 DEF Partial
    <2> QED BY <2>8
  <1>3. N = Nat
    <2>1. N \in SUBSET Nat
      OBVIOUS
    <2> HIDE DEF N
    <2> QED BY <1>1, <1>2, <2>1, Counting
  <1> QED BY <1>3

(* LuhnSum adds one weighed digit at a time.                               *)
LEMMA LuhnSteps ==
  ASSUME NEW s, Len(s) \in Nat
  PROVE  \E f : /\ f[0] = 0
                /\ \A k \in 1 .. Len(s) : f[k] = f[k - 1] + Weighed(s, k)
                /\ LuhnSum(s) = f[Len(s)]
  <1> DEFINE sum == CHOOSE f : f = [k \in 0 .. Len(s) |->
                      IF k = 0 THEN 0 ELSE f[k - 1] + Weighed(s, k)]
  <1>1. PICK f : Partial(s, Len(s), f)
    BY PartialExists
  <1>2. sum = [k \in 0 .. Len(s) |-> IF k = 0 THEN 0 ELSE sum[k - 1] + Weighed(s, k)]
    BY <1>1 DEF Partial
  <1>3. LuhnSum(s) = sum[Len(s)]
    BY DEF LuhnSum
  <1> HIDE DEF sum
  <1>4. 0 \in 0 .. Len(s) /\ \A k \in 1 .. Len(s) : k \in 0 .. Len(s) /\ k # 0
    BY SMT
  <1>5. sum[0] = 0 /\ \A k \in 1 .. Len(s) : sum[k] = sum[k - 1] + Weighed(s, k)
    BY <1>2, <1>4
  <1> QED BY <1>3, <1>5

(* One digit that differs changes the sum by what it counts.               *)
LEMMA LuhnPut ==
  ASSUME NEW s, NEW t, NEW n \in Nat, Len(s) = n, Len(t) = n,
         \A k \in 1 .. n : Weighed(s, k) \in Int /\ Weighed(t, k) \in Int,
         NEW j \in 1 .. n, \A k \in (1 .. n) \ {j} : Weighed(t, k) = Weighed(s, k)
  PROVE  /\ LuhnSum(s) \in Int
         /\ LuhnSum(t) = LuhnSum(s) + (Weighed(t, j) - Weighed(s, j))
  <1> DEFINE d == Weighed(t, j) - Weighed(s, j)
  <1>1. PICK f : /\ f[0] = 0
                 /\ \A k \in 1 .. n : f[k] = f[k - 1] + Weighed(s, k)
                 /\ LuhnSum(s) = f[n]
    BY LuhnSteps
  <1>2. PICK g : /\ g[0] = 0
                 /\ \A k \in 1 .. n : g[k] = g[k - 1] + Weighed(t, k)
                 /\ LuhnSum(t) = g[n]
    BY LuhnSteps
  <1>3. d \in Int
    BY SMT
  <1>4. Weighed(t, j) = Weighed(s, j) + d
    BY SMT
  <1> HIDE DEF d
  <1> DEFINE N == {m \in Nat : m <= n => /\ f[m] \in Int
                                         /\ g[m] = f[m] + (IF m < j THEN 0 ELSE d)}
  <1>5. 0 \in N
    BY <1>1, <1>2, SMT
  <1>6. ASSUME NEW m \in N PROVE m + 1 \in N
    <2>1. m \in Nat /\ m + 1 \in Nat
      BY SMT
    <2> SUFFICES ASSUME m + 1 <= n
                 PROVE  f[m + 1] \in Int /\ g[m + 1] = f[m + 1] + (IF m + 1 < j THEN 0 ELSE d)
      BY <2>1
    <2>2. m + 1 \in 1 .. n /\ m + 1 - 1 = m /\ m <= n
      BY <2>1, SMT
    <2>3. f[m] \in Int /\ g[m] = f[m] + (IF m < j THEN 0 ELSE d)
      BY <2>2
    <2>4. f[m + 1] = f[m] + Weighed(s, m + 1) /\ g[m + 1] = g[m] + Weighed(t, m + 1)
      BY <1>1, <1>2, <2>2
    <2>5. Weighed(s, m + 1) \in Int /\ Weighed(t, m + 1) \in Int
      BY <2>2
    <2> HIDE DEF N
    <2>6. CASE m + 1 = j
      <3>1. Weighed(t, m + 1) = Weighed(s, m + 1) + d
        BY <1>4, <2>6
      <3> QED BY <1>3, <2>1, <2>3, <2>4, <2>5, <2>6, <3>1, SMT
    <2>7. CASE m + 1 # j
      <3>1. Weighed(t, m + 1) = Weighed(s, m + 1)
        BY <2>2, <2>7
      <3> QED BY <1>3, <2>1, <2>3, <2>4, <2>5, <2>7, <3>1, SMT
    <2> QED BY <2>6, <2>7
  <1>7. n \in N
    <2>1. N \in SUBSET Nat
      OBVIOUS
    <2> HIDE DEF N
    <2>2. N = Nat
      BY <1>5, <1>6, <2>1, Counting
    <2> QED BY <2>2
  <1>8. f[n] \in Int /\ g[n] = f[n] + d
    BY <1>3, <1>7, SMT
  <1> QED BY <1>1, <1>2, <1>8 DEF d

(* What digit d at position i of n counts.                                 *)
Counted(n, i, d) == IF (n - i + 1) % 2 = 0 THEN Doubled(d) ELSE d

(* Doubling keeps digits apart; only 0 and 9 are doubled into themselves,  *)
(* or shifted by as much as each other.                                    *)
LEMMA Doubling ==
  /\ \A d \in Digits : Doubled(d) \in 0 .. 9
  /\ \A a, b \in Digits : Doubled(a) = Doubled(b) => a = b
  /\ \A a, b \in Digits : Doubled(a) - a = Doubled(b) - b => a = b \/ {a, b} = {0, 9}
  /\ Doubled(0) = 0 /\ Doubled(9) = 9
  <1>1. \A d \in Digits : Doubled(d) \in 0 .. 9
    BY SMT DEF Doubled, Digits
  <1>2. \A a, b \in Digits : Doubled(a) = Doubled(b) => a = b
    BY SMT DEF Doubled, Digits
  <1>3. \A a, b \in Digits : Doubled(a) - a = Doubled(b) - b =>
          a = b \/ (a = 0 /\ b = 9) \/ (a = 9 /\ b = 0)
    BY SMT DEF Doubled, Digits
  <1>4. Doubled(0) = 0 /\ Doubled(9) = 9
    BY SMT DEF Doubled
  <1> QED BY <1>1, <1>2, <1>3, <1>4

(* A digit that is replaced changes the sum by what it counts.             *)
LEMMA LuhnDigit ==
  ASSUME NEW s \in Seq(Digits), NEW i \in 1 .. Len(s), NEW c \in Digits
  PROVE  /\ Put(s, i, c) \in Seq(Digits) /\ Len(Put(s, i, c)) = Len(s)
         /\ LuhnSum(s) \in Int
         /\ Counted(Len(s), i, c) \in 0 .. 9 /\ Counted(Len(s), i, s[i]) \in 0 .. 9
         /\ LuhnSum(Put(s, i, c)) =
              LuhnSum(s) + (Counted(Len(s), i, c) - Counted(Len(s), i, s[i]))
  <1> DEFINE t == Put(s, i, c)
             n == Len(s)
             j == n - i + 1
  <1>1. t \in Seq(Digits) /\ Len(t) = n /\ n \in Nat
    BY SMT DEF Put
  <1>2. t[i] = c /\ s[i] \in Digits /\ \A k \in 1 .. n : k # i => t[k] = s[k]
    BY SMT DEF Put
  <1> HIDE DEF t
  <1>3. j \in 1 .. n /\ n - j + 1 = i
    BY <1>1, SMT
  <1>4. \A r \in Seq(Digits) : Len(r) = n =>
          \A k \in 1 .. n : Weighed(r, k) \in Int
    <2> SUFFICES ASSUME NEW r \in Seq(Digits), Len(r) = n, NEW k \in 1 .. n
                 PROVE  Weighed(r, k) \in Int
      OBVIOUS
    <2>1. r[Len(r) - k + 1] \in Digits
      BY SMT
    <2>2. Doubled(r[Len(r) - k + 1]) \in Int
      BY <2>1, Doubling, SMT
    <2> QED BY <2>1, <2>2, SMT DEF Weighed, Digits
  <1>5. ASSUME NEW k \in (1 .. n) \ {j} PROVE Weighed(t, k) = Weighed(s, k)
    <2>1. n - k + 1 \in 1 .. n /\ n - k + 1 # i
      BY <1>1, SMT
    <2>2. t[n - k + 1] = s[n - k + 1]
      BY <1>2, <2>1
    <2> QED BY <1>1, <2>2 DEF Weighed
  <1>6. Weighed(t, j) = Counted(n, i, c) /\ Weighed(s, j) = Counted(n, i, s[i])
    <2>1. t[Len(t) - j + 1] = c /\ s[Len(s) - j + 1] = s[i]
      BY <1>1, <1>2, <1>3
    <2> QED BY <2>1 DEF Weighed, Counted
  <1>7. Counted(n, i, c) \in 0 .. 9 /\ Counted(n, i, s[i]) \in 0 .. 9
    BY <1>2, Doubling DEF Counted, Digits
  <1> HIDE DEF j
  <1>8. /\ LuhnSum(s) \in Int
        /\ LuhnSum(t) = LuhnSum(s) + (Weighed(t, j) - Weighed(s, j))
    <2>1. \A k \in 1 .. n : Weighed(s, k) \in Int /\ Weighed(t, k) \in Int
      BY <1>1, <1>4
    <2> HIDE DEF n
    <2>2. Len(s) = n
      BY DEF n
    <2> QED BY <1>1, <1>3, <1>5, <2>1, <2>2, LuhnPut
  <1> QED BY <1>1, <1>6, <1>7, <1>8 DEF t

(* A character that is replaced unnoticed was replaced by itself.          *)
LEMMA LuhnSubstitution ==
  ASSUME NEW s \in Seq(Alphabet), NEW i \in 1 .. Len(s), NEW c \in Alphabet,
         verifyLuhn(s), verifyLuhn(Put(s, i, c))
  PROVE  c = s[i]
  <1> DEFINE t == Put(s, i, c)
             a == Counted(Len(s), i, s[i])
             b == Counted(Len(s), i, c)
  <1>1. Len(t) = Len(s) /\ t[i] = c
    BY SMT DEF Put
  <1>2. s \in Seq(Digits) /\ s[i] \in Digits /\ c \in Digits
    <2>1. \A k \in 1 .. Len(s) : s[k] \in Digits
      BY DEF verifyLuhn, AllDigits
    <2>2. t[i] \in Digits
      BY <1>1 DEF verifyLuhn, AllDigits
    <2>3. s \in Seq(Digits)
      BY <2>1, SMT
    <2> QED BY <1>1, <2>1, <2>2, <2>3
  <1>3. /\ LuhnSum(s) \in Int /\ a \in 0 .. 9 /\ b \in 0 .. 9
        /\ LuhnSum(t) = LuhnSum(s) + (b - a)
    BY <1>2, LuhnDigit
  <1>4. LuhnSum(s) % 10 = 0 /\ LuhnSum(t) % 10 = 0
    BY DEF verifyLuhn
  <1>5. \A S \in Int : \A x, y \in 0 .. 9 :
          S % 10 = 0 /\ (S + (y - x)) % 10 = 0 => x = y
    BY SMT
  <1>6. a = b
    BY <1>3, <1>4, <1>5
  <1> QED BY <1>2, <1>6, Doubling DEF Counted

(* What an exchange adds to the sum: one of the two digits gains what      *)
(* doubling adds to it, the other loses it.                                *)
LEMMA LuhnSwap ==
  ASSUME NEW s \in Seq(Digits), NEW i \in 1 .. Len(s) - 1
  PROVE  /\ Swap(s, i) \in Seq(Digits) /\ Len(Swap(s, i)) = Len(s)
         /\ LuhnSum(s) \in Int /\ s[i] \in Digits /\ s[i + 1] \in Digits
         /\ LET gain(d) == Doubled(d) - d
            IN  \/ LuhnSum(Swap(s, i)) = LuhnSum(s) + (gain(s[i + 1]) - gain(s[i]))
                \/ LuhnSum(Swap(s, i)) = LuhnSum(s) - (gain(s[i + 1]) - gain(s[i]))
  <1> DEFINE n == Len(s)
             a == s[i]
             b == s[i + 1]
             u == Put(s, i, b)
  <1>1. /\ n \in Nat /\ i \in 1 .. n /\ i + 1 \in 1 .. n /\ i + 1 # i
        /\ a \in Digits /\ b \in Digits
    BY SMT
  <1>2. u[i + 1] = b /\ Swap(s, i) = Put(u, i + 1, a)
    <2>1. DOMAIN s = 1 .. n
      BY SMT
    <2> QED BY <1>1, <2>1 DEF Put, Swap
  <1>3. /\ u \in Seq(Digits) /\ Len(u) = n /\ LuhnSum(s) \in Int
        /\ LuhnSum(u) = LuhnSum(s) + (Counted(n, i, b) - Counted(n, i, a))
        /\ Counted(n, i, b) \in 0 .. 9 /\ Counted(n, i, a) \in 0 .. 9
    BY <1>1, LuhnDigit
  <1> HIDE DEF u
  <1>4. /\ Swap(s, i) \in Seq(Digits) /\ Len(Swap(s, i)) = n
        /\ LuhnSum(Swap(s, i)) =
             LuhnSum(u) + (Counted(n, i + 1, a) - Counted(n, i + 1, b))
        /\ Counted(n, i + 1, b) \in 0 .. 9 /\ Counted(n, i + 1, a) \in 0 .. 9
    BY <1>1, <1>2, <1>3, LuhnDigit
  <1>5. (n - i + 1) % 2 = 0 <=> ~ ((n - (i + 1) + 1) % 2 = 0)
    BY <1>1, SMT
  <1>6. a \in Int /\ b \in Int /\ Doubled(a) \in Int /\ Doubled(b) \in Int
    <2>1. Doubled(a) \in 0 .. 9 /\ Doubled(b) \in 0 .. 9 /\ a \in 0 .. 9 /\ b \in 0 .. 9
      BY <1>1, Doubling DEF Digits
    <2> HIDE DEF a, b
    <2> QED BY <2>1, SMT
  <1>7. CASE (n - i + 1) % 2 = 0
    <2>1. /\ Counted(n, i, a) = Doubled(a) /\ Counted(n, i, b) = Doubled(b)
          /\ Counted(n, i + 1, a) = a /\ Counted(n, i + 1, b) = b
      BY <1>5, <1>7 DEF Counted
    <2>2. LuhnSum(Swap(s, i)) = LuhnSum(s) + ((Doubled(b) - b) - (Doubled(a) - a))
      <3> HIDE DEF a, b, n
      <3> QED BY <1>3, <1>4, <1>6, <2>1, SMT
    <2> QED BY <1>1, <1>3, <1>4, <2>2
  <1>8. CASE ~ ((n - i + 1) % 2 = 0)
    <2>1. /\ Counted(n, i, a) = a /\ Counted(n, i, b) = b
          /\ Counted(n, i + 1, a) = Doubled(a) /\ Counted(n, i + 1, b) = Doubled(b)
      BY <1>5, <1>8 DEF Counted
    <2>2. LuhnSum(Swap(s, i)) = LuhnSum(s) - ((Doubled(b) - b) - (Doubled(a) - a))
      <3> HIDE DEF a, b, n
      <3> QED BY <1>3, <1>4, <1>6, <2>1, SMT
    <2> QED BY <1>1, <1>3, <1>4, <2>2
  <1> QED BY <1>7, <1>8

(* Neighbours that are exchanged unnoticed are equal or 0 and 9.           *)
LEMMA LuhnTransposition ==
  ASSUME NEW s \in Seq(Alphabet), NEW i \in 1 .. Len(s) - 1,
         verifyLuhn(s), verifyLuhn(Swap(s, i))
  PROVE  s[i] = s[i + 1] \/ Blind("luhn", s[i], s[i + 1])
  <1> DEFINE a == s[i]
             b == s[i + 1]
             p == Doubled(a) - a
             q == Doubled(b) - b
             e == q - p
  <1>1. s \in Seq(Digits)
    <2>1. \A k \in 1 .. Len(s) : s[k] \in Digits
      BY DEF verifyLuhn, AllDigits
    <2> QED BY <2>1, SMT
  <1>2. /\ LuhnSum(s) \in Int /\ a \in Digits /\ b \in Digits
        /\ \/ LuhnSum(Swap(s, i)) = LuhnSum(s) + e
           \/ LuhnSum(Swap(s, i)) = LuhnSum(s) - e
    BY <1>1, LuhnSwap
  <1>3. LuhnSum(s) % 10 = 0 /\ LuhnSum(Swap(s, i)) % 10 = 0
    BY DEF verifyLuhn
  <1> HIDE DEF a, b
  <1>4. p \in -4 .. 4 /\ q \in -4 .. 4
    <2>1. \A d \in Digits : Doubled(d) - d \in -4 .. 4
      BY SMT DEF Doubled, Digits
    <2> QED BY <1>2, <2>1
  <1> HIDE DEF p, q
  <1>5. e \in -9 .. 9
    BY <1>4, SMT
  <1>6. \A S \in Int : \A x \in -9 .. 9 :
          S % 10 = 0 /\ ((S + x) % 10 = 0 \/ (S - x) % 10 = 0) => x = 0
    BY SMT
  <1>7. e = 0
    <2> HIDE DEF e
    <2> QED BY <1>2, <1>3, <1>5, <1>6
  <1>8. p = q
    BY <1>4, <1>7, SMT
  <1>9. a = b \/ {a, b} = {0, 9}
    BY <1>2, <1>8, Doubling DEF p, q
  <1> QED BY <1>9 DEF Blind, a, b

(* The transpositions it is blind to do pass.                              *)
LEMMA LuhnBlind ==
  ASSUME NEW s \in Seq(Alphabet), NEW i \in 1 .. Len(s) - 1,
         verifyLuhn(s), Blind("luhn", s[i], s[i + 1])
  PROVE  verifyLuhn(Swap(s, i))
  <1>1. s \in Seq(Digits) /\ Len(s) >= 2
    <2>1. \A k \in 1 .. Len(s) : s[k] \in Digits
      BY DEF verifyLuhn, AllDigits
    <2> QED BY <2>1, SMT DEF verifyLuhn
  <1>2. (s[i] = 0 /\ s[i + 1] = 9) \/ (s[i] = 9 /\ s[i + 1] = 0)
    <2>1. {s[i], s[i + 1]} = {0, 9}
      BY DEF Blind
    <2> QED BY <2>1
  <1>3. Doubled(s[i + 1]) - s[i + 1] = 0 /\ Doubled(s[i]) - s[i] = 0
    BY <1>2, Doubling, SMT
  <1>4. /\ LuhnSum(s) \in Int /\ Swap(s, i) \in Seq(Digits) /\ Len(Swap(s, i)) = Len(s)
        /\ \/ LuhnSum(Swap(s, i)) = LuhnSum(s) + (0 - 0)
           \/ LuhnSum(Swap(s, i)) = LuhnSum(s) - (0 - 0)
    BY <1>1, <1>3, LuhnSwap
  <1>5. LuhnSum(Swap(s, i)) = LuhnSum(s)
    BY <1>4, SMT
  <1>6. \A k \in 1 .. Len(Swap(s, i)) : Swap(s, i)[k] \in Digits
    BY <1>4, SMT
  <1> QED BY <1>1, <1>4, <1>5, <1>6 DEF verifyLuhn, AllDigits
-----------------------------------------------------------------------------
(* A string of a given length is a function on its positions.              *)
LEMMA Characters ==
  ASSUME NEW s \in Seq(Alphabet), NEW n \in Nat, Len(s) = n
  PROVE  s \in [1 .. n -> Int] /\ DOMAIN s = 1 .. n
  <1>1. s \in [1 .. n -> Alphabet] /\ DOMAIN s = 1 .. n
    BY SMT
  <1>2. Alphabet \subseteq Int
    BY SMT DEF Alphabet
  <1> QED BY <1>1, <1>2

(* Every algorithm of verifyCheckDigit refuses an identifier with one      *)
(* character mistyped, wherever it is and whatever it was taken for.       *)
THEOREM SubstitutionsAreReported ==
  ASSUME NEW algorithm \in Algorithms, NEW s \in Seq(Alphabet),
         verifyCheckDigit(algorithm, s), NEW t \in Substitutions(s)
  PROVE  ~ verifyCheckDigit(algorithm, t)
  <1>1. PICK i \in DOMAIN s, c \in Alphabet : t = Put(s, i, c) /\ t # s
    BY DEF Substitutions, Put
  <1>2. c # s[i] /\ c \in Int
    <2>1. c # s[i]
      BY <1>1, SMT DEF Put
    <2> QED BY <2>1, SMT DEF Alphabet
  <1>3. CASE algorithm = "orcid"
    <2>1. verifyOrcid(s) /\ Len(s) = 16
      BY <1>3 DEF verifyCheckDigit, verifyOrcid
    <2>2. s \in [1 .. 16 -> Int] /\ DOMAIN s = 1 .. 16
      BY <2>1, Characters, 16 \in Nat
    <2>3. ~ verifyOrcid(Put(s, i, c))
      BY <1>2, <2>1, <2>2, OrcidSubstitution
    <2> QED BY <1>1, <1>3, <2>3 DEF verifyCheckDigit
  <1>4. CASE algorithm = "issn"
    <2>1. verifyISSN(s) /\ Len(s) = 8
      BY <1>4 DEF verifyCheckDigit, verifyISSN
    <2>2. s \in [1 .. 8 -> Int] /\ DOMAIN s = 1 .. 8
      BY <2>1, Characters, 8 \in Nat
    <2>3. ~ verifyISSN(Put(s, i, c))
      BY <1>2, <2>1, <2>2, IssnSubstitution
    <2> QED BY <1>1, <1>4, <2>3 DEF verifyCheckDigit
  <1>5. CASE algorithm = "isbn10"
    <2>1. verifyISBN10(s) /\ Len(s) = 10
      BY <1>5 DEF verifyCheckDigit, verifyISBN10
    <2>2. s \in [1 .. 10 -> Int] /\ DOMAIN s = 1 .. 10
      BY <2>1, Characters, 10 \in Nat
    <2>3. ~ verifyISBN10(Put(s, i, c))
      BY <1>2, <2>1, <2>2, Isbn10Substitution
    <2> QED BY <1>1, <1>5, <2>3 DEF verifyCheckDigit
  <1>6. CASE algorithm = "isbn13"
    <2>1. verifyISBN13(s) /\ Len(s) = 13
      BY <1>6 DEF verifyCheckDigit, verifyISBN13
    <2>2. s \in [1 .. 13 -> Int] /\ DOMAIN s = 1 .. 13
      BY <2>1, Characters, 13 \in Nat
    <2>3. ~ verifyISBN13(Put(s, i, c))
      BY <1>2, <2>1, <2>2, Isbn13Substitution
    <2> QED BY <1>1, <1>6, <2>3 DEF verifyCheckDigit
  <1>7. CASE algorithm = "rorid"
    <2>1. verifyRORID(s) /\ Len(s) = 9
      BY <1>7 DEF verifyCheckDigit, verifyRORID
    <2>2. s \in [1 .. 9 -> Int] /\ DOMAIN s = 1 .. 9
      BY <2>1, Characters, 9 \in Nat
    <2>3. ~ verifyRORID(Put(s, i, c))
      BY <1>2, <2>1, <2>2, RorSubstitution
    <2> QED BY <1>1, <1>7, <2>3 DEF verifyCheckDigit
  <1>8. CASE algorithm = "luhn"
    <2>1. verifyLuhn(s) /\ i \in 1 .. Len(s)
      BY <1>1, <1>8, SMT DEF verifyCheckDigit
    <2>2. ~ verifyLuhn(Put(s, i, c))
      BY <1>2, <2>1, LuhnSubstitution
    <2> QED BY <1>1, <1>8, <2>2 DEF verifyCheckDigit
  <1> QED BY <1>3, <1>4, <1>5, <1>6, <1>7, <1>8 DEF Algorithms

(* They refuse an identifier with two neighbouring characters exchanged,   *)
(* but for those that ISBN-13's weights 1 and 3 and Luhn's doubling of 0   *)
(* and 9 cannot tell.                                                      *)
THEOREM TranspositionsAreReported ==
  ASSUME NEW algorithm \in Algorithms, NEW s \in Seq(Alphabet),
         verifyCheckDigit(algorithm, s),
         NEW t \in Transpositions(s) \ Unseen(algorithm, s)
  PROVE  ~ verifyCheckDigit(algorithm, t)
  <1>1. PICK i \in 1 .. Len(s) - 1 : t = Swap(s, i) /\ t # s
    BY DEF Transpositions, Swap
  <1>2. s[i] # s[i + 1]
    BY <1>1, SMT DEF Swap
  <1>3. ~ Blind(algorithm, s[i], s[i + 1])
    BY <1>1 DEF Unseen, Swap
  <1>4. CASE algorithm = "orcid"
    <2>1. verifyOrcid(s) /\ Len(s) = 16
      BY <1>4 DEF verifyCheckDigit, verifyOrcid
    <2>2. s \in [1 .. 16 -> Int] /\ i \in 1 .. 15
      BY <1>1, <2>1, Characters, 16 \in Nat, 16 - 1 = 15
    <2>3. ~ verifyOrcid(Swap(s, i))
      BY <1>2, <2>1, <2>2, OrcidTransposition
    <2> QED BY <1>1, <1>4, <2>3 DEF verifyCheckDigit
  <1>5. CASE algorithm = "issn"
    <2>1. verifyISSN(s) /\ Len(s) = 8
      BY <1>5 DEF verifyCheckDigit, verifyISSN
    <2>2. s \in [1 .. 8 -> Int] /\ i \in 1 .. 7
      BY <1>1, <2>1, Characters, 8 \in Nat, 8 - 1 = 7
    <2>3. ~ verifyISSN(Swap(s, i))
      BY <1>2, <2>1, <2>2, IssnTransposition
    <2> QED BY <1>1, <1>5, <2>3 DEF verifyCheckDigit
  <1>6. CASE algorithm = "isbn10"
    <2>1. verifyISBN10(s) /\ Len(s) = 10
      BY <1>6 DEF verifyCheckDigit, verifyISBN10
    <2>2. s \in [1 .. 10 -> Int] /\ i \in 1 .. 9
      BY <1>1, <2>1, Characters, 10 \in Nat, 10 - 1 = 9
    <2>3. ~ verifyISBN10(Swap(s, i))
      BY <1>2, <2>1, <2>2, Isbn10Transposition
    <2> QED BY <1>1, <1>6, <2>3 DEF verifyCheckDigit
  <1>7. CASE algorithm = "isbn13"
    <2>1. verifyISBN13(s) /\ Len(s) = 13
      BY <1>7 DEF verifyCheckDigit, verifyISBN13
    <2>2. s \in [1 .. 13 -> Int] /\ i \in 1 .. 12
      BY <1>1, <2>1, Characters, 13 \in Nat, 13 - 1 = 12
    <2>3. ~ verifyISBN13(Swap(s, i))
      BY <1>2, <1>3, <1>7, <2>1, <2>2, Isbn13Transposition
    <2> QED BY <1>1, <1>7, <2>3 DEF verifyCheckDigit
  <1>8. CASE algorithm = "rorid"
    <2>1. verifyRORID(s) /\ Len(s) = 9
      BY <1>8 DEF verifyCheckDigit, verifyRORID
    <2>2. s \in [1 .. 9 -> Int] /\ i \in 1 .. 8
      BY <1>1, <2>1, Characters, 9 \in Nat, 9 - 1 = 8
    <2>3. ~ verifyRORID(Swap(s, i))
      BY <1>2, <2>1, <2>2, RorTransposition
    <2> QED BY <1>1, <1>8, <2>3 DEF verifyCheckDigit
  <1>9. CASE algorithm = "luhn"
    <2>1. verifyLuhn(s)
      BY <1>9 DEF verifyCheckDigit
    <2>2. ~ verifyLuhn(Swap(s, i))
      BY <1>2, <1>3, <1>9, <2>1, LuhnTransposition
    <2> QED BY <1>1, <1>9, <2>2 DEF verifyCheckDigit
  <1> QED BY <1>4, <1>5, <1>6, <1>7, <1>8, <1>9 DEF Algorithms

(* Those exchanges pass: verifyISBN13 takes an ISBN-13 with two            *)
(* neighbouring digits that differ by 5 exchanged for a good one, and      *)
(* verifyLuhn a number with a 0 and a 9 exchanged, though                  *)
(* check_digit.go 14 promises transpositions without exception.            *)
THEOREM BlindTranspositionsPass ==
  ASSUME NEW algorithm \in Algorithms, NEW s \in Seq(Alphabet),
         verifyCheckDigit(algorithm, s), NEW t \in Unseen(algorithm, s)
  PROVE  verifyCheckDigit(algorithm, t)
  <1>1. PICK i \in 1 .. Len(s) - 1 : t = Swap(s, i) /\ Blind(algorithm, s[i], s[i + 1])
    BY DEF Unseen, Swap
  <1>2. CASE algorithm = "isbn13"
    <2>1. verifyISBN13(s) /\ Len(s) = 13
      BY <1>2 DEF verifyCheckDigit, verifyISBN13
    <2>2. s \in [1 .. 13 -> Int] /\ i \in 1 .. 12
      BY <1>1, <2>1, Characters, 13 \in Nat, 13 - 1 = 12
    <2>3. verifyISBN13(Swap(s, i))
      BY <1>1, <1>2, <2>1, <2>2, Isbn13Blind
    <2> QED BY <1>1, <1>2, <2>3 DEF verifyCheckDigit
  <1>3. CASE algorithm = "luhn"
    <2>1. verifyLuhn(s)
      BY <1>3 DEF verifyCheckDigit
    <2>2. verifyLuhn(Swap(s, i))
      BY <1>1, <1>3, <2>1, LuhnBlind
    <2> QED BY <1>1, <1>3, <2>2 DEF verifyCheckDigit
  <1> QED BY <1>1, <1>2, <1>3 DEF Blind
=============================================================================
