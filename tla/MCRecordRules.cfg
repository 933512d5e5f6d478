SPECIFICATION Spec
CONSTANTS
  t1 = t1
  t2 = t2
  n1 = n1
  r1 = r1
  NULL = NULL
  NaN = NaN
  OwnRecord = OwnRecord
  Absent = Absent
  NoName = NoName
  NoBound = NoBound
  CurrentYear = 2026
  Records <- AllRecords
  TableOf <- Tables
  Setups <- AllSetups
INVARIANTS TypeOK GatesAreExplained VerdictsHaveWitness FailureIsExplained TyposAreReported
