CONSTANTS
  r1 = r1
  r2 = r2
  r3 = r3
  book = book
  shelf = shelf
  name = name
  place = place
  NULL = NULL
  EMPTY = EMPTY
  Absent = Absent
  NoBound = NoBound
  NoRecord = NoRecord
  Records = {r1, r2}
  Tables = {book, shelf}
  TableOf <- OneTable
  Columns = {name}
  Values = {"a"}
  Rules <- MixedRules
  Writers = {w1, w2}
  MaxWrites = 2
  MaxFailures = 1
SPECIFICATION FairSpec
PROPERTY EventuallyFresh
