CONSTANTS
  r1 = r1
  r2 = r2
  r3 = r3
  book = book
  shelf = shelf
  name = name
  place = place
  NULL = NULL
  EMPTY = EMPTY
  Absent = Absent
  NoBound = NoBound
  NoRecord = NoRecord
  Records = {r1, r2}
  Tables = {book, shelf}
  TableOf <- ShelfAndBooks
  Columns = {name, place}
  Values = {"a"}
  Rules <- CrossTable
  Writers = {w1, w2}
  MaxWrites = 2
  MaxFailures = 0
SPECIFICATION Spec
PROPERTY NeighborhoodsComplete
