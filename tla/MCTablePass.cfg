CONSTANTS
  r1 = r1
  r2 = r2
  r3 = r3
  book = book
  name = name
  NULL = NULL
  EMPTY = EMPTY
  Absent = Absent
  NoBound = NoBound
  Records = {r1, r2, r3}
  Tables = {book}
  TableOf <- OneTable
  Columns = {name}
  Values = {"a"}
  Rules <- FourRules
  Table = book
  RuleLabels <- FourLabels
  Setups <- AllSetups
  MaxWrites = 2
  MaxFaults = 1
SPECIFICATION Spec
INVARIANTS
  TypeOK
  ReportAddsUp
  QuietPassIsExact
  StandingDuplicatesReported
  DuplicateHasWitness
  FailureIsExplained
PROPERTY PassEnds
