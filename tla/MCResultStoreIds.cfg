CONSTANTS
  Tokens <- Words
  Reports <- OneTable
  Seconds <- FourSeconds
  BatchSize = 2
  Clears = {TRUE}
  MaxFaults = 0
SPECIFICATION Spec
INVARIANT UniqueIds
