CONSTANTS
  Tokens <- Words
  Reports <- TwoTables
  Seconds <- FourSeconds
  BatchSize = 2
  Clears = {TRUE, FALSE}
  MaxFaults = 2
SPECIFICATION Spec
INVARIANTS
  TypeOK
  SuccessIsComplete
  WholeBatches
  NoLeftovers
PROPERTIES
  OthersUntouched
  EventuallyStored
