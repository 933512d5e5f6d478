CONSTANTS
  Callers = {c1, c2, c3}
  Patterns = {good, bad}
  Valid = {good}
  None = None
  Error = Error
SPECIFICATION FairSpec
INVARIANTS
  TypeOK
  MapAccessExclusive
PROPERTIES
  Memoizes
  CallsReturn
