SPECIFICATION Spec
CONSTANTS
  c1 = c1
  c2 = c2
  a = a
  b = b
  book = book
  shelf = shelf
  badname = badname
  title = title
  size = size
  holder = holder
  None = None
  Error = Error
  NotFound = NotFound
  Missing = Missing
  Callers = {c1, c2}
  Ids = {a, b}
  Tables = {book, shelf}
  Versions <- AllVersions
  MaxChanges = 1
  SchemaTables = {book, shelf, badname}
  Columns = {title, size}
  Unsafe = {badname}
  Types = {"text", "varchar", "integer", "int64", "blob"}
  Relations = {holder}
  Shapes <- BookShapes
  Schemas <- AllSchemas
  MaxMigrations = 1
INVARIANTS TypeOK ListsAreVersions ListedIsFound ReportIsOneLook
PROPERTY KeptForGood
