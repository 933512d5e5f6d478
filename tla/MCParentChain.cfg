CONSTANTS
  t1 = t1
  t2 = t2
  t3 = t3
  genusName = genusName
  speciesName = speciesName
  foreignName = foreignName
  genus = genus
  species = species
  botanical = botanical
  zoological = zoological
  Taxa = {t1, t2, t3}
  Self = t1
  NameIds = {genusName, speciesName, foreignName}
  Names <- ThreeNames
  Ranks = {genus, species}
  Codes = {botanical, zoological}
  RankOrder <- Order
  NULL = NULL
  EMPTY = EMPTY
  Absent = Absent
  RuleSet <- EightRules
  MaxWrites = 1
SPECIFICATION Spec
INVARIANTS
  TypeOK
  CyclesAreReported
  AncestorIsFound
  NearestAncestorDecides
  RanksExcludeCycles
  RankVerdictOfOneTree
PROPERTIES
  WalkEnds
