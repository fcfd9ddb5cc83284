SPECIFICATION MCSpec
CONSTANTS
  d1 = d1
  linking = linking
  second = p2
  Paths = {p1, p2}
  EntityFiles = {p1}
  Docs = {d1}
  IdOf <- MCIdOf
  Bodies = {Empty, linking}
  Empty = Empty
  LinksOf <- MCLinksOf
  Models = {m1}
  Builders = {b1, b2}
  Modes = {"schema", "crawl", "drop"}
  Embedders = {m1}
  Faults = TRUE
  None = None
  Garbled = Garbled
SYMMETRY Symmetry
INVARIANTS FreshIsLinked FreshIsSearchable
PROPERTIES BuildCoversAll ForcedCrawlReindexes
CHECK_DEADLOCK FALSE
