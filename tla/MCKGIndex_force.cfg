SPECIFICATION Spec
CONSTANTS
  d1 = d1
  linking = linking
  second = p1
  Paths = {p1}
  EntityFiles = {p1}
  Docs = {d1}
  IdOf <- MCIdOf
  Bodies = {Empty, linking}
  Empty = Empty
  LinksOf <- MCLinksOf
  Models = {m1}
  Builders = {b1}
  Modes = {"schema"}
  Embedders = {None}
  Faults = FALSE
  None = None
  Garbled = Garbled
PROPERTIES ForceReindexes
CHECK_DEADLOCK FALSE
