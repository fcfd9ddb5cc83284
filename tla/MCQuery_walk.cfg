SPECIFICATION Spec
CONSTANTS
  Docs <- MCDocs
  Versions <- MCVersions
  NoFile = NoFile
  Garbled = Garbled
  Unfilled = Unfilled
  Workers = {w1, w2}
  Queries <- MCQueries
  MaxEdits = 1
INVARIANTS EachPathOnce PageIsRight SteadyDocsAreListed ErrorsHaveCause
PROPERTY QueryEnds
CHECK_DEADLOCK FALSE
