SPECIFICATION GraphSpec
CONSTANTS
  link = link
  ref = ref
  Ids = {1, 2, 3}
  EdgeTypes = {link, ref}
  Depths = {0, 2}
  InitialEdges <- MCInitialEdges
  MaxWrites = 2
INVARIANTS IndexesAgree NeighborsAreRight PathIsShortest ExportIsClosed
PROPERTIES RemovalIsComplete TraversalsEnd
