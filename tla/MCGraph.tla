-------------------------------- MODULE MCGraph --------------------------------
(* Instances of Graph: the graphs made of some of these links. *)
EXTENDS Graph
CONSTANTS link, ref

Link(s, t) == [source |-> s, target |-> t, type |-> link]
MCInitialEdges == SUBSET {Link(1, 2), Link(2, 3), Link(3, 2)}
=============================================================================
