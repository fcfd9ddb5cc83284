--------------------------------- MODULE Graph ---------------------------------
(***************************************************************************)
(* The two graph stores and their traversals: the edges table of the        *)
(* knowledge graph database ("kg", pkg/sbdb/kg/graph.go) and the bbolt      *)
(* store ("bolt", pkg/sbdb/kg/graphstore/store.go).                         *)
(*                                                                          *)
(* A writer's call is one transaction.  A traversal is many: kg asks one    *)
(* query per level, bolt two transactions per node, exports read nodes and  *)
(* edges apart; writers may commit in between.                              *)
(***************************************************************************)
EXTENDS Reach, SequencesExt

CONSTANTS
  Ids,           \* document ids: naturals, ordered as bbolt orders their keys
  EdgeTypes,     \* link, ref
  Depths,        \* the depths Neighbors is called with
  InitialEdges,  \* the graphs to start from
  MaxWrites      \* bound: transactions committed beside a traversal

Edges == [source : Ids, target : Ids, type : EdgeTypes]
Pairs == Ids \X Ids

ASSUME GraphAssumption ==
  /\ Ids \subseteq Nat /\ IsFiniteSet(Ids) /\ IsFiniteSet(EdgeTypes)
  /\ Depths \subseteq Nat
  /\ InitialEdges \subseteq SUBSET Edges /\ MaxWrites \in Nat

VARIABLES
  store,      \* "kg" or "bolt" (never changes)
  vertices,   \* the nodes table, or the vertices bucket
  edges,      \* the edges table, or the edges bucket
  outIdx,     \* bolt: the source:target keys of the outgoing index
  inIdx,      \* bolt: the target:source keys of the incoming index
  read,       \* the traversal in progress
  writes      \* counter, for the bound

graphVars == <<store, vertices, edges, outIdx, inIdx, read, writes>>
graphState == <<store, vertices, edges, outIdx, inIdx>>

\* A traversal; at = "done" once it has its result.
\* History: steady are the edges that were there all along, ever those that were
\* there at some moment of it.
NoRead == [kind |-> "none"]
Neighborhoods ==
  [kind : {"neighbors"}, at : {"level", "out", "in", "done"}, start : Ids,
   depth : Nat, hops : Nat, visited : SUBSET Ids, frontier : SUBSET Ids,
   node : Ids, next : SUBSET Ids, found : SUBSET Edges, steady : SUBSET Edges, ever : SUBSET Edges]
PathSearches ==
  [kind : {"path"}, at : {"search", "done"}, start : Ids, goal : Ids,
   visited : SUBSET Ids, queue : Seq(Seq(Ids)), path : Seq(Ids),
   steady : SUBSET Edges, ever : SUBSET Edges]
Exports ==
  [kind : {"export"}, at : {"nodes", "edges", "done"}, copies : [Ids -> Nat],
   found : SUBSET Edges, steady : SUBSET Edges, ever : SUBSET Edges]

Flip(ps) == {<<p[2], p[1]>> : p \in ps}

GraphInit ==
  /\ store \in {"kg", "bolt"}
  /\ edges \in InitialEdges
  /\ vertices = {e.source : e \in edges}
  /\ \A e, f \in edges : store = "bolt" /\ e # f => <<e.source, e.target>> # <<f.source, f.target>>
  /\ outIdx = IF store = "bolt" THEN Hops(edges) ELSE {}
  /\ inIdx = Flip(outIdx)
  /\ read = NoRead
  /\ writes = 0

-----------------------------------------------------------------------------
(***************************************************************************)
(* The writers.                                                             *)
(***************************************************************************)

\* A transaction commits; the traversal in progress will see the new graph.
Commit(vs, es, out, in) ==
  /\ writes < MaxWrites
  /\ writes' = writes + 1
  /\ vertices' = vs /\ edges' = es /\ outIdx' = out /\ inIdx' = in
  /\ read' = IF read = NoRead \/ read.at = "done" THEN read
             ELSE [read EXCEPT !.steady = @ \cap es, !.ever = @ \cup es]
  /\ UNCHANGED store

\* UpsertNode, PutVertex.
PutVertex(id) == Commit(vertices \cup {id}, edges, outIdx, inIdx)

\* AddEdge is unique in source, target and type, PutEdge in source and target.
PutEdge(e) ==
  IF store = "kg"
    THEN Commit(vertices, edges \cup {e}, outIdx, inIdx)
    ELSE Commit(vertices,
                {f \in edges : f.source # e.source \/ f.target # e.target} \cup {e},
                outIdx \cup {<<e.source, e.target>>}, inIdx \cup {<<e.target, e.source>>})

OutOf(id) == {t \in Ids : <<id, t>> \in outIdx}

\* Mutation of RemoveEdgesFrom: the incoming index is left alone.
RemoveEdgesFromOut(id) ==
  Commit(vertices, {e \in edges : e.source # id},
         {p \in outIdx : p[1] # id}, inIdx)

\* RemoveEdgesForDoc, RemoveEdgesFrom.
RemoveEdgesFrom(id) ==
  LET gone == IF store = "kg" THEN {e \in edges : e.source = id}
              ELSE {e \in edges : e.source = id /\ e.target \in OutOf(id)} IN
  Commit(vertices, edges \ gone,
         {p \in outIdx : p[1] # id},
         {p \in inIdx : ~(p[2] = id /\ p[1] \in OutOf(id))})

\* The incoming keys that RemoveVertex's second loop deletes: if the first loop
\* has already changed that bucket, each deletion moves the keys up under the
\* cursor, which then passes over the next one.
Swept(id, sources) ==
  IF OutOf(id) = {} THEN sources
  ELSE {s \in sources : Cardinality({t \in sources : t <= s}) % 2 = 1}

\* RemoveNode commits whichever of its DELETEs failed, and reports success.
RemoveNode(id, failed) ==
  /\ store = "kg"
  /\ Commit(IF "nodes" \in failed THEN vertices ELSE vertices \ {id},
            IF "edges" \in failed THEN edges
              ELSE {e \in edges : id \notin {e.source, e.target}},
            outIdx, inIdx)

\* Mutation of RemoveVertex: the second loop is forgotten.
RemoveVertexOut(id) ==
  LET gone == {id} \X OutOf(id) IN
  /\ store = "bolt"
  /\ Commit(vertices \ {id}, {e \in edges : <<e.source, e.target>> \notin gone},
            outIdx \ gone, inIdx \ Flip(gone))

\* RemoveVertex loops over the outgoing index and then the incoming one.
RemoveVertex(id) ==
  LET outs    == OutOf(id)
      sources == {s \in Ids : <<id, s>> \in inIdx} \ (IF id \in outs THEN {id} ELSE {})
      swept   == Swept(id, sources)
      gone    == ({id} \X outs) \cup (swept \X {id}) IN
  /\ store = "bolt"
  /\ Commit(vertices \ {id}, {e \in edges : <<e.source, e.target>> \notin gone},
            outIdx \ gone, inIdx \ Flip(gone))

\* Drop.
Drop == Commit({}, {}, {}, {})

Write == \/ \E id \in Ids : PutVertex(id) \/ RemoveEdgesFrom(id) \/ RemoveVertex(id)
         \/ \E id \in Ids, failed \in SUBSET {"nodes", "edges"} : RemoveNode(id, failed)
         \/ \E e \in Edges : PutEdge(e)
         \/ Drop

-----------------------------------------------------------------------------
(***************************************************************************)
(* The traversals.                                                          *)
(***************************************************************************)

Begin(r) == read = NoRead /\ read' = r /\ UNCHANGED <<graphState, writes>>
Go(r) == read' = r /\ UNCHANGED <<graphState, writes>>
At(stage) == read # NoRead /\ read.at = stage

\* bolt: an index entry whose edge is missing is passed over.
Outgoing(id) == {e \in edges : e.source = id /\ <<id, e.target>> \in outIdx}
Incoming(id) == {e \in edges : e.target = id /\ <<id, e.source>> \in inIdx}

\* A depth below 1 counts as 1.
StartNeighbors(id, depth) ==
  LET d == IF depth < 1 THEN 1 ELSE depth IN
  Begin([kind |-> "neighbors", at |-> IF store = "kg" THEN "level" ELSE "out",
         start |-> id, depth |-> d, hops |-> 0, visited |-> {id}, frontier |-> {id},
         node |-> id, next |-> {}, found |-> {}, steady |-> edges, ever |-> edges])

\* The end of a level: stop at the depth, or when there is no next frontier.
LevelDone(r) ==
  [r EXCEPT !.hops = @ + 1, !.frontier = r.next, !.next = {},
            !.at = IF r.hops + 1 = r.depth \/ r.next = {} THEN "done"
                   ELSE IF store = "kg" THEN "level" ELSE "out"]

\* The edges es have been read, leading to the nodes ns.
Meet(r, es, ns) ==
  [r EXCEPT !.found = @ \cup es, !.next = @ \cup (ns \ r.visited),
            !.visited = @ \cup ns]

\* kg Neighbors: one query for the whole frontier.
QueryLevel ==
  LET es == Touching(edges, read.frontier) IN
  /\ At("level")
  /\ Go(LevelDone(Meet(read, es, {e.source : e \in es} \cup {e.target : e \in es})))

\* bolt Neighbors: the outgoing edges of a frontier node, ...
FollowOut ==
  /\ At("out")
  /\ \E id \in read.frontier :
       LET es == Outgoing(id) IN
       Go([Meet(read, es, {e.target : e \in es}) EXCEPT !.at = "in", !.node = id])

\* Mutation of FollowIn: a node's incoming edges are reported, not followed.
FollowInReported ==
  /\ At("in")
  /\ LET r == [Meet(read, Incoming(read.node), {})
                 EXCEPT !.at = "out", !.frontier = @ \ {read.node}]
     IN Go(IF r.frontier = {} THEN LevelDone(r) ELSE r)

\* ... then its incoming ones.
FollowIn ==
  /\ At("in")
  /\ LET es == Incoming(read.node)
         r  == [Meet(read, es, {e.source : e \in es})
                  EXCEPT !.at = "out", !.frontier = @ \ {read.node}]
     IN Go(IF r.frontier = {} THEN LevelDone(r) ELSE r)

\* ShortestPath (bolt only); a path to oneself is found at once.
StartPath(from, to) ==
  /\ store = "bolt"
  /\ Begin([kind |-> "path", at |-> IF from = to THEN "done" ELSE "search",
            start |-> from, goal |-> to, visited |-> {from}, queue |-> <<<<from>>>>,
            path |-> IF from = to THEN <<from>> ELSE <<>>,
            steady |-> edges, ever |-> edges])

\* The elements of S, in ascending order.
InOrder(S) ==
  CHOOSE s \in [1..Cardinality(S) -> S] :
    \A i, j \in 1..Cardinality(S) : i < j => s[i] < s[j]

\* Mutations of NextHop: edges are followed against their direction; a path that
\* leads nowhere new stays in the queue.
NextHopBackwards ==
  /\ At("search")
  /\ IF read.queue = <<>> THEN Go([read EXCEPT !.at = "done"])
     ELSE LET p    == Head(read.queue)
              outs == {e.source : e \in Incoming(Last(p))}
              new  == InOrder(outs \ read.visited)
          IN IF read.goal \in outs
               THEN Go([read EXCEPT !.at = "done", !.path = Append(p, read.goal)])
               ELSE Go([read EXCEPT !.visited = @ \cup outs,
                          !.queue = Tail(@) \o [i \in DOMAIN new |-> Append(p, new[i])]])
NextHopStuck ==
  /\ At("search")
  /\ IF read.queue = <<>> THEN Go([read EXCEPT !.at = "done"])
     ELSE LET p    == Head(read.queue)
              outs == {e.target : e \in Outgoing(Last(p))}
              new  == InOrder(outs \ read.visited)
          IN IF read.goal \in outs
               THEN Go([read EXCEPT !.at = "done", !.path = Append(p, read.goal)])
               ELSE Go([read EXCEPT !.visited = @ \cup outs,
                          !.queue = IF new = <<>> THEN @
                                    ELSE Tail(@) \o [i \in DOMAIN new |-> Append(p, new[i])]])

\* The first queued path is extended by the edges of its last node.
NextHop ==
  /\ At("search")
  /\ IF read.queue = <<>> THEN Go([read EXCEPT !.at = "done"])
     ELSE LET p    == Head(read.queue)
              outs == {e.target : e \in Outgoing(Last(p))}
              new  == InOrder(outs \ read.visited)
          IN IF read.goal \in outs
               THEN Go([read EXCEPT !.at = "done", !.path = Append(p, read.goal)])
               ELSE Go([read EXCEPT !.visited = @ \cup outs,
                          !.queue = Tail(@) \o [i \in DOMAIN new |-> Append(p, new[i])]])

\* ExportJSON, ExportGraphJSON: AllNodes, ...
StartExport ==
  Begin([kind |-> "export", at |-> "nodes", copies |-> [i \in Ids |-> 0],
         found |-> {}, steady |-> edges, ever |-> edges])
ExportNodes ==
  /\ At("nodes")
  /\ Go([read EXCEPT !.at = "edges",
                     !.copies = [i \in Ids |-> IF i \in vertices THEN 1 ELSE 0]])

\* Mutation of Placeholders: made for the sources, not the targets.
PlaceholdersOfSources(id) == IF \E e \in edges : e.source = id THEN 1 ELSE 0

\* Missing targets become placeholder nodes: bolt remembers those it has made,
\* kg makes one per edge.
Placeholders(id) ==
  LET to == {e \in edges : e.target = id} IN
  IF store = "kg" THEN Cardinality(to) ELSE IF to = {} THEN 0 ELSE 1

\* ... then AllEdges.
ExportEdges ==
  /\ At("edges")
  /\ Go([read EXCEPT !.at = "done", !.found = edges,
                     !.copies = [i \in Ids |-> IF @[i] = 0 THEN Placeholders(i) ELSE @[i]]])

Return == At("done") /\ Go(NoRead)

Read == \/ \E id \in Ids, depth \in Depths : StartNeighbors(id, depth)
        \/ \E from, to \in Ids : StartPath(from, to)
        \/ StartExport
        \/ QueryLevel \/ FollowOut \/ FollowIn \/ NextHop
        \/ ExportNodes \/ ExportEdges \/ Return

GraphNext == Write \/ Read
GraphSpec == GraphInit /\ [][GraphNext]_graphVars /\ WF_graphVars(Read)

-----------------------------------------------------------------------------

\* Every variable of the graph stores holds what the code can put there, and a
\* Neighbors in progress has a frontier.
GraphTypeOK ==
  /\ store \in {"kg", "bolt"}
  /\ vertices \subseteq Ids /\ edges \subseteq Edges
  /\ outIdx \subseteq Pairs /\ inIdx \subseteq Pairs
  /\ read \in Neighborhoods \cup PathSearches \cup Exports \cup {NoRead}
  /\ writes \in 0..MaxWrites
  /\ (At("level") \/ At("out") \/ At("in")) => read.frontier # {}

\* The bbolt store keeps each edge in three buckets.  After any sequence of
\* transactions, whichever edges RemoveVertex leaves, both indexes name exactly
\* the edges there are, and between two nodes there is one edge at most.
IndexesAgree ==
  store = "bolt" =>
    /\ outIdx = Hops(edges) /\ inIdx = Flip(outIdx)
    /\ \A e, f \in edges : e.source = f.source /\ e.target = f.target => e = f

\* RemoveVertex, which finds a vertex's edges by the two indexes, leaves none in the
\* edge bucket, whatever transactions filled them; but for edges into a vertex that
\* had an outgoing edge and at least two incoming ones (a deleted key moves the
\* cursor).
RemovalIsComplete ==
  [][\A id \in Ids : RemoveVertex(id) =>
       /\ \A e \in edges' : e.source # id
       /\ (\E e \in edges' : e.target = id) =>
            /\ OutOf(id) # {}
            /\ Cardinality({e \in edges : e.target = id /\ e.source # id}) > 1
    ]_graphVars

\* Neighbors returns every edge within its depth that was there throughout, and
\* no edge that was not within it at some moment; undisturbed, that is exactly
\* the edges within the depth, whatever order the nodes come in.
NeighborsAreRight ==
  (read.kind = "neighbors" /\ At("done")) =>
    /\ EdgesWithin(read.steady, read.start, read.depth) \subseteq read.found
    /\ read.found \subseteq EdgesWithin(read.ever, read.start, read.depth)

\* ShortestPath returns a path of edges that existed, no longer than any path that
\* was there throughout, and nil only if there was no such path.
PathIsShortest ==
  (read.kind = "path" /\ At("done")) =>
    LET N == Cardinality(Ids)
        d == Distance(read.steady, read.start, read.goal, N) IN
    IF read.path = <<>> THEN d = N
    ELSE /\ read.path[1] = read.start /\ Last(read.path) = read.goal
         /\ \A i \in 1..(Len(read.path) - 1) :
              <<read.path[i], read.path[i + 1]>> \in Hops(read.ever)
         /\ d < N => Len(read.path) <= d + 1

\* The target of every exported edge is an exported node, whatever is committed
\* between the two reads; only the kg export lists a node more than once, a missing
\* target once for each edge to it.
ExportIsClosed ==
  (read.kind = "export" /\ At("done")) =>
    /\ \A e \in read.found : read.copies[e.target] > 0
    /\ \A id \in Ids : read.copies[id] > 1 =>
         /\ store = "kg"
         /\ read.copies[id] = Cardinality({e \in read.found : e.target = id})

\* Every traversal ends, on any graph, cycles included, while writers go on.
TraversalsEnd == (read # NoRead) ~> (read = NoRead)
=============================================================================
