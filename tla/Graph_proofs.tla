------------------------------ MODULE Graph_proofs ------------------------------
(***************************************************************************)
(* The graph stores for every set of documents and edge types, any sequence  *)
(* of transactions and any traversal beside them: the indexes of the bbolt   *)
(* store always name the edges there are, RemoveVertex can leave little, and *)
(* Neighbors, ShortestPath and the exports return what they should.          *)
(***************************************************************************)
EXTENDS Graph, FiniteSetTheorems, SequenceTheorems, WellFoundedInduction, TLAPS

\* What IndexesAgree says, pair by pair.
Agree(es, out, in) ==
  /\ es \subseteq Edges /\ out \subseteq Pairs /\ in \subseteq Pairs
  /\ \A a, b \in Ids : <<a, b>> \in out <=> \E e \in es : e.source = a /\ e.target = b
  /\ \A a, b \in Ids : <<b, a>> \in in <=> <<a, b>> \in out
  /\ \A e, f \in es : e.source = f.source /\ e.target = f.target => e = f

\* The inductive invariant.
IndexInv == edges \subseteq Edges /\ (store = "bolt" => Agree(edges, outIdx, inIdx))

-----------------------------------------------------------------------------

\* Turning round the pairs of a set.
LEMMA Flipped ==
  ASSUME NEW ps \in SUBSET Pairs, NEW a \in Ids, NEW b \in Ids
  PROVE  <<b, a>> \in Flip(ps) <=> <<a, b>> \in ps
<1>1. ASSUME <<b, a>> \in Flip(ps) PROVE <<a, b>> \in ps
  <2>1. PICK p \in ps : <<b, a>> = <<p[2], p[1]>>
    BY <1>1 DEF Flip
  <2>2. p = <<p[1], p[2]>>
    BY <2>1 DEF Pairs
  <2>. QED
    BY <2>1, <2>2
<1>2. ASSUME <<a, b>> \in ps PROVE <<b, a>> \in Flip(ps)
  BY <1>2 DEF Flip
<1>. QED
  BY <1>1, <1>2

LEMMA FlipType ==
  ASSUME NEW ps \in SUBSET Pairs
  PROVE  Flip(ps) \subseteq Pairs
BY DEF Flip, Pairs

\* Sets of pairs are equal when they hold the same pairs.
LEMMA SamePairs ==
  ASSUME NEW S \in SUBSET Pairs, NEW T \in SUBSET Pairs,
         \A a, b \in Ids : <<a, b>> \in S <=> <<a, b>> \in T
  PROVE  S = T
BY DEF Pairs

LEMMA HopsType ==
  ASSUME NEW es \in SUBSET Edges
  PROVE  /\ Hops(es) \subseteq Pairs
         /\ \A a, b \in Ids : <<a, b>> \in Hops(es)
                                <=> \E e \in es : e.source = a /\ e.target = b
<1>1. \A e \in es : e.source \in Ids /\ e.target \in Ids
  BY DEF Edges
<1>. QED
  BY <1>1 DEF Hops, Pairs

\* The pairwise form is the one the runs check.
LEMMA AgreeIsAgreement ==
  ASSUME NEW es \in SUBSET Edges, NEW out, NEW in
  PROVE  Agree(es, out, in) <=>
           /\ out = Hops(es) /\ in = Flip(out)
           /\ \A e, f \in es : e.source = f.source /\ e.target = f.target => e = f
<1>1. ASSUME Agree(es, out, in)
      PROVE  out = Hops(es) /\ in = Flip(out)
  <2>1. out = Hops(es)
    <3>1. out \in SUBSET Pairs /\ Hops(es) \in SUBSET Pairs
      BY <1>1, HopsType DEF Agree
    <3>2. \A a, b \in Ids : <<a, b>> \in out <=> <<a, b>> \in Hops(es)
      <4>1. \A a, b \in Ids : <<a, b>> \in out <=> \E e \in es : e.source = a /\ e.target = b
        BY <1>1 DEF Agree
      <4>2. \A a, b \in Ids :
              <<a, b>> \in Hops(es) <=> \E e \in es : e.source = a /\ e.target = b
        BY HopsType
      <4>. QED
        BY ZenonT(40), <4>1, <4>2
    <3>. QED
      BY <3>1, <3>2, SamePairs
  <2>2. in = Flip(out)
    <3>1. \A a, b \in Ids : <<a, b>> \in in <=> <<a, b>> \in Flip(out)
      BY <1>1, Flipped DEF Agree
    <3>. QED
      BY <1>1, <3>1, SamePairs, FlipType DEF Agree
  <2>. QED
    BY <2>1, <2>2
<1>2. ASSUME out = Hops(es), in = Flip(out),
             \A e, f \in es : e.source = f.source /\ e.target = f.target => e = f
      PROVE  Agree(es, out, in)
  <2>1. out \subseteq Pairs /\ in \subseteq Pairs
    BY <1>2, HopsType, FlipType
  <2>2. \A a, b \in Ids : <<b, a>> \in in <=> <<a, b>> \in out
    BY <1>2, <2>1, Flipped
  <2>. QED
    BY <1>2, <2>1, <2>2, HopsType DEF Agree
<1>. QED
  BY <1>1, <1>2 DEF Agree

-----------------------------------------------------------------------------

\* Whichever pairs go away, they go away together from all three buckets.
LEMMA DeletePairs ==
  ASSUME NEW es, NEW out, NEW in, Agree(es, out, in), NEW gone \in SUBSET Pairs
  PROVE  Agree({e \in es : <<e.source, e.target>> \notin gone},
               out \ gone, in \ Flip(gone))
<1>. DEFINE left == {e \in es : <<e.source, e.target>> \notin gone}
<1>1. \A a, b \in Ids : <<a, b>> \in out \ gone
                          <=> \E e \in left : e.source = a /\ e.target = b
  <2>. TAKE a, b \in Ids
  <2>1. <<a, b>> \in out <=> \E e \in es : e.source = a /\ e.target = b
    BY DEF Agree
  <2>2. ASSUME NEW e \in es, e.source = a, e.target = b
        PROVE  e \in left <=> <<a, b>> \notin gone
    BY <2>2
  <2>. QED
    BY <2>1, <2>2
<1>2. \A a, b \in Ids : <<b, a>> \in in \ Flip(gone) <=> <<a, b>> \in out \ gone
  BY Flipped DEF Agree
<1>3. left \subseteq es
  OBVIOUS
<1>. QED
  BY <1>1, <1>2, <1>3 DEF Agree

\* PutEdge replaces the edge between two nodes and adds to both indexes.
LEMMA PutPair ==
  ASSUME NEW es, NEW out, NEW in, Agree(es, out, in), NEW e \in Edges
  PROVE  Agree({f \in es : f.source # e.source \/ f.target # e.target} \cup {e},
               out \cup {<<e.source, e.target>>}, in \cup {<<e.target, e.source>>})
<1>. DEFINE es2  == {f \in es : f.source # e.source \/ f.target # e.target} \cup {e}
            out2 == out \cup {<<e.source, e.target>>}
            in2  == in \cup {<<e.target, e.source>>}
<1>0. e.source \in Ids /\ e.target \in Ids
  BY DEF Edges
<1>1. es2 \subseteq Edges /\ out2 \subseteq Pairs /\ in2 \subseteq Pairs
  BY <1>0 DEF Agree, Pairs
<1>2. \A a, b \in Ids : <<a, b>> \in out2 <=> \E f \in es2 : f.source = a /\ f.target = b
  <2>. TAKE a, b \in Ids
  <2>1. CASE a = e.source /\ b = e.target
    BY <2>1
  <2>2. CASE ~(a = e.source /\ b = e.target)
    BY <2>2 DEF Agree
  <2>. QED
    BY <2>1, <2>2
<1>3. \A a, b \in Ids : <<b, a>> \in in2 <=> <<a, b>> \in out2
  BY DEF Agree
<1>4. \A f, g \in es2 : f.source = g.source /\ f.target = g.target => f = g
  BY DEF Agree
<1>. QED
  BY <1>1, <1>2, <1>3, <1>4 DEF Agree

\* The incoming keys RemoveVertex finds and deletes are pairs with ids.
LEMMA SweptType ==
  ASSUME NEW id \in Ids, NEW sources \in SUBSET Ids
  PROVE  Swept(id, sources) \subseteq sources
BY DEF Swept

-----------------------------------------------------------------------------

LEMMA IndexInit == GraphInit => IndexInv
<1>. SUFFICES ASSUME GraphInit PROVE IndexInv
  OBVIOUS
<1>1. edges \in SUBSET Edges
  BY GraphAssumption DEF GraphInit
<1>2. ASSUME store = "bolt" PROVE Agree(edges, outIdx, inIdx)
  <2>1. \A e, f \in edges : e.source = f.source /\ e.target = f.target => e = f
    BY <1>2 DEF GraphInit
  <2>. QED
    BY <1>1, <1>2, <2>1, AgreeIsAgreement DEF GraphInit
<1>. QED
  BY <1>1, <1>2 DEF IndexInv

LEMMA RemoveNodeAgrees ==
  ASSUME IndexInv, NEW id \in Ids, NEW failed, RemoveNode(id, failed)
  PROVE  IndexInv'
BY DEF IndexInv, RemoveNode, Commit

\* A transaction of the bbolt store that deletes the pairs gone.
LEMMA RemoveVertexAgrees ==
  ASSUME IndexInv, NEW id \in Ids, RemoveVertex(id)
  PROVE  IndexInv'
<1>. DEFINE outs    == OutOf(id)
            sources == {s \in Ids : <<id, s>> \in inIdx} \ (IF id \in outs THEN {id} ELSE {})
            gone    == ({id} \X outs) \cup (Swept(id, sources) \X {id})
<1>0. outs \subseteq Ids /\ sources \subseteq Ids
  BY DEF OutOf
<1>1. gone \in SUBSET Pairs
  <2>1. Swept(id, sources) \subseteq Ids
    <3>. HIDE DEF sources
    <3>. QED
      BY <1>0, SweptType
  <2>. QED
    BY <1>0, <2>1 DEF Pairs
<1>2. /\ edges' = {e \in edges : <<e.source, e.target>> \notin gone}
      /\ outIdx' = outIdx \ gone /\ inIdx' = inIdx \ Flip(gone)
      /\ store' = store
  BY DEF RemoveVertex, Commit
<1>. HIDE DEF gone
<1>3. store = "bolt" => Agree(edges', outIdx', inIdx')
  BY <1>1, <1>2, DeletePairs DEF IndexInv
<1>. QED
  BY <1>2, <1>3 DEF IndexInv

LEMMA RemoveEdgesAgrees ==
  ASSUME IndexInv, NEW id \in Ids, RemoveEdgesFrom(id)
  PROVE  IndexInv'
<1>1. CASE store = "kg"
  BY <1>1 DEF IndexInv, RemoveEdgesFrom, Commit
<1>2. CASE store = "bolt"
  <2>. DEFINE gone == {id} \X OutOf(id)
  <2>0. Agree(edges, outIdx, inIdx)
    BY <1>2 DEF IndexInv
  <2>1. gone \in SUBSET Pairs
    BY DEF OutOf, Pairs
  <2>2. edges' = {e \in edges : <<e.source, e.target>> \notin gone}
    BY <1>2 DEF RemoveEdgesFrom, Commit
  <2>3. outIdx' = outIdx \ gone
    BY <2>0 DEF RemoveEdgesFrom, Commit, OutOf, Agree, Pairs
  <2>4. inIdx' = inIdx \ Flip(gone)
    <3>1. inIdx' = {p \in inIdx : ~(p[2] = id /\ p[1] \in OutOf(id))}
      BY DEF RemoveEdgesFrom, Commit
    <3>2. \A a, b \in Ids : <<b, a>> \in Flip(gone) <=> a = id /\ b \in OutOf(id)
      BY <2>1, Flipped
    <3>3. inIdx' \in SUBSET Pairs /\ inIdx \ Flip(gone) \in SUBSET Pairs
      BY <2>0, <3>1 DEF Agree
    <3>4. \A a, b \in Ids : <<b, a>> \in inIdx' <=> <<b, a>> \in inIdx \ Flip(gone)
      BY <3>1, <3>2
    <3>. HIDE DEF gone
    <3>. QED
      BY <3>3, <3>4, SamePairs
  <2>5. store' = store
    BY DEF RemoveEdgesFrom, Commit
  <2>. HIDE DEF gone
  <2>. QED
    BY <2>0, <2>1, <2>2, <2>3, <2>4, <2>5, DeletePairs DEF IndexInv
<1>3. CASE store \notin {"kg", "bolt"}
  BY <1>3 DEF IndexInv, RemoveEdgesFrom, Commit
<1>. QED
  BY <1>1, <1>2, <1>3

LEMMA PutEdgeAgrees ==
  ASSUME IndexInv, NEW e \in Edges, PutEdge(e)
  PROVE  IndexInv'
<1>1. CASE store = "kg"
  BY <1>1 DEF IndexInv, PutEdge, Commit
<1>2. CASE store # "kg"
  <2>1. /\ edges' = {f \in edges : f.source # e.source \/ f.target # e.target} \cup {e}
        /\ outIdx' = outIdx \cup {<<e.source, e.target>>}
        /\ inIdx' = inIdx \cup {<<e.target, e.source>>}
        /\ store' = store
    BY <1>2 DEF PutEdge, Commit
  <2>2. store = "bolt" => Agree(edges', outIdx', inIdx')
    BY <2>1, PutPair DEF IndexInv
  <2>3. edges' \subseteq Edges
    BY <2>1 DEF IndexInv
  <2>. QED
    BY <2>1, <2>2, <2>3 DEF IndexInv
<1>. QED
  BY <1>1, <1>2

LEMMA DropAgrees ==
  ASSUME IndexInv, Drop
  PROVE  IndexInv'
BY DEF IndexInv, Drop, Commit, Agree

\* Writers keep the three buckets together; traversals write nothing.
LEMMA IndexStep == IndexInv /\ [GraphNext]_graphVars => IndexInv'
<1>. SUFFICES ASSUME IndexInv, [GraphNext]_graphVars PROVE IndexInv'
  OBVIOUS
<1>1. ASSUME NEW id \in Ids, PutVertex(id) PROVE IndexInv'
  BY <1>1 DEF IndexInv, PutVertex, Commit
<1>2. CASE Read \/ UNCHANGED graphVars
  <2>1. UNCHANGED graphState
    BY <1>2 DEF Read, Begin, Go, StartNeighbors, QueryLevel, FollowOut, FollowIn, StartPath,
       NextHop, StartExport, ExportNodes, ExportEdges, Return, graphVars, graphState
  <2>. QED
    BY <2>1 DEF IndexInv, graphState
<1>. QED
  BY <1>1, <1>2, RemoveNodeAgrees, RemoveVertexAgrees, RemoveEdgesAgrees, PutEdgeAgrees,
     DropAgrees
  DEF GraphNext, Write

LEMMA IndexInvAlways == GraphSpec => []IndexInv
BY IndexInit, IndexStep, PTL DEF GraphSpec

\* IndexesAgree (store.go: PutEdge, RemoveEdgesFrom, RemoveVertex and Drop keep the
\* edge bucket and its two indexes together): always, in every instance.
THEOREM IndexesAlwaysAgree == GraphSpec => []IndexesAgree
<1>1. IndexInv => IndexesAgree
  BY AgreeIsAgreement DEF IndexInv, IndexesAgree
<1>. QED
  BY <1>1, IndexInvAlways, PTL

-----------------------------------------------------------------------------

\* Two edges into a node from different sources make a set of more than one.
LEMMA TwoIsMore ==
  ASSUME NEW S, IsFiniteSet(S), NEW x \in S, NEW y \in S, x # y
  PROVE  Cardinality(S) > 1
<1>1. Cardinality(S) \in Nat /\ Cardinality(S) # 0 /\ Cardinality(S) # 1
  BY FS_CardinalityType, FS_EmptySet, FS_Singleton
<1>. QED
  BY <1>1

\* The edges into a node are finitely many: one from each source at most.
LEMMA IncomingFinite ==
  ASSUME NEW es, NEW out, NEW in, Agree(es, out, in), NEW id \in Ids
  PROVE  IsFiniteSet({e \in es : e.target = id /\ e.source # id})
<1>. DEFINE S == {e \in es : e.target = id /\ e.source # id}
            f == [e \in S |-> e.source]
<1>1. f \in [S -> Ids]
  BY DEF Agree, Edges
<1>2. \A e, g \in S : f[e] = f[g] => e = g
  BY DEF Agree
<1>3. f \in Injection(S, Ids)
  BY <1>1, <1>2 DEF Injection, IsInjective
<1>. QED
  BY <1>3, FS_Injection, GraphAssumption

\* A source the cursor passed over has another one below it.
LEMMA PassedOver ==
  ASSUME NEW sources \in SUBSET Ids, NEW id \in Ids, NEW s \in sources,
         s \notin Swept(id, sources)
  PROVE  OutOf(id) # {} /\ \E t \in sources : t # s
<1>1. OutOf(id) # {}
  BY DEF Swept
<1>. DEFINE below == {t \in sources : t <= s}
<1>2. IsFiniteSet(below)
  BY FS_Subset, GraphAssumption
<1>3. s \in below
  BY GraphAssumption
<1>4. Cardinality(below) % 2 # 1
  BY <1>1 DEF Swept
<1>5. Cardinality(below) # 1
  BY <1>4
<1>6. below # {s}
  BY <1>2, <1>5, FS_Singleton
<1>. QED
  BY <1>1, <1>3, <1>6

\* What RemoveVertex leaves in the bbolt store.
LEMMA RemovalLeaves ==
  ASSUME IndexInv, store = "bolt", NEW id \in Ids, RemoveVertex(id)
  PROVE  /\ \A e \in edges' : e.source # id
         /\ \A e \in edges' : e.target = id =>
              /\ OutOf(id) # {}
              /\ Cardinality({f \in edges : f.target = id /\ f.source # id}) > 1
<1>. DEFINE outs    == OutOf(id)
            sources == {s \in Ids : <<id, s>> \in inIdx} \ (IF id \in outs THEN {id} ELSE {})
            gone    == ({id} \X outs) \cup (Swept(id, sources) \X {id})
            into    == {f \in edges : f.target = id /\ f.source # id}
<1>0. Agree(edges, outIdx, inIdx)
  BY DEF IndexInv
<1>1. edges' = {e \in edges : <<e.source, e.target>> \notin gone}
  BY DEF RemoveVertex, Commit
<1>2. ASSUME NEW e \in edges, e.source = id PROVE <<e.source, e.target>> \in gone
  <2>1. e.target \in outs
    BY <1>0, <1>2 DEF Agree, OutOf, Edges
  <2>. QED
    BY <1>2, <2>1
<1>3. ASSUME NEW e \in edges', e.target = id
      PROVE  OutOf(id) # {} /\ Cardinality(into) > 1
  <2>1. e \in edges /\ e.source # id /\ e.source \in Ids
    BY <1>0, <1>1, <1>2 DEF Agree, Edges
  <2>2. e.source \in sources
    BY <1>0, <1>3, <2>1 DEF Agree
  <2>3. e.source \notin Swept(id, sources)
    BY <1>1, <1>3
  <2>4. OutOf(id) # {} /\ \E t \in sources : t # e.source
    <3>1. sources \in SUBSET Ids
      OBVIOUS
    <3>. HIDE DEF sources
    <3>. QED
      BY <2>2, <2>3, <3>1, PassedOver
  <2>5. PICK t \in sources : t # e.source
    BY <2>4
  <2>6. <<t, id>> \in outIdx
    BY <1>0, <2>5 DEF Agree
  <2>7. t # id
    BY <2>5, <2>6 DEF OutOf
  <2>8. PICK g \in edges : g.source = t /\ g.target = id
    BY <1>0, <2>5, <2>6 DEF Agree
  <2>9. e \in into /\ g \in into /\ e # g
    BY <1>3, <2>1, <2>5, <2>7, <2>8
  <2>10. IsFiniteSet(into)
    BY <1>0, IncomingFinite
  <2>. HIDE DEF into
  <2>. QED
    BY <2>4, <2>9, <2>10, TwoIsMore
<1>. QED
  BY <1>1, <1>2, <1>3

\* RemovalIsComplete (store.go RemoveVertex): only edges into a vertex with an
\* outgoing and two incoming edges can stay, however many documents there are.
THEOREM RemovalLeavesLittle == GraphSpec => RemovalIsComplete
<1>. DEFINE Little == \A id \in Ids : RemoveVertex(id) =>
              /\ \A e \in edges' : e.source # id
              /\ (\E e \in edges' : e.target = id) =>
                   /\ OutOf(id) # {}
                   /\ Cardinality({e \in edges : e.target = id /\ e.source # id}) > 1
<1>1. ASSUME IndexInv PROVE Little
  <2>1. ASSUME NEW id \in Ids, RemoveVertex(id) PROVE store = "bolt"
    BY <2>1 DEF RemoveVertex
  <2>. QED
    BY <1>1, <2>1, RemovalLeaves
<1>2. IndexInv => [Little]_graphVars
  BY <1>1
<1>. QED
  BY <1>2, IndexInvAlways, PTL DEF RemovalIsComplete
-----------------------------------------------------------------------------
(***************************************************************************)
(* Walks.  Facts about all walks are had from the first hop at which one    *)
(* would go wrong (Least).                                                  *)
(***************************************************************************)

\* A set of naturals has a least element.
LEMMA Least ==
  ASSUME NEW T, T \subseteq Nat, T # {}
  PROVE  \E x \in T : \A y \in T : x <= y
<1>. DEFINE R == {p \in Nat \X Nat : p[1] < p[2]}
<1>1. IsWellFoundedOn(R, Nat)
  BY NatLessThanWellFounded DEF OpToRel
<1>2. PICK x \in T : \A y \in T : ~ (<<y, x>> \in R)
  <2>. HIDE DEF R
  <2>. QED
    BY <1>1, WFMin
<1>3. ASSUME NEW y \in T PROVE x <= y
  <2>1. x \in Nat /\ y \in Nat
    OBVIOUS
  <2>2. ~ (y < x)
    BY <1>2, <2>1
  <2>. QED
    BY <2>1, <2>2
<1>. QED
  BY <1>3

\* walk is a walk of k hops of R from s to v.
IsWalk(R, s, v, k, walk) ==
  /\ k \in Nat /\ walk \in [0..k -> Nodes(R, s)]
  /\ walk[0] = s /\ walk[k] = v
  /\ \A i \in 1..k : <<walk[i - 1], walk[i]>> \in R

LEMMA WithinIsWalk ==
  ASSUME NEW R, NEW s, NEW n \in Nat, NEW v
  PROVE  v \in Within(R, s, n) <=> \E k \in 0..n : \E walk : IsWalk(R, s, v, k, walk)
<1>1. ASSUME v \in Within(R, s, n)
      PROVE  \E k \in 0..n : \E walk : IsWalk(R, s, v, k, walk)
  <2>1. PICK k \in 0..n : \E walk \in [0..k -> Nodes(R, s)] :
          /\ walk[0] = s /\ walk[k] = v
          /\ \A i \in 1..k : <<walk[i - 1], walk[i]>> \in R
    BY <1>1 DEF Within
  <2>2. PICK walk \in [0..k -> Nodes(R, s)] :
          /\ walk[0] = s /\ walk[k] = v
          /\ \A i \in 1..k : <<walk[i - 1], walk[i]>> \in R
    BY <2>1
  <2>3. IsWalk(R, s, v, k, walk)
    BY <2>2 DEF IsWalk
  <2>. QED
    BY <2>3
<1>2. ASSUME NEW k \in 0..n, NEW walk, IsWalk(R, s, v, k, walk)
      PROVE  v \in Within(R, s, n)
  <2>1. v \in Nodes(R, s)
    BY <1>2 DEF IsWalk
  <2>2. walk \in [0..k -> Nodes(R, s)]
    BY <1>2 DEF IsWalk
  <2>. QED
    BY <1>2, <2>1, <2>2 DEF Within, IsWalk
<1>. QED
  BY <1>1, <1>2

\* More hops of more walks: no node is lost.
LEMMA WithinGrows ==
  ASSUME NEW R, NEW Q, R \subseteq Q, NEW s, NEW m \in Nat, NEW n \in Nat, m <= n
  PROVE  Within(R, s, m) \subseteq Within(Q, s, n)
<1>. SUFFICES ASSUME NEW v \in Within(R, s, m) PROVE v \in Within(Q, s, n)
  OBVIOUS
<1>1. PICK k \in 0..m : \E walk : IsWalk(R, s, v, k, walk)
  BY WithinIsWalk
<1>2. PICK walk : IsWalk(R, s, v, k, walk)
  BY <1>1
<1>3. Nodes(R, s) \subseteq Nodes(Q, s)
  BY DEF Nodes
<1>4. IsWalk(Q, s, v, k, walk)
  BY <1>2, <1>3 DEF IsWalk
<1>5. k \in 0..n
  OBVIOUS
<1>. QED
  BY <1>4, <1>5, WithinIsWalk

LEMMA WithinNone ==
  ASSUME NEW R, NEW s
  PROVE  Within(R, s, 0) = {s}
<1>1. ASSUME NEW v, v \in Within(R, s, 0) PROVE v = s
  <2>1. PICK k \in 0..0 : \E walk : IsWalk(R, s, v, k, walk)
    BY <1>1, WithinIsWalk
  <2>. QED
    BY <2>1 DEF IsWalk
<1>2. s \in Within(R, s, 0)
  <2>1. IsWalk(R, s, s, 0, [i \in 0..0 |-> s])
    BY DEF IsWalk, Nodes
  <2>2. 0 \in 0..0
    OBVIOUS
  <2>. QED
    BY <2>1, <2>2, WithinIsWalk
<1>. QED
  BY <1>1, <1>2

\* One hop more leads one hop further.
LEMMA WithinHop ==
  ASSUME NEW R, NEW s, NEW n \in Nat, NEW u \in Within(R, s, n), NEW v, <<u, v>> \in R
  PROVE  v \in Within(R, s, n + 1)
<1>1. PICK k \in 0..n : \E walk : IsWalk(R, s, u, k, walk)
  BY WithinIsWalk
<1>2. PICK walk : IsWalk(R, s, u, k, walk)
  BY <1>1
<1>. DEFINE longer == [i \in 0..k + 1 |-> IF i <= k THEN walk[i] ELSE v]
<1>3. v \in Nodes(R, s)
  BY DEF Nodes
<1>4. longer \in [0..k + 1 -> Nodes(R, s)]
  BY <1>2, <1>3 DEF IsWalk
<1>5. longer[0] = s /\ longer[k + 1] = v
  BY <1>2 DEF IsWalk
<1>6. ASSUME NEW i \in 1..k + 1 PROVE <<longer[i - 1], longer[i]>> \in R
  <2>1. CASE i = k + 1
    <3>1. longer[i] = v /\ longer[i - 1] = walk[k]
      BY <2>1
    <3>. QED
      BY <1>2, <3>1 DEF IsWalk
  <2>2. CASE i # k + 1
    <3>1. i \in 1..k /\ longer[i] = walk[i] /\ longer[i - 1] = walk[i - 1]
      BY <2>2
    <3>. QED
      BY <1>2, <3>1 DEF IsWalk
  <2>. QED
    BY <2>1, <2>2
<1>7. IsWalk(R, s, v, k + 1, longer)
  <2>. HIDE DEF longer
  <2>. QED
    BY <1>4, <1>5, <1>6 DEF IsWalk
<1>8. k + 1 \in 0..n + 1
  OBVIOUS
<1>. QED
  BY <1>7, <1>8, WithinIsWalk

\* ... and a node further away than none is one hop beyond a nearer one.
LEMMA WithinLastHop ==
  ASSUME NEW R, NEW s, NEW n \in Nat, NEW v \in Within(R, s, n + 1), v # s
  PROVE  \E u \in Within(R, s, n) : <<u, v>> \in R
<1>1. PICK k \in 0..n + 1 : \E walk : IsWalk(R, s, v, k, walk)
  BY WithinIsWalk
<1>2. PICK walk : IsWalk(R, s, v, k, walk)
  BY <1>1
<1>3. k # 0
  BY <1>2 DEF IsWalk
<1>. DEFINE shorter == [i \in 0..k - 1 |-> walk[i]]
<1>4. IsWalk(R, s, walk[k - 1], k - 1, shorter)
  BY <1>2, <1>3 DEF IsWalk
<1>5. k - 1 \in 0..n
  BY <1>3
<1>6. walk[k - 1] \in Within(R, s, n)
  BY <1>4, <1>5, WithinIsWalk
<1>7. <<walk[k - 1], v>> \in R
  BY <1>2, <1>3 DEF IsWalk
<1>. QED
  BY <1>6, <1>7

\* No walk leaves a set that no hop leaves.
LEMMA WithinClosed ==
  ASSUME NEW R, NEW s, NEW V, s \in V, \A a, b : a \in V /\ <<a, b>> \in R => b \in V,
         NEW n \in Nat
  PROVE  Within(R, s, n) \subseteq V
<1>. SUFFICES ASSUME NEW v \in Within(R, s, n), v \notin V PROVE FALSE
  OBVIOUS
<1>1. PICK k \in 0..n : \E walk : IsWalk(R, s, v, k, walk)
  BY WithinIsWalk
<1>2. PICK walk : IsWalk(R, s, v, k, walk)
  BY <1>1
<1>. DEFINE T == {i \in 0..k : walk[i] \notin V}
<1>3. k \in T
  BY <1>2 DEF IsWalk
<1>4. PICK i \in T : \A j \in T : i <= j
  <2>1. T \subseteq Nat /\ T # {}
    BY <1>3
  <2>. HIDE DEF T
  <2>. QED
    BY <2>1, Least
<1>5. i # 0 /\ i - 1 \in 0..k /\ i \in 1..k
  BY <1>2 DEF IsWalk
<1>6. walk[i - 1] \in V
  BY <1>4, <1>5
<1>. QED
  BY <1>2, <1>5, <1>6 DEF IsWalk

-----------------------------------------------------------------------------
(***************************************************************************)
(* Neighbors: a breadth-first search, level by level.                       *)
(***************************************************************************)

LEMMA BallGrows ==
  ASSUME NEW E, NEW F, E \subseteq F, NEW s, NEW m \in Nat, NEW n \in Nat, m <= n
  PROVE  Ball(E, s, m) \subseteq Ball(F, s, n)
<1>1. BothWays(E) \subseteq BothWays(F)
  BY DEF BothWays, Hops
<1>. QED
  BY <1>1, WithinGrows DEF Ball

LEMMA BallNone ==
  ASSUME NEW E, NEW s
  PROVE  Ball(E, s, 0) = {s}
BY WithinNone DEF Ball

\* The ends of an edge are one hop apart.
LEMMA BallHop ==
  ASSUME NEW E, NEW s, NEW n \in Nat, NEW e \in E,
         e.source \in Ball(E, s, n) \/ e.target \in Ball(E, s, n)
  PROVE  e.source \in Ball(E, s, n + 1) /\ e.target \in Ball(E, s, n + 1)
<1>1. <<e.source, e.target>> \in BothWays(E) /\ <<e.target, e.source>> \in BothWays(E)
  BY DEF BothWays, Hops
<1>2. ASSUME NEW u \in Ball(E, s, n), NEW v, <<u, v>> \in BothWays(E)
      PROVE  u \in Ball(E, s, n + 1) /\ v \in Ball(E, s, n + 1)
  <2>1. v \in Ball(E, s, n + 1)
    BY <1>2, WithinHop DEF Ball
  <2>2. n + 1 \in Nat /\ n <= n + 1
    OBVIOUS
  <2>. QED
    BY <2>1, <2>2, BallGrows
<1>. QED
  BY <1>1, <1>2

LEMMA BallLastHop ==
  ASSUME NEW E, NEW s, NEW n \in Nat, NEW v \in Ball(E, s, n + 1), v # s
  PROVE  \E e \in E : \/ e.source \in Ball(E, s, n) /\ e.target = v
                      \/ e.target \in Ball(E, s, n) /\ e.source = v
<1>1. PICK u \in Ball(E, s, n) : <<u, v>> \in BothWays(E)
  BY WithinLastHop DEF Ball
<1>2. PICK e \in E : <<u, v>> = <<e.source, e.target>> \/ <<u, v>> = <<e.target, e.source>>
  BY <1>1 DEF BothWays, Hops
<1>. QED
  BY <1>2

LEMMA BallClosed ==
  ASSUME NEW E, NEW s, NEW V, s \in V, NEW n \in Nat,
         \A e \in E : e.source \in V <=> e.target \in V
  PROVE  Ball(E, s, n) \subseteq V
<1>1. ASSUME NEW a, NEW b, a \in V, <<a, b>> \in BothWays(E) PROVE b \in V
  BY <1>1 DEF BothWays, Hops
<1>. QED
  BY <1>1, WithinClosed DEF Ball

\* The search is through with v: each steady edge that touches it has been found,
\* and leads to visited nodes.
Followed(r, v) ==
  \A e \in r.steady : e.source = v \/ e.target = v =>
    e \in r.found /\ e.source \in r.visited /\ e.target \in r.visited

\* Within a level: the visited nodes that are not of the next frontier lie between
\* the balls of the steady and of the ever edges, and those of neither frontier
\* have been followed.
Spread(r) ==
  /\ r.start \in r.visited /\ r.hops < r.depth
  /\ r.next \subseteq r.visited /\ r.frontier \subseteq r.visited \ r.next
  /\ r.visited \ r.next \subseteq Ball(r.ever, r.start, r.hops)
  /\ r.visited \subseteq Ball(r.ever, r.start, r.hops + 1)
  /\ r.found \subseteq Touching(r.ever, Ball(r.ever, r.start, r.hops))
  /\ Ball(r.steady, r.start, r.hops) \subseteq r.visited \ r.next
  /\ \A v \in r.visited \ (r.frontier \cup r.next) : Followed(r, v)

\* What Neighbors promises of its result.
Right(r) ==
  /\ EdgesWithin(r.steady, r.start, r.depth) \subseteq r.found
  /\ r.found \subseteq EdgesWithin(r.ever, r.start, r.depth)

\* Other writers only take from the steady edges and add to the others.
LEMMA SpreadCommitted ==
  ASSUME NEW r \in Neighborhoods, NEW q \in Neighborhoods, Spread(r),
         q.start = r.start, q.depth = r.depth, q.hops = r.hops, q.visited = r.visited,
         q.frontier = r.frontier, q.next = r.next, q.found = r.found,
         q.steady \subseteq r.steady, r.ever \subseteq q.ever
  PROVE  Spread(q)
<1>. DEFINE s == r.start
            h == r.hops
<1>1. h \in Nat /\ h + 1 \in Nat
  BY DEF Neighborhoods
<1>2. Ball(r.ever, s, h) \subseteq Ball(q.ever, s, h)
  BY <1>1, BallGrows
<1>3. Ball(r.ever, s, h + 1) \subseteq Ball(q.ever, s, h + 1)
  BY <1>1, BallGrows
<1>4. Ball(q.steady, s, h) \subseteq Ball(r.steady, s, h)
  BY <1>1, BallGrows
<1>5. Touching(r.ever, Ball(r.ever, s, h)) \subseteq Touching(q.ever, Ball(q.ever, s, h))
  BY <1>2 DEF Touching
<1>6. \A v : Followed(r, v) => Followed(q, v)
  BY DEF Followed
<1>. QED
  BY <1>2, <1>3, <1>4, <1>5, <1>6 DEF Spread

\* q is r, but for where it stands, with the edges es read and the nodes ns met.
Meets(q, r, es, ns) ==
  /\ q.start = r.start /\ q.depth = r.depth /\ q.hops = r.hops
  /\ q.visited = r.visited \cup ns /\ q.next = r.next \cup (ns \ r.visited)
  /\ q.found = r.found \cup es /\ q.steady = r.steady /\ q.ever = r.ever

\* Reading edges that touch the frontier, and leaving the nodes that are through.
LEMMA SpreadMet ==
  ASSUME NEW r \in Neighborhoods, NEW q \in Neighborhoods, Spread(r),
         NEW es \in SUBSET r.ever, NEW ns,
         \A e \in es : e.source \in r.frontier \/ e.target \in r.frontier,
         \A v \in ns : \E e \in es : v = e.source \/ v = e.target,
         Meets(q, r, es, ns), q.frontier \subseteq r.frontier,
         \A v \in r.frontier \ q.frontier : Followed(q, v)
  PROVE  Spread(q)
<1>. USE DEF Meets
<1>. DEFINE s == r.start
            h == r.hops
<1>1. h \in Nat /\ h + 1 \in Nat
  BY DEF Neighborhoods
<1>2. \A v \in r.frontier : v \in Ball(r.ever, s, h)
  BY DEF Spread
<1>3. es \subseteq Touching(r.ever, Ball(r.ever, s, h))
  BY <1>2 DEF Touching
<1>4. ns \subseteq Ball(r.ever, s, h + 1)
  <2>. SUFFICES ASSUME NEW v \in ns PROVE v \in Ball(r.ever, s, h + 1)
    OBVIOUS
  <2>1. PICK e \in es : v = e.source \/ v = e.target
    OBVIOUS
  <2>2. e \in r.ever /\ (e.source \in Ball(r.ever, s, h) \/ e.target \in Ball(r.ever, s, h))
    BY <1>2
  <2>. QED
    BY <1>1, <2>1, <2>2, BallHop
<1>5. q.visited \ q.next = r.visited \ r.next
  BY DEF Spread
<1>6. \A v : Followed(r, v) => Followed(q, v)
  BY DEF Followed
<1>7. ASSUME NEW v \in q.visited \ (q.frontier \cup q.next) PROVE Followed(q, v)
  <2>1. v \in r.visited /\ v \notin r.next
    BY <1>5
  <2>2. CASE v \in r.frontier
    BY <2>2
  <2>3. CASE v \notin r.frontier
    BY <1>6, <2>1, <2>3 DEF Spread
  <2>. QED
    BY <2>2, <2>3
<1>. QED
  BY <1>3, <1>4, <1>5, <1>7 DEF Spread

\* The end of a level whose frontier has been followed.
LEMMA SpreadLevelDone ==
  ASSUME NEW r \in Neighborhoods, NEW q \in Neighborhoods, Spread(r),
         \A v \in r.frontier : Followed(r, v),
         q.start = r.start, q.depth = r.depth, q.hops = r.hops + 1, q.visited = r.visited,
         q.frontier = r.next, q.next = {}, q.found = r.found,
         q.steady = r.steady, q.ever = r.ever
  PROVE  IF r.hops + 1 = r.depth \/ r.next = {} THEN Right(q) ELSE Spread(q)
<1>. DEFINE s == r.start
            h == r.hops
            d == r.depth
<1>1. h \in Nat /\ h + 1 \in Nat /\ d - 1 \in Nat /\ h <= d - 1 /\ h < d
  BY DEF Neighborhoods, Spread
<1>2. \A v \in r.visited \ r.next : Followed(r, v)
  BY DEF Spread
<1>3. ASSUME h + 1 = d \/ r.next = {} PROVE Right(q)
  <2>1. Ball(r.ever, s, h) \subseteq Ball(r.ever, s, d - 1)
    BY <1>1, BallGrows
  <2>2. q.found \subseteq EdgesWithin(q.ever, q.start, q.depth)
    BY <2>1 DEF Spread, EdgesWithin, Touching
  <2>3. Ball(r.steady, s, d - 1) \subseteq r.visited \ r.next
    <3>1. CASE h + 1 = d
      <4>1. d - 1 = h
        BY <1>1, <3>1
      <4>. QED
        BY <4>1 DEF Spread
    <3>2. CASE r.next = {}
      <4>1. \A e \in r.steady : e.source \in r.visited <=> e.target \in r.visited
        BY <1>2, <3>2 DEF Followed
      <4>2. s \in r.visited
        BY DEF Spread
      <4>. QED
        BY <1>1, <3>2, <4>1, <4>2, BallClosed
    <3>. QED
      BY <1>3, <3>1, <3>2
  <2>4. EdgesWithin(q.steady, q.start, q.depth) \subseteq q.found
    BY <1>2, <2>3 DEF EdgesWithin, Touching, Followed
  <2>. QED
    BY <2>2, <2>4 DEF Right
<1>4. ASSUME ~(h + 1 = d \/ r.next = {}) PROVE Spread(q)
  <2>1. h + 1 < d
    BY <1>1, <1>4 DEF Neighborhoods
  <2>2. Ball(r.ever, s, h + 1) \subseteq Ball(r.ever, s, h + 1 + 1)
    BY <1>1, BallGrows
  <2>3. Ball(r.ever, s, h) \subseteq Ball(r.ever, s, h + 1)
    BY <1>1, BallGrows
  <2>4. q.found \subseteq Touching(r.ever, Ball(r.ever, s, h + 1))
    BY <2>3 DEF Spread, Touching
  <2>5. Ball(r.steady, s, h + 1) \subseteq r.visited
    <3>. SUFFICES ASSUME NEW v \in Ball(r.steady, s, h + 1), v # s PROVE v \in r.visited
      BY DEF Spread
    <3>1. PICK e \in r.steady : \/ e.source \in Ball(r.steady, s, h) /\ e.target = v
                                \/ e.target \in Ball(r.steady, s, h) /\ e.source = v
      BY <1>1, BallLastHop
    <3>2. PICK u \in r.visited \ r.next : u = e.source \/ u = e.target
      BY <3>1 DEF Spread
    <3>. QED
      BY <1>2, <3>1, <3>2 DEF Followed
  <2>6. \A v : Followed(r, v) => Followed(q, v)
    BY DEF Followed
  <2>7. q.start \in q.visited /\ q.hops < q.depth /\ q.next \subseteq q.visited
        /\ q.frontier \subseteq q.visited \ q.next
    BY <2>1 DEF Spread
  <2>8. q.visited \subseteq Ball(q.ever, q.start, q.hops)
    BY DEF Spread
  <2>. QED
    BY <1>2, <2>2, <2>4, <2>5, <2>6, <2>7, <2>8 DEF Spread
<1>. QED
  BY <1>3, <1>4

-----------------------------------------------------------------------------
(***************************************************************************)
(* ShortestPath: a breadth-first search with a queue of paths.              *)
(***************************************************************************)

\* All steady edges out of v lead to visited nodes.
Extended(r, v) == \A e \in r.steady : e.source = v => e.target \in r.visited

\* A queued path: from the start to a visited node, along edges that existed.
PathFrom(r, p) ==
  /\ p # <<>> /\ p[1] = r.start /\ p[Len(p)] \in r.visited
  /\ \A j \in 1..(Len(p) - 1) : <<p[j], p[j + 1]>> \in Hops(r.ever)

\* The lengths in the queue ascend, and by one at most.  Each visited node has been
\* extended or ends a queued path; the nodes fewer hops away than the first path
\* has nodes are visited, those not extended end the paths as short as it.
Searching(r) ==
  /\ r.start \in r.visited /\ r.goal \notin r.visited
  /\ \A i \in 1..Len(r.queue) : PathFrom(r, r.queue[i])
  /\ \A i, j \in 1..Len(r.queue) : i <= j =>
       Len(r.queue[i]) <= Len(r.queue[j]) /\ Len(r.queue[j]) <= Len(r.queue[i]) + 1
  /\ \A v \in r.visited : Extended(r, v) \/
       \E i \in 1..Len(r.queue) : r.queue[i][Len(r.queue[i])] = v
  /\ r.queue # <<>> =>
       \A v \in Forward(r.steady, r.start, Len(r.queue[1]) - 1) :
         /\ v \in r.visited
         /\ Extended(r, v) \/
              \E i \in 1..Len(r.queue) : /\ r.queue[i][Len(r.queue[i])] = v
                                         /\ Len(r.queue[i]) = Len(r.queue[1])

\* What ShortestPath promises of its result.
Shortest(r) ==
  LET N == Cardinality(Ids)
      d == Distance(r.steady, r.start, r.goal, N) IN
  IF r.path = <<>> THEN d = N
  ELSE /\ r.path[1] = r.start /\ r.path[Len(r.path)] = r.goal
       /\ \A i \in 1..(Len(r.path) - 1) :
            <<r.path[i], r.path[i + 1]>> \in Hops(r.ever)
       /\ d < N => Len(r.path) <= d + 1

LEMMA ForwardGrows ==
  ASSUME NEW E, NEW F, E \subseteq F, NEW s, NEW m \in Nat, NEW n \in Nat, m <= n
  PROVE  Forward(E, s, m) \subseteq Forward(F, s, n)
<1>1. Hops(E) \subseteq Hops(F)
  BY DEF Hops
<1>. QED
  BY <1>1, WithinGrows DEF Forward

LEMMA ForwardLastHop ==
  ASSUME NEW E, NEW s, NEW n \in Nat, NEW v \in Forward(E, s, n + 1), v # s
  PROVE  \E e \in E : e.source \in Forward(E, s, n) /\ e.target = v
<1>1. PICK u \in Forward(E, s, n) : <<u, v>> \in Hops(E)
  BY WithinLastHop DEF Forward
<1>2. PICK e \in E : <<u, v>> = <<e.source, e.target>>
  BY <1>1 DEF Hops
<1>. QED
  BY <1>2

LEMMA ForwardThrough ==
  ASSUME NEW E, NEW s, NEW n \in Nat, NEW V, s \in V,
         \A e \in E : e.source \in Forward(E, s, n) => e.target \in V
  PROVE  Forward(E, s, n + 1) \subseteq V
BY ForwardLastHop

LEMMA ForwardClosed ==
  ASSUME NEW E, NEW s, NEW V, s \in V, NEW n \in Nat,
         \A e \in E : e.source \in V => e.target \in V
  PROVE  Forward(E, s, n) \subseteq V
<1>1. ASSUME NEW a, NEW b, a \in V, <<a, b>> \in Hops(E) PROVE b \in V
  BY <1>1 DEF Hops
<1>. QED
  BY <1>1, WithinClosed DEF Forward

\* Where there is a way, Distance is the length of a shortest one.
LEMMA DistanceIsLeast ==
  ASSUME NEW E, NEW s, NEW t, NEW N \in Nat
  PROVE  LET d == Distance(E, s, t, N) IN
         /\ d \in 0..N
         /\ d < N => t \in Forward(E, s, d)
         /\ (\A n \in 0..(N - 1) : t \notin Forward(E, s, n)) => d = N
<1>. DEFINE near == {n \in 0..(N - 1) : t \in Forward(E, s, n)}
<1>1. Distance(E, s, t, N) = IF near = {} THEN N
                             ELSE CHOOSE n \in near : \A m \in near : n <= m
  BY DEF Distance
<1>2. near = {} \/ \E n \in near : \A m \in near : n <= m
  <2>1. near \subseteq Nat
    OBVIOUS
  <2>. HIDE DEF near
  <2>. QED
    BY <2>1, Least
<1>3. near # {} => Distance(E, s, t, N) \in near
  <2>. HIDE DEF near
  <2>. QED
    BY <1>1, <1>2
<1>. QED
  BY <1>1, <1>3

\* Every finite set of ids has its order.
LEMMA Listed ==
  ASSUME NEW S \in SUBSET Nat, IsFiniteSet(S)
  PROVE  \E f \in [1..Cardinality(S) -> S] :
           \A i, j \in 1..Cardinality(S) : i < j => f[i] < f[j]
<1>. DEFINE Ascends(f, n) == \A i, j \in 1..n : i < j => f[i] < f[j]
            Sized(T, n) == T \in SUBSET Nat /\ IsFiniteSet(T) /\ Cardinality(T) = n
            bad == {n \in Nat : \E T : Sized(T, n) /\ ~ \E f \in [1..n -> T] : Ascends(f, n)}
<1>1. CASE bad = {}
  <2>1. Cardinality(S) \in Nat
    BY FS_CardinalityType
  <2>. QED
    BY <1>1, <2>1
<1>2. ASSUME bad # {} PROVE FALSE
  <2>1. PICK n \in bad : \A m \in bad : n <= m
    <3>1. bad \subseteq Nat
      OBVIOUS
    <3>. HIDE DEF bad
    <3>. QED
      BY <1>2, <3>1, Least
  <2>2. PICK T : Sized(T, n) /\ ~ \E f \in [1..n -> T] : Ascends(f, n)
    BY <2>1
  <2>3. n \in Nat
    BY <2>1
  <2>4. CASE T = {}
    <3>1. n = 0
      BY <2>2, <2>4, FS_EmptySet
    <3>2. [i \in 1..0 |-> 0] \in [1..0 -> T]
      OBVIOUS
    <3>3. Ascends([i \in 1..0 |-> 0], 0)
      OBVIOUS
    <3>. QED
      BY <2>2, <3>1, <3>2, <3>3
  <2>5. CASE T # {}
    <3>1. PICK x \in T : \A y \in T : x <= y
      BY <2>2, <2>5, Least
    <3>2. Sized(T \ {x}, n - 1)
      BY <2>2, FS_RemoveElement
    <3>3. n - 1 \in Nat
      <4>1. n # 0
        BY <2>2, <2>5, FS_EmptySet
      <4>. QED
        BY <2>3, <4>1
    <3>4. n - 1 \notin bad
      <4>. HIDE DEF bad
      <4>. QED
        BY <2>1, <2>3
    <3>5. PICK g \in [1..n - 1 -> T \ {x}] : Ascends(g, n - 1)
      <4>. HIDE DEF Sized, Ascends
      <4>. QED
        BY <3>2, <3>3, <3>4
    <3>. DEFINE f == [i \in 1..n |-> IF i = 1 THEN x ELSE g[i - 1]]
    <3>6. f \in [1..n -> T]
      BY <2>3
    <3>7. ASSUME NEW i \in 1..n, NEW j \in 1..n, i < j PROVE f[i] < f[j]
      <4>1. f[j] = g[j - 1] /\ j - 1 \in 1..n - 1 /\ g[j - 1] \in T \ {x}
        BY <2>3, <3>7
      <4>2. CASE i = 1
        <5>1. x \in Nat /\ g[j - 1] \in Nat /\ x <= g[j - 1] /\ x # g[j - 1]
          BY <2>2, <3>1, <4>1
        <5>. QED
          BY <4>1, <4>2, <5>1
      <4>3. CASE i # 1
        <5>1. f[i] = g[i - 1] /\ i - 1 \in 1..n - 1 /\ i - 1 < j - 1
          BY <2>3, <3>7, <4>3
        <5>. QED
          BY <3>5, <4>1, <5>1
      <4>. QED
        BY <4>2, <4>3
    <3>. HIDE DEF f
    <3>8. Ascends(f, n)
      BY <3>7
    <3>. QED
      BY <2>2, <3>6, <3>8
  <2>. QED
    BY <2>4, <2>5
<1>. QED
  BY <1>1, <1>2

LEMMA InOrderLists ==
  ASSUME NEW S \in SUBSET Nat, IsFiniteSet(S)
  PROVE  /\ Cardinality(S) \in Nat
         /\ InOrder(S) \in [1..Cardinality(S) -> S]
         /\ \A x \in S : \E i \in 1..Cardinality(S) : InOrder(S)[i] = x
<1>. DEFINE n == Cardinality(S)
            s == InOrder(S)
<1>1. n \in Nat
  BY FS_CardinalityType
<1>2. s \in [1..n -> S] /\ \A i, j \in 1..n : i < j => s[i] < s[j]
  BY Listed DEF InOrder
<1>3. ASSUME NEW i \in 1..n, NEW j \in 1..n, s[i] = s[j] PROVE i = j
  <2>1. s[i] \in Nat /\ s[j] \in Nat
    BY <1>2
  <2>2. ~(s[i] < s[j]) /\ ~(s[j] < s[i])
    <3>. HIDE DEF s
    <3>. QED
      BY <1>3, <2>1
  <2>3. ~(i < j) /\ ~(j < i)
    BY <1>2, <2>2
  <2>. HIDE DEF n, s
  <2>. QED
    BY <1>1, <2>3
<1>4. s \in Surjection(1..n, S)
  <2>1. s \in Injection(1..n, S)
    BY <1>2, <1>3 DEF Injection, IsInjective
  <2>2. IsFiniteSet(1..n) /\ Cardinality(1..n) = n
    BY <1>1, FS_Interval
  <2>. HIDE DEF s
  <2>. QED
    BY <2>1, <2>2, FS_Injection
<1>. QED
  BY <1>1, <1>2, <1>4 DEF Surjection

LEMMA Lengthened ==
  ASSUME NEW T, NEW p \in Seq(T), NEW x \in T
  PROVE  /\ Len(Append(p, x)) = Len(p) + 1 /\ Append(p, x)[Len(Append(p, x))] = x
         /\ Append(p, x) # <<>>
         /\ \A i \in 1..Len(p) : Append(p, x)[i] = p[i]
BY AppendProperties

\* R is the queue Q without its first path, and then the paths W.
Requeues(R, Q, W) ==
  /\ Len(R) = Len(Q) - 1 + Len(W)
  /\ \A j \in 1..Len(R) : \/ j + 1 \in 1..Len(Q) /\ R[j] = Q[j + 1]
                          \/ /\ j - (Len(Q) - 1) \in 1..Len(W) /\ j > Len(Q) - 1
                             /\ R[j] = W[j - (Len(Q) - 1)]
  /\ \A i \in 2..Len(Q) : i - 1 \in 1..Len(R) /\ R[i - 1] = Q[i]
  /\ \A k \in 1..Len(W) : Len(Q) - 1 + k \in 1..Len(R) /\ R[Len(Q) - 1 + k] = W[k]

LEMMA Requeued ==
  ASSUME NEW T, NEW Q \in Seq(T), Q # <<>>, NEW W \in Seq(T)
  PROVE  Tail(Q) \o W \in Seq(T) /\ Requeues(Tail(Q) \o W, Q, W)
<1>1. Tail(Q) \in Seq(T) /\ Len(Tail(Q)) = Len(Q) - 1 /\ Len(Q) \in Nat /\ Len(Q) > 0
      /\ Len(W) \in Nat
  OBVIOUS
<1>2. \A j \in 1..(Len(Q) - 1) : Tail(Q)[j] = Q[j + 1]
  OBVIOUS
<1>. DEFINE A == Tail(Q)
            R == A \o W
<1>3. A \in Seq(T) /\ Len(A) = Len(Q) - 1 /\ \A j \in 1..Len(A) : A[j] = Q[j + 1]
  BY <1>1, <1>2
<1>. HIDE DEF A
<1>4. R \in Seq(T) /\ Len(R) = Len(A) + Len(W)
  BY <1>3, ConcatProperties
<1>5. \A j \in 1..Len(R) : R[j] = IF j <= Len(A) THEN A[j] ELSE W[j - Len(A)]
  BY <1>3, ConcatProperties
<1>. HIDE DEF R
<1>6. ASSUME NEW j \in 1..Len(R)
      PROVE  \/ j + 1 \in 1..Len(Q) /\ R[j] = Q[j + 1]
             \/ /\ j - (Len(Q) - 1) \in 1..Len(W) /\ j > Len(Q) - 1
                /\ R[j] = W[j - (Len(Q) - 1)]
  BY <1>1, <1>3, <1>4, <1>5
<1>7. ASSUME NEW i \in 2..Len(Q) PROVE i - 1 \in 1..Len(R) /\ R[i - 1] = Q[i]
  BY <1>1, <1>3, <1>4, <1>5
<1>8. ASSUME NEW k \in 1..Len(W)
      PROVE  Len(Q) - 1 + k \in 1..Len(R) /\ R[Len(Q) - 1 + k] = W[k]
  <2>. DEFINE j == Len(Q) - 1 + k
  <2>1. k \in Nat /\ j \in 1..Len(R) /\ j - Len(A) = k /\ ~(j <= Len(A))
    BY <1>1, <1>3, <1>4
  <2>. HIDE DEF j
  <2>2. R[j] = W[k]
    BY <1>5, <2>1
  <2>. QED
    BY <2>1, <2>2 DEF j
<1>9. R \in Seq(T) /\ Len(R) = Len(Q) - 1 + Len(W)
  BY <1>3, <1>4
<1>. QED
  BY <1>6, <1>7, <1>8, <1>9 DEF R, A, Requeues

\* Other writers only take from the steady edges and add to the others.
LEMMA SearchCommitted ==
  ASSUME NEW r \in PathSearches, NEW q \in PathSearches, Searching(r),
         q.start = r.start, q.goal = r.goal, q.visited = r.visited, q.queue = r.queue,
         q.steady \subseteq r.steady, r.ever \subseteq q.ever
  PROVE  Searching(q)
<1>1. \A v : Extended(r, v) => Extended(q, v)
  BY DEF Extended
<1>2. Hops(r.ever) \subseteq Hops(q.ever)
  BY DEF Hops
<1>3. \A p : PathFrom(r, p) => PathFrom(q, p)
  BY <1>2 DEF PathFrom
<1>4. ASSUME r.queue # <<>>
      PROVE  Forward(q.steady, r.start, Len(r.queue[1]) - 1)
               \subseteq Forward(r.steady, r.start, Len(r.queue[1]) - 1)
  <2>1. r.queue \in Seq(Seq(Ids))
    BY DEF PathSearches
  <2>2. 1 \in 1..Len(r.queue) /\ r.queue[1] \in Seq(Ids)
    BY <1>4, <2>1
  <2>3. r.queue[1] # <<>>
    BY <2>2 DEF Searching, PathFrom
  <2>4. Len(r.queue[1]) - 1 \in Nat
    BY <2>2, <2>3
  <2>. QED
    BY <2>4, ForwardGrows
<1>. QED
  BY <1>1, <1>3, <1>4 DEF Searching

\* The first path leads to the goal: no path that was there throughout is shorter.
LEMMA SearchFinds ==
  ASSUME NEW r \in PathSearches, NEW q \in PathSearches, Searching(r), r.queue # <<>>,
         NEW e \in r.ever, e.source = r.queue[1][Len(r.queue[1])], e.target = r.goal,
         q.start = r.start, q.goal = r.goal, q.path = Append(r.queue[1], r.goal),
         q.steady = r.steady, q.ever = r.ever
  PROVE  Shortest(q)
<1>. DEFINE p == r.queue[1]
            N == Cardinality(Ids)
            d == Distance(r.steady, r.start, r.goal, N)
<1>1. r.queue \in Seq(Seq(Ids)) /\ 1 \in 1..Len(r.queue) /\ r.goal \in Ids
  BY DEF PathSearches
<1>2. p \in Seq(Ids) /\ PathFrom(r, p)
  BY <1>1 DEF Searching
<1>3. Len(p) \in Nat /\ Len(p) > 0 /\ p # <<>>
  BY <1>2 DEF PathFrom
<1>. DEFINE path == Append(p, r.goal)
<1>. HIDE DEF p
<1>4. Len(path) = Len(p) + 1 /\ path[Len(path)] = r.goal /\ path # <<>>
      /\ \A i \in 1..Len(p) : path[i] = p[i]
  BY <1>1, <1>2, Lengthened
<1>5. path[1] = r.start
  BY <1>2, <1>3, <1>4 DEF PathFrom
<1>. HIDE DEF path
<1>6. ASSUME NEW i \in 1..(Len(path) - 1) PROVE <<path[i], path[i + 1]>> \in Hops(r.ever)
  <2>1. CASE i = Len(p)
    <3>1. path[i] = e.source /\ path[i + 1] = e.target
      BY <1>3, <1>4, <2>1 DEF p
    <3>. QED
      BY <3>1 DEF Hops
  <2>2. CASE i # Len(p)
    <3>1. i \in 1..(Len(p) - 1) /\ path[i] = p[i] /\ path[i + 1] = p[i + 1]
      BY <1>3, <1>4, <2>2
    <3>. QED
      BY <1>2, <3>1 DEF PathFrom
  <2>. QED
    BY <2>1, <2>2
<1>7. ASSUME d < N PROVE Len(path) <= d + 1
  <2>1. N \in Nat
    BY FS_CardinalityType, GraphAssumption
  <2>2. d \in 0..N /\ r.goal \in Forward(r.steady, r.start, d)
    BY <1>7, <2>1, DistanceIsLeast
  <2>. HIDE DEF d
  <2>3. ~(d <= Len(p) - 1)
    <3>1. SUFFICES ASSUME d <= Len(p) - 1 PROVE FALSE
      OBVIOUS
    <3>2. d \in Nat /\ Len(p) - 1 \in Nat
      BY <1>3, <2>1, <2>2
    <3>3. r.goal \in Forward(r.steady, r.start, Len(p) - 1)
      BY <2>2, <3>1, <3>2, ForwardGrows
    <3>. QED
      BY <3>3 DEF Searching, p
  <2>. QED
    BY <1>3, <1>4, <2>1, <2>2, <2>3
<1>8. q.path = path
  BY DEF path, p
<1>. QED
  BY <1>4, <1>5, <1>6, <1>7, <1>8 DEF Shortest

\* The queue is empty: the visited nodes are all that can be reached.
LEMMA SearchExhausted ==
  ASSUME NEW r \in PathSearches, NEW q \in PathSearches, Searching(r), r.queue = <<>>,
         q.start = r.start, q.goal = r.goal, q.path = <<>>, q.steady = r.steady
  PROVE  Shortest(q)
<1>1. Len(r.queue) = 0
  OBVIOUS
<1>2. \A v \in r.visited : Extended(r, v)
  BY <1>1 DEF Searching
<1>3. \A e \in r.steady : e.source \in r.visited => e.target \in r.visited
  BY <1>2 DEF Extended
<1>4. Cardinality(Ids) \in Nat
  BY FS_CardinalityType, GraphAssumption
<1>5. ASSUME NEW n \in 0..(Cardinality(Ids) - 1)
      PROVE  r.goal \notin Forward(r.steady, r.start, n)
  <2>1. n \in Nat
    BY <1>4
  <2>. QED
    BY <1>3, <2>1, ForwardClosed DEF Searching
<1>6. Distance(r.steady, r.start, r.goal, Cardinality(Ids)) = Cardinality(Ids)
  BY <1>4, <1>5, DistanceIsLeast
<1>. QED
  BY <1>6 DEF Shortest

\* outs are the nodes that edges lead to from the end of the first path, steady
\* ones among them.
LeadsTo(r, outs) ==
  LET last == r.queue[1][Len(r.queue[1])] IN
  /\ outs \subseteq Ids
  /\ \A v \in outs : \E e \in r.ever : e.source = last /\ e.target = v
  /\ \A e \in r.steady : e.source = last => e.target \in outs

\* q is r with its first path replaced by the extensions of it to new, which lists
\* those of outs that had not been visited.
Extends(q, r, outs, new, n) ==
  /\ n \in Nat /\ new \in [1..n -> outs \ r.visited]
  /\ \A v \in outs \ r.visited : \E k \in 1..n : new[k] = v
  /\ q.queue = Tail(r.queue) \o [k \in 1..n |-> Append(r.queue[1], new[k])]
  /\ q.visited = r.visited \cup outs
  /\ q.start = r.start /\ q.goal = r.goal /\ q.steady = r.steady /\ q.ever = r.ever

LEMMA SearchExtended ==
  ASSUME NEW r \in PathSearches, NEW q \in PathSearches, Searching(r), r.queue # <<>>,
         NEW outs, LeadsTo(r, outs), r.goal \notin outs,
         NEW n, NEW new, Extends(q, r, outs, new, n)
  PROVE  Searching(q)
<1>. USE DEF LeadsTo, Extends
<1>. DEFINE Q == r.queue
            R == q.queue
            p == Q[1]
            L == Len(p)
            W == [k \in 1..n |-> Append(p, new[k])]
            m == Len(Q)
<1>1. Q \in Seq(Seq(Ids)) /\ m \in Nat /\ m > 0
  BY DEF PathSearches
<1>2. p \in Seq(Ids) /\ PathFrom(r, p)
  BY <1>1 DEF Searching
<1>3. L \in Nat /\ L > 0
  BY <1>2 DEF PathFrom
<1>4. W \in Seq(Seq(Ids)) /\ Len(W) = n
  BY <1>2
<1>5. ASSUME NEW k \in 1..n
      PROVE  /\ Len(W[k]) = L + 1 /\ W[k][L + 1] = new[k]
             /\ \A i \in 1..L : W[k][i] = p[i]
  <2>1. W[k] = Append(p, new[k]) /\ new[k] \in Ids
    OBVIOUS
  <2>. HIDE DEF W, p
  <2>. QED
    BY <1>2, <1>3, <2>1
<1>6. /\ \A j \in 1..Len(R) : \/ j + 1 \in 1..m /\ R[j] = Q[j + 1]
                              \/ j - (m - 1) \in 1..n /\ j > m - 1 /\ R[j] = W[j - (m - 1)]
      /\ \A i \in 2..m : i - 1 \in 1..Len(R) /\ R[i - 1] = Q[i]
      /\ \A k \in 1..n : m - 1 + k \in 1..Len(R) /\ R[m - 1 + k] = W[k]
      /\ Len(R) \in Nat /\ R \in Seq(Seq(Ids))
  <2>1. R = Tail(Q) \o W /\ Q # <<>>
    OBVIOUS
  <2>. HIDE DEF W, R, Q
  <2>2. R \in Seq(Seq(Ids)) /\ Requeues(R, Q, W)
    BY <1>1, <1>4, <2>1, Requeued
  <2>3. Len(R) \in Nat
    BY <1>1, <1>4, <2>2 DEF Requeues
  <2>. QED
    BY <1>4, <2>2, <2>3 DEF Requeues
<1>7. \A i \in 1..m : /\ Len(Q[i]) \in Nat /\ L <= Len(Q[i]) /\ Len(Q[i]) <= L + 1
  <2>1. \A i \in 1..m : Q[i] \in Seq(Ids) /\ 1 <= i
    BY <1>1
  <2>2. 1 \in 1..m
    BY <1>1
  <2>. QED
    BY <2>1, <2>2 DEF Searching
<1>8. \A v : Extended(r, v) => Extended(q, v)
  BY DEF Extended
<1>9. Extended(q, p[L])
  BY DEF Extended
<1>10. ASSUME NEW j \in 1..Len(R)
       PROVE  /\ PathFrom(q, R[j])
              /\ Len(R[j]) \in Nat /\ L <= Len(R[j]) /\ Len(R[j]) <= L + 1
  <2>1. CASE j + 1 \in 1..m /\ R[j] = Q[j + 1]
    <3>1. PathFrom(r, Q[j + 1])
      BY <2>1 DEF Searching
    <3>2. PathFrom(q, Q[j + 1])
      BY <3>1 DEF PathFrom
    <3>. HIDE DEF R, Q
    <3>. QED
      BY <1>7, <2>1, <3>2
  <2>2. ASSUME NEW k \in 1..n, R[j] = W[k]
        PROVE  /\ PathFrom(q, R[j])
               /\ Len(R[j]) \in Nat /\ L <= Len(R[j]) /\ Len(R[j]) <= L + 1
    <3>1. new[k] \in outs /\ new[k] \in q.visited
      OBVIOUS
    <3>2. PICK e \in r.ever : e.source = p[L] /\ e.target = new[k]
      BY <3>1
    <3>. DEFINE w == W[k]
    <3>3. Len(w) = L + 1 /\ w[L + 1] = new[k] /\ \A i \in 1..L : w[i] = p[i]
      BY <1>5
    <3>4. ASSUME NEW i \in 1..(Len(w) - 1) PROVE <<w[i], w[i + 1]>> \in Hops(q.ever)
      <4>1. CASE i = L
        <5>1. w[i] = p[L] /\ w[i + 1] = new[k]
          BY <1>3, <3>3, <4>1
        <5>2. w[i] = e.source /\ w[i + 1] = e.target
          BY <3>2, <5>1
        <5>3. <<e.source, e.target>> \in Hops(q.ever)
          BY DEF Hops
        <5>. QED
          BY <5>2, <5>3
      <4>2. CASE i # L
        <5>1. i \in 1..(L - 1) /\ w[i] = p[i] /\ w[i + 1] = p[i + 1]
          BY <1>3, <3>3, <4>2
        <5>. HIDE DEF w, p
        <5>. QED
          BY <1>2, <5>1 DEF PathFrom
      <4>. QED
        BY <4>1, <4>2
    <3>5. w # <<>> /\ w[1] = q.start /\ w[Len(w)] \in q.visited
      <4>1. w[1] = p[1] /\ p[1] = r.start
        BY <1>2, <1>3, <3>3 DEF PathFrom
      <4>2. Len(w) # 0
        BY SMTT(30), <1>3, <3>3
      <4>. HIDE DEF w, p
      <4>. QED
        BY <3>1, <3>3, <4>1, <4>2
    <3>. HIDE DEF w
    <3>6. PathFrom(q, w)
      <4>. HIDE DEF Q, R, p, L, W, m, LeadsTo, Extends
      <4>. QED
        BY <3>4, <3>5 DEF PathFrom
    <3>7. R[j] = w
      BY <2>2 DEF w
    <3>. HIDE DEF R, W, p, L
    <3>. QED
      BY <1>3, <3>3, <3>6, <3>7
  <2>. HIDE DEF R, Q, W, p, L
  <2>. QED
    BY <1>6, <2>1, <2>2
<1>11. ASSUME NEW i \in 1..Len(R), NEW j \in 1..Len(R), i <= j
       PROVE  Len(R[i]) <= Len(R[j]) /\ Len(R[j]) <= Len(R[i]) + 1
  <2>0. L <= Len(R[i]) /\ Len(R[i]) <= L + 1 /\ L <= Len(R[j]) /\ Len(R[j]) <= L + 1
        /\ Len(R[i]) \in Nat /\ Len(R[j]) \in Nat
    BY <1>10
  <2>1. CASE j + 1 \in 1..m /\ R[j] = Q[j + 1]
    <3>1. i + 1 \in 1..m /\ R[i] = Q[i + 1]
      <4>. HIDE DEF R, Q, W, p, L
      <4>1. i \in Nat /\ j \in Nat /\ ~(i > m - 1) /\ i + 1 \in 1..m
        <5>1. Len(R) \in Nat /\ m \in Nat
          BY <1>1, <1>6
        <5>2. i \in Nat /\ j \in Nat /\ 1 <= i /\ i <= j
          BY <1>11, <5>1
        <5>3. j + 1 <= m
          BY <2>1, <5>1, <5>2
        <5>. HIDE DEF m
        <5>. QED
          BY <5>1, <5>2, <5>3
      <4>2. \/ i + 1 \in 1..m /\ R[i] = Q[i + 1]
            \/ i - (m - 1) \in 1..n /\ i > m - 1 /\ R[i] = W[i - (m - 1)]
        BY <1>6
      <4>. HIDE DEF m
      <4>. QED
        BY <4>1, <4>2
    <3>2. i + 1 <= j + 1
      BY <1>11
    <3>3. Len(Q[i + 1]) <= Len(Q[j + 1]) /\ Len(Q[j + 1]) <= Len(Q[i + 1]) + 1
      BY <2>1, <3>1, <3>2 DEF Searching
    <3>. HIDE DEF R, Q
    <3>. QED
      BY <2>1, <3>1, <3>3
  <2>2. ASSUME NEW k \in 1..n, R[j] = W[k]
        PROVE  Len(R[i]) <= Len(R[j]) /\ Len(R[j]) <= Len(R[i]) + 1
    <3>1. Len(R[j]) = L + 1
      BY <1>5, <2>2
    <3>. HIDE DEF R, L
    <3>. QED
      BY <1>3, <2>0, <3>1
  <2>. HIDE DEF R, Q, W, p, L
  <2>. QED
    BY <1>6, <2>1, <2>2
<1>12. ASSUME NEW i \in 1..m
       PROVE  \/ Extended(q, Q[i][Len(Q[i])])
              \/ \E j \in 1..Len(R) : R[j] = Q[i]
  <2>1. CASE i = 1
    BY <1>9, <2>1
  <2>2. CASE i # 1
    <3>1. i \in 2..m
      BY <1>1, <2>2
    <3>. HIDE DEF R, Q, W
    <3>. QED
      BY SMTT(30), <1>6, <3>1
  <2>. QED
    BY <2>1, <2>2
<1>13. ASSUME NEW v \in q.visited
       PROVE  Extended(q, v) \/ \E j \in 1..Len(R) : R[j][Len(R[j])] = v
  <2>1. CASE v \in r.visited
    <3>1. Extended(r, v) \/ \E i \in 1..m : Q[i][Len(Q[i])] = v
      BY <2>1 DEF Searching
    <3>. HIDE DEF R, Q
    <3>2. ASSUME NEW i \in 1..m, Q[i][Len(Q[i])] = v
          PROVE  Extended(q, v) \/ \E j \in 1..Len(R) : R[j][Len(R[j])] = v
      BY <1>12, <3>2
    <3>. QED
      BY <1>8, <3>1, <3>2
  <2>2. CASE v \notin r.visited
    <3>1. v \in outs \ r.visited
      BY <2>2
    <3>2. PICK k \in 1..n : new[k] = v
      BY <3>1
    <3>3. W[k][Len(W[k])] = v
      BY SMTT(30), <1>3, <1>5, <3>2
    <3>. HIDE DEF R, W
    <3>. QED
      BY <1>6, <3>3
  <2>. QED
    BY <2>1, <2>2
<1>14. ASSUME R # <<>>, NEW v \in Forward(r.steady, r.start, Len(R[1]) - 1)
       PROVE  /\ v \in q.visited
              /\ Extended(q, v) \/ \E j \in 1..Len(R) : /\ R[j][Len(R[j])] = v
                                                        /\ Len(R[j]) = Len(R[1])
  <2>1. 1 \in 1..Len(R) /\ \A j \in 1..Len(R) : 1 <= j
    BY <1>6, <1>14
  <2>2. Len(R[1]) \in Nat /\ L <= Len(R[1]) /\ Len(R[1]) <= L + 1
    BY <1>10, <2>1
  <2>3. ASSUME NEW u \in Forward(r.steady, r.start, L - 1)
        PROVE  /\ u \in r.visited
               /\ Extended(q, u) \/ \E j \in 1..Len(R) : /\ R[j][Len(R[j])] = u
                                                         /\ Len(R[j]) = L
    <3>1. /\ u \in r.visited
          /\ Extended(r, u) \/ \E i \in 1..m : Q[i][Len(Q[i])] = u /\ Len(Q[i]) = L
      BY <2>3 DEF Searching
    <3>. HIDE DEF R, Q, L
    <3>2. ASSUME NEW i \in 1..m, Q[i][Len(Q[i])] = u, Len(Q[i]) = L
          PROVE  Extended(q, u) \/ \E j \in 1..Len(R) : /\ R[j][Len(R[j])] = u
                                                         /\ Len(R[j]) = L
      BY <1>12, <3>2
    <3>. QED
      BY <1>8, <3>1, <3>2
  <2>4. CASE Len(R[1]) = L
    <3>. HIDE DEF R, L
    <3>. QED
      BY <1>14, <2>3, <2>4
  <2>5. CASE Len(R[1]) = L + 1
    <3>1. ASSUME NEW u \in Forward(r.steady, r.start, L - 1) PROVE Extended(q, u)
      <4>1. \A j \in 1..Len(R) : Len(R[j]) # L
        <5>. HIDE DEF R, L
        <5>. QED
          BY <1>3, <1>10, <1>11, <2>1, <2>5
      <4>. HIDE DEF R, L
      <4>. QED
        BY <2>3, <4>1
    <3>2. v \in q.visited
      <4>. DEFINE k == L - 1
      <4>1. k \in Nat /\ v \in Forward(r.steady, r.start, k + 1)
        <5>. HIDE DEF L, R
        <5>1. Len(R[1]) - 1 = k + 1 /\ k \in Nat
          BY <1>3, <2>5
        <5>. QED
          BY <1>14, <5>1
      <4>2. \A e \in r.steady : e.source \in Forward(r.steady, r.start, k)
                                => e.target \in q.visited
        BY <3>1 DEF Extended
      <4>3. r.start \in q.visited
        BY DEF Searching
      <4>. HIDE DEF k
      <4>4. Forward(r.steady, r.start, k + 1) \subseteq q.visited
        BY <4>1, <4>2, <4>3, ForwardThrough
      <4>. QED
        BY <4>1, <4>4
    <3>3. Extended(q, v) \/ \E j \in 1..Len(R) : R[j][Len(R[j])] = v
      BY <1>13, <3>2
    <3>4. \A j \in 1..Len(R) : Len(R[j]) = Len(R[1])
      <4>. HIDE DEF R, L
      <4>. QED
        BY <1>3, <1>10, <1>11, <2>1, <2>5
    <3>. HIDE DEF R
    <3>. QED
      BY <3>2, <3>3, <3>4
  <2>6. Len(R[1]) = L \/ Len(R[1]) = L + 1
    <3>. HIDE DEF R, L, Q, W, m, LeadsTo, Extends
    <3>. QED
      BY <1>3, <2>2
  <2>. HIDE DEF R, L, Q, W, m, LeadsTo, Extends
  <2>. QED
    BY <2>4, <2>5, <2>6
<1>15. q.start \in q.visited /\ q.goal \notin q.visited
  BY DEF Searching
<1>16. q.steady = r.steady /\ q.start = r.start
  OBVIOUS
<1>. HIDE DEF Q, p, L, W, m, LeadsTo, Extends
<1>17. \A i \in 1..Len(q.queue) : PathFrom(q, q.queue[i])
  BY <1>10
<1>18. \A i, j \in 1..Len(q.queue) : i <= j =>
         Len(q.queue[i]) <= Len(q.queue[j]) /\ Len(q.queue[j]) <= Len(q.queue[i]) + 1
  BY <1>11
<1>19. q.queue # <<>> =>
         \A v \in Forward(q.steady, q.start, Len(q.queue[1]) - 1) :
           /\ v \in q.visited
           /\ Extended(q, v) \/
                \E j \in 1..Len(q.queue) : /\ q.queue[j][Len(q.queue[j])] = v
                                           /\ Len(q.queue[j]) = Len(q.queue[1])
  BY <1>14, <1>16
<1>. QED
  BY <1>13, <1>15, <1>17, <1>18, <1>19 DEF Searching

-----------------------------------------------------------------------------
(***************************************************************************)
(* The traversals, with writers committing between their steps.             *)
(***************************************************************************)

\* The edges now are between those that were always there and those that ever were.
Between(r) == r.steady \subseteq edges /\ edges \subseteq r.ever

NeighborsInv(r) ==
  /\ r \in Neighborhoods
  /\ IF r.at = "done" THEN Right(r)
     ELSE /\ Between(r) /\ Spread(r) /\ r.frontier # {}
          /\ r.at # "level" => store = "bolt"
          /\ r.at = "in" =>
               /\ r.node \in r.frontier
               /\ \A e \in r.steady : e.source = r.node => e \in r.found /\ e.target \in r.visited

PathInv(r) ==
  /\ r \in PathSearches
  /\ IF r.at = "done" THEN Shortest(r)
     ELSE store = "bolt" /\ Between(r) /\ Searching(r) /\ r.path = <<>>

\* What an export promises of its result.
Closed(r) ==
  /\ \A e \in r.found : r.copies[e.target] > 0
  /\ \A id \in Ids : r.copies[id] > 1 =>
       /\ store = "kg"
       /\ r.copies[id] = Cardinality({e \in r.found : e.target = id})

ExportInv(r) ==
  /\ r \in Exports
  /\ r.at = "edges" => \A id \in Ids : r.copies[id] \in {0, 1}
  /\ r.at = "done" => Closed(r)

\* The inductive invariant of a traversal.
ReadInv == read = NoRead \/ NeighborsInv(read) \/ PathInv(read) \/ ExportInv(read)

GraphInv == store \in {"kg", "bolt"} /\ IndexInv /\ ReadInv

-----------------------------------------------------------------------------

LEMMA EdgesFinite == IsFiniteSet(Edges)
<1>. DEFINE C == Ids \X (Ids \X EdgeTypes)
            f == [x \in C |-> [source |-> x[1], target |-> x[2][1], type |-> x[2][2]]]
<1>1. IsFiniteSet(C)
  <2>1. IsFiniteSet(Ids \X EdgeTypes)
    BY FS_Product, GraphAssumption
  <2>. QED
    BY <2>1, FS_Product, GraphAssumption
<1>2. f \in Surjection(C, {f[x] : x \in C})
  BY DEF Surjection
<1>3. IsFiniteSet({f[x] : x \in C})
  <2>. HIDE DEF f, C
  <2>. QED
    BY <1>1, <1>2, FS_Surjection
<1>4. Edges \subseteq {f[x] : x \in C}
  <2>. SUFFICES ASSUME NEW e \in Edges PROVE \E x \in C : e = f[x]
    OBVIOUS
  <2>. DEFINE x == <<e.source, <<e.target, e.type>>>>
  <2>1. x \in C /\ e = f[x]
    BY DEF Edges
  <2>. HIDE DEF x, C, f
  <2>. QED
    BY <2>1
<1>. HIDE DEF f, C
<1>. QED
  BY <1>3, <1>4, FS_Subset

\* What a traversal does next depends on its kind.
LEMMA KindOf ==
  ASSUME ReadInv
  PROVE  /\ (read.kind = "neighbors" \/ At("level") \/ At("out") \/ At("in")) => NeighborsInv(read)
         /\ (read.kind = "path" \/ At("search")) => PathInv(read)
         /\ (read.kind = "export" \/ At("nodes") \/ At("edges")) => ExportInv(read)
<1>1. NeighborsInv(read) => read.kind = "neighbors" /\ read.at \in {"level", "out", "in", "done"}
  BY DEF NeighborsInv, Neighborhoods
<1>2. PathInv(read) => read.kind = "path" /\ read.at \in {"search", "done"}
  BY DEF PathInv, PathSearches
<1>3. ExportInv(read) => read.kind = "export" /\ read.at \in {"nodes", "edges", "done"}
  BY DEF ExportInv, Exports
<1>4. read = NoRead => read.kind = "none" /\ \A stage : ~At(stage)
  BY DEF NoRead, At
<1>5. \A stage : At(stage) => read.at = stage
  BY DEF At
<1>. HIDE DEF At
<1>. QED
  BY <1>1, <1>2, <1>3, <1>4, <1>5 DEF ReadInv

-----------------------------------------------------------------------------
\* Writers commit.

LEMMA WriteCommits ==
  ASSUME Write
  PROVE  /\ store' = store
         /\ read' = IF read = NoRead \/ read.at = "done" THEN read
                    ELSE [read EXCEPT !.steady = @ \cap edges', !.ever = @ \cup edges']
<1>1. \A vs, es, out, in : Commit(vs, es, out, in) =>
        /\ store' = store
        /\ read' = IF read = NoRead \/ read.at = "done" THEN read
                   ELSE [read EXCEPT !.steady = @ \cap edges', !.ever = @ \cup edges']
  BY DEF Commit
<1>2. \E vs, es, out, in : Commit(vs, es, out, in)
  BY DEF Write, PutVertex, RemoveEdgesFrom, RemoveVertex, RemoveNode, PutEdge,
     Drop
<1>. QED
  BY <1>1, <1>2

LEMMA NeighborsCommitted ==
  ASSUME NeighborsInv(read), read.at # "done", edges' \subseteq Edges, store' = store,
         read' = [read EXCEPT !.steady = @ \cap edges', !.ever = @ \cup edges']
  PROVE  NeighborsInv(read)'
<1>1. read \in Neighborhoods /\ Spread(read) /\ read.frontier # {}
  BY DEF NeighborsInv
<1>2. read' \in Neighborhoods
  BY <1>1 DEF Neighborhoods
<1>3. /\ read'.at = read.at /\ read'.start = read.start /\ read'.depth = read.depth
      /\ read'.hops = read.hops /\ read'.visited = read.visited
      /\ read'.frontier = read.frontier /\ read'.node = read.node
      /\ read'.next = read.next /\ read'.found = read.found
      /\ read'.steady = read.steady \cap edges' /\ read'.ever = read.ever \cup edges'
  BY <1>1 DEF Neighborhoods
<1>4. Spread(read')
  <2>. DEFINE r == read
              q == read'
  <2>1. q.steady \subseteq r.steady /\ r.ever \subseteq q.ever
    BY <1>3
  <2>2. r \in Neighborhoods /\ q \in Neighborhoods /\ Spread(r)
    BY <1>1, <1>2
  <2>3. /\ q.start = r.start /\ q.depth = r.depth /\ q.hops = r.hops
        /\ q.visited = r.visited /\ q.frontier = r.frontier /\ q.next = r.next
        /\ q.found = r.found
    BY <1>3
  <2>. HIDE DEF r, q
  <2>4. Spread(q)
    BY <2>1, <2>2, <2>3, SpreadCommitted
  <2>. QED
    BY <2>4 DEF q
<1>5. Between(read)'
  BY <1>3 DEF Between
<1>6. /\ read.at # "level" => store = "bolt"
      /\ read.at = "in" =>
           /\ read.node \in read.frontier
           /\ \A e \in read.steady : e.source = read.node => e \in read.found
                                                             /\ e.target \in read.visited
  BY DEF NeighborsInv
<1>. QED
  BY <1>1, <1>2, <1>3, <1>4, <1>5, <1>6 DEF NeighborsInv

LEMMA PathCommitted ==
  ASSUME PathInv(read), read.at # "done", edges' \subseteq Edges, store' = store,
         read' = [read EXCEPT !.steady = @ \cap edges', !.ever = @ \cup edges']
  PROVE  PathInv(read)'
<1>1. read \in PathSearches /\ Searching(read) /\ store = "bolt" /\ read.path = <<>>
  BY DEF PathInv
<1>2. read' \in PathSearches
  BY <1>1 DEF PathSearches
<1>3. /\ read'.at = read.at /\ read'.start = read.start /\ read'.goal = read.goal
      /\ read'.visited = read.visited /\ read'.queue = read.queue /\ read'.path = read.path
      /\ read'.steady = read.steady \cap edges' /\ read'.ever = read.ever \cup edges'
  BY <1>1 DEF PathSearches
<1>4. Searching(read')
  BY <1>1, <1>2, <1>3, SearchCommitted
<1>5. Between(read)'
  BY <1>3 DEF Between
<1>. QED
  BY <1>1, <1>2, <1>3, <1>4, <1>5 DEF PathInv

LEMMA ExportCommitted ==
  ASSUME ExportInv(read), read.at # "done", edges' \subseteq Edges, store' = store,
         read' = [read EXCEPT !.steady = @ \cap edges', !.ever = @ \cup edges']
  PROVE  ExportInv(read)'
<1>1. read' \in Exports
  BY DEF ExportInv, Exports
<1>2. read'.at = read.at /\ read'.copies = read.copies
  BY DEF ExportInv, Exports
<1>. QED
  BY <1>1, <1>2 DEF ExportInv

LEMMA CommitKeeps ==
  ASSUME GraphInv, IndexInv', Write
  PROVE  ReadInv'
<1>1. edges' \subseteq Edges /\ store' = store /\ ReadInv
  BY WriteCommits DEF IndexInv, GraphInv
<1>2. CASE read = NoRead \/ read.at = "done"
  <2>1. read' = read
    BY <1>2, WriteCommits
  <2>2. ASSUME read.at = "done", NeighborsInv(read) PROVE NeighborsInv(read)'
    BY <2>1, <2>2 DEF NeighborsInv
  <2>3. ASSUME read.at = "done", PathInv(read) PROVE PathInv(read)'
    BY <2>1, <2>3 DEF PathInv
  <2>4. ASSUME ExportInv(read) PROVE ExportInv(read)'
    BY <1>1, <2>1, <2>4 DEF ExportInv, Closed
  <2>. QED
    BY <1>1, <1>2, <2>1, <2>2, <2>3, <2>4 DEF ReadInv
<1>3. CASE ~(read = NoRead \/ read.at = "done")
  <2>1. read' = [read EXCEPT !.steady = @ \cap edges', !.ever = @ \cup edges']
    BY <1>3, WriteCommits
  <2>. QED
    BY <1>1, <1>3, <2>1, NeighborsCommitted, PathCommitted, ExportCommitted DEF ReadInv
<1>. QED
  BY <1>2, <1>3

-----------------------------------------------------------------------------
\* Neighbors reads.

LEMMA StartsSpread ==
  ASSUME GraphInv, NEW id \in Ids, NEW depth \in Depths, StartNeighbors(id, depth)
  PROVE  NeighborsInv(read)'
<1>. DEFINE d == IF depth < 1 THEN 1 ELSE depth
            q == [kind |-> "neighbors", at |-> IF store = "kg" THEN "level" ELSE "out",
                  start |-> id, depth |-> d, hops |-> 0, visited |-> {id}, frontier |-> {id},
                  node |-> id, next |-> {}, found |-> {}, steady |-> edges, ever |-> edges]
<1>1. read' = q /\ edges' = edges /\ store' = store
  BY DEF StartNeighbors, Begin, graphState
<1>2. d \in Nat /\ 0 < d /\ edges \subseteq Edges
  BY GraphAssumption DEF GraphInv, IndexInv
<1>. HIDE DEF d
<1>3. q \in Neighborhoods
  BY <1>2 DEF Neighborhoods
<1>4. Ball(edges, id, 0) = {id}
  BY BallNone
<1>5. Ball(edges, id, 0) \subseteq Ball(edges, id, 0 + 1)
  <2>1. 0 \in Nat /\ 0 + 1 \in Nat /\ 0 <= 0 + 1
    OBVIOUS
  <2>. QED
    BY <2>1, BallGrows
<1>6. Spread(q)
  BY <1>2, <1>4, <1>5 DEF Spread
<1>7. q.at = "done" => FALSE
  OBVIOUS
<1>8. q.frontier # {} /\ q.at # "in" /\ (q.at # "level" => store = "bolt")
  BY DEF GraphInv
<1>9. q.steady = edges /\ q.ever = edges
  OBVIOUS
<1>. HIDE DEF q
<1>10. Between(read)'
  BY <1>1, <1>9 DEF Between
<1>. QED
  BY <1>1, <1>3, <1>6, <1>7, <1>8, <1>10 DEF NeighborsInv

\* The next level, or the answer.
LEMMA LevelDoneInv ==
  ASSUME store \in {"kg", "bolt"}, NEW r \in Neighborhoods, Spread(r), Between(r),
         \A v \in r.frontier : Followed(r, v)
  PROVE  NeighborsInv(LevelDone(r))
<1>. DEFINE q == LevelDone(r)
            stage == IF r.hops + 1 = r.depth \/ r.next = {} THEN "done"
                     ELSE IF store = "kg" THEN "level" ELSE "out"
<1>1. q = [r EXCEPT !.hops = @ + 1, !.frontier = r.next, !.next = {}, !.at = stage]
  BY DEF LevelDone
<1>2. stage \in {"level", "out", "done"}
  OBVIOUS
<1>. HIDE DEF stage
<1>2a. q \in Neighborhoods
  <2>. HIDE DEF q
  <2>1. PICK n \in Nat, F \in SUBSET Ids : n = r.hops + 1 /\ F = r.next
    BY DEF Neighborhoods
  <2>2. q = [r EXCEPT !.hops = n, !.frontier = F, !.next = {}, !.at = stage]
    BY <1>1, <2>1 DEF Neighborhoods
  <2>. QED
    BY <1>2, <2>2 DEF Neighborhoods
<1>2b. /\ q.start = r.start /\ q.depth = r.depth /\ q.hops = r.hops + 1
       /\ q.visited = r.visited /\ q.frontier = r.next /\ q.next = {} /\ q.found = r.found
       /\ q.steady = r.steady /\ q.ever = r.ever /\ q.at = stage
  <2>. HIDE DEF q
  <2>. QED
    BY <1>1 DEF Neighborhoods
<1>. HIDE DEF q
<1>3. IF r.hops + 1 = r.depth \/ r.next = {} THEN Right(q) ELSE Spread(q)
  BY <1>2a, <1>2b, SpreadLevelDone
<1>4. Between(q)
  BY <1>2b DEF Between
<1>5. NeighborsInv(q)
  BY <1>2a, <1>2b, <1>3, <1>4 DEF NeighborsInv, stage
<1>. QED
  BY <1>5 DEF q

LEMMA MeetIs ==
  ASSUME NEW r \in Neighborhoods, NEW es \in SUBSET Edges, NEW ns \in SUBSET Ids
  PROVE  LET m == Meet(r, es, ns) IN
         m \in Neighborhoods /\ m.frontier = r.frontier /\ Meets(m, r, es, ns)
BY DEF Meet, Meets, Neighborhoods

LEMMA QueryLevelKeeps ==
  ASSUME GraphInv, QueryLevel
  PROVE  NeighborsInv(read)'
<1>. DEFINE r  == read
            es == Touching(edges, r.frontier)
            ns == {e.source : e \in es} \cup {e.target : e \in es}
            m  == Meet(r, es, ns)
<1>1. NeighborsInv(r) /\ r.at = "level"
  BY KindOf DEF QueryLevel, GraphInv, At
<1>2. r \in Neighborhoods /\ Spread(r) /\ Between(r)
  BY <1>1 DEF NeighborsInv
<1>3. es \in SUBSET Edges /\ es \subseteq edges /\ ns \in SUBSET Ids
      /\ \A e \in es : e.source \in r.frontier \/ e.target \in r.frontier
  BY DEF GraphInv, IndexInv, Touching, Edges
<1>4. \A e \in edges : e.source \in r.frontier \/ e.target \in r.frontier => e \in es
  BY DEF Touching
<1>5. /\ \A v \in ns : \E e \in es : v = e.source \/ v = e.target
      /\ \A e \in es : e.source \in ns /\ e.target \in ns
  OBVIOUS
<1>6. read' = LevelDone(m) /\ edges' = edges /\ store' = store
  BY DEF QueryLevel, Go, graphState
<1>. HIDE DEF r, es, ns
<1>7. m \in Neighborhoods /\ m.frontier = r.frontier /\ Meets(m, r, es, ns)
  BY <1>2, <1>3, MeetIs
<1>. HIDE DEF m
<1>8. es \in SUBSET r.ever
  BY <1>2, <1>3 DEF Between
<1>9. Spread(m)
  <2>1. /\ m.frontier \subseteq r.frontier
        /\ \A v \in r.frontier \ m.frontier : Followed(m, v)
    BY <1>7
  <2>. QED
    BY <1>2, <1>3, <1>5, <1>7, <1>8, <2>1, SpreadMet
<1>10. \A v \in m.frontier : Followed(m, v)
  <2>. SUFFICES ASSUME NEW v \in m.frontier, NEW e \in m.steady, e.source = v \/ e.target = v
                PROVE  e \in m.found /\ e.source \in m.visited /\ e.target \in m.visited
    BY DEF Followed
  <2>1. e \in edges /\ v \in r.frontier
    BY <1>2, <1>7 DEF Between, Meets
  <2>. QED
    BY <1>4, <1>5, <1>7, <2>1 DEF Meets
<1>11. Between(m)
  BY <1>2, <1>7 DEF Between, Meets
<1>12. NeighborsInv(LevelDone(m))
  BY <1>7, <1>9, <1>10, <1>11, LevelDoneInv DEF GraphInv
<1>. QED
  BY <1>6, <1>12 DEF NeighborsInv, Between

\* The indexes lead to exactly the edges that leave or enter a node.
LEMMA OutgoingAre ==
  ASSUME GraphInv, store = "bolt", NEW id \in Ids
  PROVE  /\ Outgoing(id) = {e \in edges : e.source = id}
         /\ Incoming(id) = {e \in edges : e.target = id}
<1>1. Agree(edges, outIdx, inIdx)
  BY DEF GraphInv, IndexInv
<1>2. ASSUME NEW e \in edges
      PROVE  /\ e.source = id => <<id, e.target>> \in outIdx
             /\ e.target = id => <<id, e.source>> \in inIdx
  <2>1. e.source \in Ids /\ e.target \in Ids
    BY <1>1 DEF Agree, Edges
  <2>. QED
    BY <1>1, <2>1 DEF Agree
<1>. QED
  BY <1>2 DEF Outgoing, Incoming

LEMMA FollowOutKeeps ==
  ASSUME GraphInv, FollowOut
  PROVE  NeighborsInv(read)'
<1>. DEFINE r == read
<1>1. NeighborsInv(r) /\ r.at = "out"
  BY KindOf DEF FollowOut, GraphInv, At
<1>2. r \in Neighborhoods /\ Spread(r) /\ Between(r) /\ r.frontier # {} /\ store = "bolt"
  <2>. HIDE DEF r
  <2>. QED
    BY SMTT(30), <1>1 DEF NeighborsInv
<1>3. PICK id \in r.frontier :
        LET es == Outgoing(id) IN
        read' = [Meet(r, es, {e.target : e \in es}) EXCEPT !.at = "in", !.node = id]
  BY DEF FollowOut, Go
<1>. DEFINE es == Outgoing(id)
            ns == {e.target : e \in es}
            m  == Meet(r, es, ns)
            q  == [m EXCEPT !.at = "in", !.node = id]
<1>4. id \in Ids
  BY <1>2 DEF Neighborhoods
<1>5. es = {e \in edges : e.source = id}
  BY <1>2, <1>4, OutgoingAre
<1>6. es \in SUBSET Edges /\ ns \in SUBSET Ids
  BY <1>5 DEF GraphInv, IndexInv, Edges
<1>7. /\ \A v \in ns : \E e \in es : v = e.source \/ v = e.target
      /\ \A e \in es : e.target \in ns
  OBVIOUS
<1>8. read' = q /\ edges' = edges /\ store' = store
  BY <1>3 DEF FollowOut, Go, graphState
<1>. HIDE DEF r, es, ns
<1>9. m \in Neighborhoods /\ m.frontier = r.frontier /\ Meets(m, r, es, ns)
  BY <1>2, <1>6, MeetIs
<1>. HIDE DEF m
<1>10. /\ q \in Neighborhoods /\ q.at = "in" /\ q.node = id
       /\ q.frontier = r.frontier /\ Meets(q, r, es, ns)
  BY <1>4, <1>9 DEF Neighborhoods, Meets
<1>. HIDE DEF q
<1>11. es \in SUBSET r.ever /\ \A e \in es : e.source \in r.frontier
  BY <1>2, <1>3, <1>5 DEF Between
<1>12. Spread(q)
  <2>1. \A v \in r.frontier \ q.frontier : Followed(q, v)
    BY <1>10
  <2>2. /\ q.frontier \subseteq r.frontier
        /\ \A e \in es : e.source \in r.frontier \/ e.target \in r.frontier
    BY <1>10, <1>11
  <2>. QED
    BY <1>2, <1>7, <1>10, <1>11, <2>1, <2>2, SpreadMet
<1>13. ASSUME NEW e \in q.steady, e.source = q.node
       PROVE  e \in q.found /\ e.target \in q.visited
  <2>1. e \in es
    BY <1>2, <1>5, <1>10, <1>13 DEF Between, Meets
  <2>. QED
    BY <1>7, <1>10, <2>1 DEF Meets
<1>14. Between(read)'
  BY <1>2, <1>8, <1>10 DEF Between, Meets
<1>15. q.frontier # {} /\ q.node \in q.frontier
  BY <1>3, <1>10
<1>. QED
  BY <1>2, <1>8, <1>10, <1>12, <1>13, <1>14, <1>15 DEF NeighborsInv

LEMMA FollowInKeeps ==
  ASSUME GraphInv, FollowIn
  PROVE  NeighborsInv(read)'
<1>. DEFINE r  == read
            id == r.node
            es == Incoming(id)
            ns == {e.source : e \in es}
            m  == Meet(r, es, ns)
            q  == [m EXCEPT !.at = "out", !.frontier = @ \ {id}]
<1>1. NeighborsInv(r) /\ r.at = "in"
  BY KindOf DEF FollowIn, GraphInv, At
<1>2. /\ r \in Neighborhoods /\ Spread(r) /\ Between(r) /\ store = "bolt" /\ id \in r.frontier
      /\ \A e \in r.steady : e.source = id => e \in r.found /\ e.target \in r.visited
  BY <1>1 DEF NeighborsInv
<1>3. id \in Ids
  BY <1>2 DEF Neighborhoods
<1>4. es = {e \in edges : e.target = id}
  BY <1>2, <1>3, OutgoingAre
<1>5. es \in SUBSET Edges /\ ns \in SUBSET Ids
  BY <1>4 DEF GraphInv, IndexInv, Edges
<1>6. /\ \A v \in ns : \E e \in es : v = e.source \/ v = e.target
      /\ \A e \in es : e.source \in ns
  OBVIOUS
<1>7. /\ read' = IF q.frontier = {} THEN LevelDone(q) ELSE q
      /\ edges' = edges /\ store' = store
  BY DEF FollowIn, Go, graphState
<1>. HIDE DEF r, es, ns, id
<1>8. m \in Neighborhoods /\ m.frontier = r.frontier /\ Meets(m, r, es, ns)
  BY <1>2, <1>5, MeetIs
<1>. HIDE DEF m
<1>9. /\ q \in Neighborhoods /\ q.at = "out"
      /\ q.frontier = r.frontier \ {id} /\ Meets(q, r, es, ns)
  BY <1>8 DEF Neighborhoods, Meets
<1>. HIDE DEF q
<1>10. es \in SUBSET r.ever /\ \A e \in es : e.target \in r.frontier
  BY <1>2, <1>4 DEF Between
<1>11. Followed(q, id)
  <2>. SUFFICES ASSUME NEW e \in q.steady, e.source = id \/ e.target = id
                PROVE  e \in q.found /\ e.source \in q.visited /\ e.target \in q.visited
    BY DEF Followed
  <2>0. id \in r.visited
    BY <1>2 DEF Spread
  <2>1. CASE e.source = id
    BY <1>2, <1>9, <2>0, <2>1 DEF Meets
  <2>2. CASE e.target = id
    <3>1. e \in es
      BY <1>2, <1>4, <1>9, <2>2 DEF Between, Meets
    <3>. QED
      BY <1>6, <1>9, <2>0, <2>2, <3>1 DEF Meets
  <2>. QED
    BY <2>1, <2>2
<1>12. Spread(q)
  <2>1. \A v \in r.frontier \ q.frontier : Followed(q, v)
    BY <1>9, <1>11
  <2>2. /\ q.frontier \subseteq r.frontier
        /\ \A e \in es : e.source \in r.frontier \/ e.target \in r.frontier
    BY <1>9, <1>10
  <2>. QED
    BY <1>2, <1>6, <1>9, <1>10, <2>1, <2>2, SpreadMet
<1>13. Between(q)
  BY <1>2, <1>9 DEF Between, Meets
<1>14. CASE q.frontier = {}
  <2>1. NeighborsInv(LevelDone(q))
    BY <1>2, <1>9, <1>12, <1>13, <1>14, LevelDoneInv
  <2>. QED
    BY <1>7, <1>14, <2>1 DEF NeighborsInv, Between
<1>15. CASE q.frontier # {}
  BY <1>2, <1>7, <1>9, <1>12, <1>13, <1>15 DEF NeighborsInv, Between
<1>. QED
  BY <1>14, <1>15

-----------------------------------------------------------------------------
\* ShortestPath reads.

LEMMA StartPathKeeps ==
  ASSUME GraphInv, NEW from \in Ids, NEW to \in Ids, StartPath(from, to)
  PROVE  PathInv(read)'
<1>. DEFINE q == [kind |-> "path", at |-> IF from = to THEN "done" ELSE "search",
                  start |-> from, goal |-> to, visited |-> {from}, queue |-> <<<<from>>>>,
                  path |-> IF from = to THEN <<from>> ELSE <<>>,
                  steady |-> edges, ever |-> edges]
<1>1. read' = q /\ edges' = edges /\ store' = store /\ store = "bolt"
  BY DEF StartPath, Begin, graphState
<1>2. edges \subseteq Edges
  BY DEF GraphInv, IndexInv
<1>3. <<from>> \in Seq(Ids) /\ <<<<from>>>> \in Seq(Seq(Ids)) /\ <<>> \in Seq(Ids)
  OBVIOUS
<1>4. q \in PathSearches
  BY <1>2, <1>3 DEF PathSearches
<1>5. /\ q.at = (IF from = to THEN "done" ELSE "search") /\ q.start = from /\ q.goal = to
      /\ q.visited = {from} /\ q.queue = <<<<from>>>>
      /\ q.path = (IF from = to THEN <<from>> ELSE <<>>)
      /\ q.steady = edges /\ q.ever = edges
  OBVIOUS
<1>. HIDE DEF q
<1>6. CASE from = to
  <2>. DEFINE N == Cardinality(Ids)
              d == Distance(q.steady, q.start, q.goal, N)
  <2>1. N \in Nat
    BY FS_CardinalityType, GraphAssumption
  <2>2. d \in 0..N
    BY <2>1, DistanceIsLeast
  <2>3. q.path = <<from>> /\ q.path # <<>> /\ Len(q.path) = 1
    BY <1>5, <1>6
  <2>4. q.path[1] = q.start /\ q.path[Len(q.path)] = q.goal
    BY <1>5, <1>6, <2>3
  <2>5. \A i \in 1..(Len(q.path) - 1) : <<q.path[i], q.path[i + 1]>> \in Hops(q.ever)
    BY <2>3
  <2>6. Len(q.path) <= d + 1
    <3>. HIDE DEF d
    <3>. QED
      BY <2>1, <2>2, <2>3
  <2>7. Shortest(q)
    BY <2>3, <2>4, <2>5, <2>6 DEF Shortest
  <2>. QED
    BY <1>1, <1>4, <1>5, <1>6, <2>7 DEF PathInv
<1>7. CASE from # to
  <2>1. Len(q.queue) = 1 /\ q.queue[1] = <<from>> /\ Len(q.queue[1]) = 1
        /\ q.queue[1][1] = from
    BY <1>5
  <2>2. 1..Len(q.queue) = {1}
    BY <2>1
  <2>3. PathFrom(q, q.queue[1])
    <3>1. <<from>> # <<>> /\ <<from>>[1] = from /\ Len(<<from>>) = 1
      OBVIOUS
    <3>. QED
      BY <1>5, <2>1, <3>1 DEF PathFrom
  <2>4. Forward(q.steady, q.start, Len(q.queue[1]) - 1) = {from}
    <3>1. Len(q.queue[1]) - 1 = 0
      BY <2>1
    <3>. QED
      BY <1>5, <3>1, WithinNone DEF Forward
  <2>5. /\ \A i \in 1..Len(q.queue) : PathFrom(q, q.queue[i])
        /\ \A i, j \in 1..Len(q.queue) : i <= j =>
             Len(q.queue[i]) <= Len(q.queue[j]) /\ Len(q.queue[j]) <= Len(q.queue[i]) + 1
    BY <2>1, <2>2, <2>3
  <2>6. \A v \in q.visited :
          \E i \in 1..Len(q.queue) : /\ q.queue[i][Len(q.queue[i])] = v
                                     /\ Len(q.queue[i]) = Len(q.queue[1])
    BY <1>5, <2>1, <2>2
  <2>7. q.start \in q.visited /\ q.goal \notin q.visited
    BY <1>5, <1>7
  <2>8. Searching(q)
    BY <1>5, <2>4, <2>5, <2>6, <2>7 DEF Searching
  <2>9. Between(read)'
    BY <1>1, <1>5 DEF Between
  <2>. QED
    BY <1>1, <1>4, <1>5, <1>7, <2>8, <2>9 DEF PathInv
<1>. QED
  BY <1>6, <1>7

LEMMA NextHopKeeps ==
  ASSUME GraphInv, NextHop
  PROVE  PathInv(read)'
<1>. DEFINE r == read
<1>1. PathInv(r) /\ r.at = "search"
  BY KindOf DEF NextHop, GraphInv, At
<1>2. /\ r \in PathSearches /\ Searching(r) /\ Between(r) /\ store = "bolt" /\ r.path = <<>>
  BY <1>1 DEF PathInv
<1>3. edges' = edges /\ store' = store
  BY DEF NextHop, Go, graphState
<1>4. CASE r.queue = <<>>
  <2>. DEFINE q == [r EXCEPT !.at = "done"]
  <2>1. read' = q
    BY <1>4 DEF NextHop, Go
  <2>2. /\ q \in PathSearches /\ q.at = "done" /\ q.start = r.start /\ q.goal = r.goal
        /\ q.path = <<>> /\ q.steady = r.steady
    BY <1>2 DEF PathSearches
  <2>. HIDE DEF q, r
  <2>3. Shortest(q)
    BY <1>2, <1>4, <2>2, SearchExhausted
  <2>. QED
    BY <2>1, <2>2, <2>3 DEF PathInv
<1>5. CASE r.queue # <<>>
  <2>. DEFINE p    == r.queue[1]
              last == p[Len(p)]
              outs == {e.target : e \in Outgoing(last)}
              left == outs \ r.visited
              new  == InOrder(left)
              n    == Cardinality(left)
  <2>1. r.queue \in Seq(Seq(Ids)) /\ 1 \in 1..Len(r.queue) /\ Head(r.queue) = p
        /\ r.visited \subseteq Ids /\ r.goal \in Ids
    BY <1>2, <1>5 DEF PathSearches
  <2>2. p \in Seq(Ids) /\ last \in r.visited /\ Last(p) = last
    <3>1. p \in Seq(Ids) /\ PathFrom(r, p)
      BY <1>2, <2>1 DEF Searching
    <3>. QED
      BY <3>1 DEF PathFrom, Last
  <2>3. Outgoing(last) = {e \in edges : e.source = last}
    BY <1>2, <2>1, <2>2, OutgoingAre
  <2>4. outs \in SUBSET Ids
    BY <2>3 DEF GraphInv, IndexInv, Edges
  <2>5. IF r.goal \in outs
          THEN read' = [r EXCEPT !.at = "done", !.path = Append(p, r.goal)]
          ELSE read' = [r EXCEPT !.visited = @ \cup outs,
                          !.queue = Tail(@) \o [i \in DOMAIN new |-> Append(p, new[i])]]
    BY <1>5, <2>1, <2>2 DEF NextHop, Go
  <2>6. \A v \in outs : \E e \in r.ever : e.source = last /\ e.target = v
    BY <1>2, <2>3 DEF Between
  <2>7. \A e \in r.steady : e.source = last => e.target \in outs
    BY <1>2, <2>3 DEF Between
  <2>8. CASE r.goal \in outs
    <3>. DEFINE q == [r EXCEPT !.at = "done", !.path = Append(p, r.goal)]
    <3>1. Append(p, r.goal) \in Seq(Ids)
      BY <2>1, <2>2
    <3>2. /\ q \in PathSearches /\ q.at = "done" /\ q.start = r.start /\ q.goal = r.goal
          /\ q.path = Append(p, r.goal) /\ q.steady = r.steady /\ q.ever = r.ever
      BY <1>2, <3>1 DEF PathSearches
    <3>3. read' = q
      BY <2>5, <2>8
    <3>4. PICK e \in r.ever : e.source = last /\ e.target = r.goal
      BY <2>6, <2>8
    <3>. HIDE DEF q, r
    <3>5. Shortest(q)
      BY <1>2, <1>5, <3>2, <3>4, SearchFinds
    <3>. QED
      BY <3>2, <3>3, <3>5 DEF PathInv
  <2>9. CASE r.goal \notin outs
    <3>1. left \in SUBSET Nat /\ IsFiniteSet(left) /\ left \in SUBSET Ids
      BY <2>4, GraphAssumption, FS_Subset
    <3>. HIDE DEF left
    <3>2. n \in Nat /\ new \in [1..n -> left] /\ \A v \in left : \E k \in 1..n : new[k] = v
      BY <3>1, InOrderLists
    <3>. HIDE DEF new, n
    <3>3. DOMAIN new = 1..n
      BY <3>2
    <3>. DEFINE W == [k \in 1..n |-> Append(p, new[k])]
                R == Tail(r.queue) \o W
                q == [r EXCEPT !.visited = @ \cup outs, !.queue = R]
    <3>4. read' = q
      BY <1>2, <2>5, <2>9, <3>3 DEF PathSearches
    <3>5. W \in Seq(Seq(Ids))
      <4>. HIDE DEF p
      <4>1. \A k \in 1..n : Append(p, new[k]) \in Seq(Ids)
        <5>1. \A k \in 1..n : new[k] \in Ids
          BY <3>1, <3>2
        <5>. HIDE DEF new
        <5>. QED
          BY <2>2, <5>1
      <4>2. W \in [1..n -> Seq(Ids)]
        BY <4>1
      <4>. HIDE DEF W
      <4>. QED
        BY <3>2, <4>2
    <3>6. R \in Seq(Seq(Ids))
      <4>. HIDE DEF W, r
      <4>. QED
        BY <1>5, <2>1, <3>5, Requeued
    <3>7. /\ q \in PathSearches /\ q.at = "search" /\ q.start = r.start /\ q.goal = r.goal
          /\ q.path = <<>> /\ q.steady = r.steady /\ q.ever = r.ever
          /\ q.visited = r.visited \cup outs /\ q.queue = R
      <4>. HIDE DEF R, outs, r
      <4>. QED
        BY <1>1, <1>2, <2>4, <3>6 DEF PathSearches, r
    <3>. HIDE DEF q
    <3>8. Searching(q)
      <4>. HIDE DEF outs, r
      <4>1. left = outs \ r.visited
        BY DEF left
      <4>2. new \in [1..n -> outs \ r.visited]
            /\ \A v \in outs \ r.visited : \E k \in 1..n : new[k] = v
        BY <3>2, <4>1
      <4>3. q.queue = Tail(r.queue) \o [k \in 1..n |-> Append(r.queue[1], new[k])]
        BY <3>7
      <4>4. /\ n \in Nat /\ q \in PathSearches /\ q.visited = r.visited \cup outs
            /\ q.start = r.start /\ q.goal = r.goal /\ q.steady = r.steady /\ q.ever = r.ever
        BY <3>2, <3>7
      <4>5. Extends(q, r, outs, new, n)
        BY <4>2, <4>3, <4>4 DEF Extends
      <4>6. LeadsTo(r, outs)
        BY <2>4, <2>6, <2>7 DEF LeadsTo
      <4>. QED
        BY <1>2, <1>5, <2>9, <4>4, <4>5, <4>6, SearchExtended
    <3>9. Between(read)'
      BY <1>2, <1>3, <3>4, <3>7 DEF Between
    <3>. QED
      BY <1>2, <1>3, <3>4, <3>7, <3>8, <3>9 DEF PathInv
  <2>. QED
    BY <2>8, <2>9
<1>. QED
  BY <1>4, <1>5

-----------------------------------------------------------------------------
\* Exports read.

LEMMA StartExportKeeps ==
  ASSUME GraphInv, StartExport
  PROVE  ExportInv(read)'
<1>. DEFINE q == [kind |-> "export", at |-> "nodes", copies |-> [i \in Ids |-> 0],
                  found |-> {}, steady |-> edges, ever |-> edges]
<1>1. read' = q
  BY DEF StartExport, Begin
<1>2. q \in Exports /\ q.at = "nodes"
  BY DEF Exports, GraphInv, IndexInv
<1>. QED
  BY <1>1, <1>2 DEF ExportInv

LEMMA ExportNodesKeeps ==
  ASSUME GraphInv, ExportNodes
  PROVE  ExportInv(read)'
<1>. DEFINE c == [i \in Ids |-> IF i \in vertices THEN 1 ELSE 0]
            q == [read EXCEPT !.at = "edges", !.copies = c]
<1>1. read \in Exports
  BY KindOf DEF ExportNodes, GraphInv, ExportInv
<1>2. read' = q
  BY DEF ExportNodes, Go
<1>3. c \in [Ids -> Nat] /\ \A id \in Ids : c[id] \in {0, 1}
  OBVIOUS
<1>. HIDE DEF c
<1>4. q \in Exports /\ q.at = "edges" /\ q.copies = c
  BY <1>1, <1>3 DEF Exports
<1>. QED
  BY <1>2, <1>3, <1>4 DEF ExportInv

\* There is a placeholder for the target of each edge, and more than one only in kg.
LEMMA PlaceholdersAre ==
  ASSUME GraphInv, NEW id \in Ids
  PROVE  /\ Placeholders(id) \in Nat
         /\ (\E e \in edges : e.target = id) => Placeholders(id) > 0
         /\ Placeholders(id) > 1 =>
              store = "kg" /\ Placeholders(id) = Cardinality({e \in edges : e.target = id})
<1>. DEFINE into == {e \in edges : e.target = id}
<1>1. into \subseteq Edges
  BY DEF GraphInv, IndexInv
<1>2. Placeholders(id) = IF store = "kg" THEN Cardinality(into)
                         ELSE IF into = {} THEN 0 ELSE 1
  BY DEF Placeholders
<1>3. (\E e \in edges : e.target = id) => into # {}
  OBVIOUS
<1>. HIDE DEF into
<1>4. IsFiniteSet(into)
  BY <1>1, EdgesFinite, FS_Subset
<1>5. Cardinality(into) \in Nat /\ (into # {} => Cardinality(into) > 0)
  BY <1>4, FS_CardinalityType, FS_EmptySet
<1>. QED
  BY <1>2, <1>3, <1>5 DEF into

LEMMA ExportEdgesKeeps ==
  ASSUME GraphInv, ExportEdges
  PROVE  ExportInv(read)'
<1>. DEFINE c == [i \in Ids |-> IF read.copies[i] = 0 THEN Placeholders(i) ELSE read.copies[i]]
            q == [read EXCEPT !.at = "done", !.found = edges, !.copies = c]
<1>1. read \in Exports /\ \A id \in Ids : read.copies[id] \in {0, 1}
  BY KindOf DEF ExportEdges, GraphInv, ExportInv, At
<1>2. read' = q /\ store' = store
  BY <1>1 DEF ExportEdges, Go, Exports, graphState
<1>3. edges \subseteq Edges
  BY DEF GraphInv, IndexInv
<1>4. ASSUME NEW id \in Ids
      PROVE  /\ c[id] \in Nat
             /\ (\E e \in edges : e.target = id) => c[id] > 0
             /\ c[id] > 1 => store = "kg" /\ c[id] = Cardinality({e \in edges : e.target = id})
  <2>1. c[id] = IF read.copies[id] = 0 THEN Placeholders(id) ELSE read.copies[id]
    OBVIOUS
  <2>2. read.copies[id] = 0 \/ read.copies[id] = 1
    BY <1>1
  <2>. HIDE DEF c
  <2>3. CASE read.copies[id] = 0
    <3>1. c[id] = Placeholders(id)
      BY <2>1, <2>3
    <3>. QED
      BY <3>1, PlaceholdersAre
  <2>4. CASE read.copies[id] = 1
    <3>1. c[id] = 1
      BY <2>1, <2>4
    <3>. QED
      BY <3>1
  <2>. QED
    BY <2>2, <2>3, <2>4
<1>5. c \in [Ids -> Nat]
  BY <1>4
<1>. HIDE DEF c
<1>6. q \in Exports /\ q.at = "done" /\ q.copies = c /\ q.found = edges
  BY <1>1, <1>3, <1>5 DEF Exports
<1>. HIDE DEF q
<1>7. \A e \in edges : e.target \in Ids
  BY <1>3 DEF Edges
<1>8. \A e \in q.found : q.copies[e.target] > 0
  BY <1>4, <1>6, <1>7
<1>9. \A id \in Ids : q.copies[id] > 1 =>
        store = "kg" /\ q.copies[id] = Cardinality({e \in q.found : e.target = id})
  BY <1>4, <1>6
<1>. QED
  BY <1>2, <1>6, <1>8, <1>9 DEF ExportInv, Closed

-----------------------------------------------------------------------------

LEMMA ReadKeeps ==
  ASSUME GraphInv, Read
  PROVE  ReadInv'
<1>1. ASSUME NEW id \in Ids, NEW depth \in Depths, StartNeighbors(id, depth)
      PROVE  ReadInv'
  BY <1>1, StartsSpread DEF ReadInv
<1>2. ASSUME NEW from \in Ids, NEW to \in Ids, StartPath(from, to) PROVE ReadInv'
  BY <1>2, StartPathKeeps DEF ReadInv
<1>3. CASE StartExport
  BY <1>3, StartExportKeeps DEF ReadInv
<1>4. CASE QueryLevel
  BY <1>4, QueryLevelKeeps DEF ReadInv
<1>5. CASE FollowOut
  BY <1>5, FollowOutKeeps DEF ReadInv
<1>6. CASE FollowIn
  BY <1>6, FollowInKeeps DEF ReadInv
<1>7. CASE NextHop
  BY <1>7, NextHopKeeps DEF ReadInv
<1>8. CASE ExportNodes
  BY <1>8, ExportNodesKeeps DEF ReadInv
<1>9. CASE ExportEdges
  BY <1>9, ExportEdgesKeeps DEF ReadInv
<1>10. CASE Return
  BY <1>10 DEF Return, Go, ReadInv, NoRead
<1>. QED
  BY <1>1, <1>2, <1>3, <1>4, <1>5, <1>6, <1>7, <1>8, <1>9, <1>10 DEF Read

LEMMA GraphStep == GraphInv /\ [GraphNext]_graphVars => GraphInv'
<1>. SUFFICES ASSUME GraphInv, [GraphNext]_graphVars PROVE GraphInv'
  OBVIOUS
<1>1. IndexInv'
  BY IndexStep DEF GraphInv
<1>2. CASE Write
  BY <1>1, <1>2, CommitKeeps, WriteCommits DEF GraphInv
<1>3. CASE Read
  <2>1. store' = store
    BY <1>3 DEF Read, Begin, Go, StartNeighbors, QueryLevel, FollowOut, FollowIn, StartPath,
       NextHop, StartExport, ExportNodes, ExportEdges, Return, graphState
  <2>. QED
    BY <1>1, <1>3, <2>1, ReadKeeps DEF GraphInv
<1>4. CASE UNCHANGED graphVars
  <2>1. store' = store /\ edges' = edges /\ read' = read
    BY <1>4 DEF graphVars
  <2>2. ReadInv'
    BY <2>1 DEF GraphInv, ReadInv, NeighborsInv, PathInv, ExportInv, Between, Closed
  <2>. QED
    BY <1>1, <2>1, <2>2 DEF GraphInv
<1>. QED
  BY <1>2, <1>3, <1>4 DEF GraphNext

\* The inductive invariant of the stores and of the traversal in progress.
THEOREM GraphInvAlways == GraphSpec => []GraphInv
<1>1. GraphInit => GraphInv
  BY IndexInit DEF GraphInit, GraphInv, ReadInv
<1>. QED
  BY <1>1, GraphStep, PTL DEF GraphSpec

\* NeighborsAreRight (graph.go and store.go Neighbors): whatever the graph, the depth,
\* the order in which the frontier comes and the transactions committed between two
\* reads, each edge that was there throughout within the depth is found, and none
\* that never was within it.
THEOREM NeighborsAlwaysRight == GraphSpec => []NeighborsAreRight
<1>1. GraphInv => NeighborsAreRight
  <2>. SUFFICES ASSUME GraphInv, read.kind = "neighbors", At("done")
                PROVE  Right(read)
    BY DEF NeighborsAreRight, Right
  <2>1. NeighborsInv(read) /\ read.at = "done"
    BY KindOf DEF GraphInv, At
  <2>. QED
    BY <2>1 DEF NeighborsInv
<1>. QED
  BY <1>1, GraphInvAlways, PTL

\* PathIsShortest (store.go ShortestPath): in every graph the answer is a path of
\* edges that existed, none that was there throughout is shorter, and nil means that
\* there was none.
THEOREM PathAlwaysShortest == GraphSpec => []PathIsShortest
<1>1. GraphInv => PathIsShortest
  <2>. SUFFICES ASSUME GraphInv, read.kind = "path", At("done")
                PROVE  Shortest(read)
    BY DEF PathIsShortest, Shortest, Last
  <2>1. PathInv(read) /\ read.at = "done"
    BY KindOf DEF GraphInv, At
  <2>. QED
    BY <2>1 DEF PathInv
<1>. QED
  BY <1>1, GraphInvAlways, PTL

\* ExportIsClosed (graph.go ExportJSON, store.go ExportGraphJSON): the target of every exported edge is exported,
\* whatever is committed between the two reads; only kg repeats a missing one.
THEOREM ExportAlwaysClosed == GraphSpec => []ExportIsClosed
<1>1. GraphInv => ExportIsClosed
  <2>. SUFFICES ASSUME GraphInv, read.kind = "export", At("done")
                PROVE  Closed(read)
    BY DEF ExportIsClosed, Closed
  <2>1. ExportInv(read) /\ read.at = "done"
    BY KindOf DEF GraphInv, At
  <2>. QED
    BY <2>1 DEF ExportInv
<1>. QED
  BY <1>1, GraphInvAlways, PTL

\* The tables and the counter; what is read has its type by ReadInv.
Tables ==
  /\ vertices \subseteq Ids /\ outIdx \subseteq Pairs /\ inIdx \subseteq Pairs
  /\ writes \in 0..MaxWrites

LEMMA TablesInit == GraphInit => Tables
<1>. SUFFICES ASSUME GraphInit PROVE Tables
  OBVIOUS
<1>1. edges \in SUBSET Edges
  BY GraphAssumption DEF GraphInit
<1>2. outIdx \in SUBSET Pairs
  BY <1>1, HopsType DEF GraphInit
<1>3. inIdx \subseteq Pairs
  BY <1>2, FlipType DEF GraphInit
<1>4. vertices \subseteq Ids
  BY <1>1 DEF GraphInit, Edges
<1>. QED
  BY <1>2, <1>3, <1>4, GraphAssumption DEF GraphInit, Tables

LEMMA TablesStep == Tables /\ [GraphNext]_graphVars => Tables'
<1>. SUFFICES ASSUME Tables, [GraphNext]_graphVars PROVE Tables'
  OBVIOUS
<1>0. \A vs, es, out, in : Commit(vs, es, out, in) =>
        /\ vertices' = vs /\ outIdx' = out /\ inIdx' = in /\ writes' \in 0..MaxWrites
  BY GraphAssumption DEF Commit, Tables
<1>1. ASSUME NEW id \in Ids, PutVertex(id) PROVE Tables'
  BY <1>0, <1>1 DEF PutVertex, Tables
<1>2. ASSUME NEW id \in Ids, RemoveEdgesFrom(id) PROVE Tables'
  BY <1>0, <1>2 DEF RemoveEdgesFrom, Tables
<1>3. ASSUME NEW id \in Ids, RemoveVertex(id) PROVE Tables'
  <2>1. \E gone : /\ vertices' = vertices \ {id}
                  /\ outIdx' = outIdx \ gone /\ inIdx' = inIdx \ Flip(gone)
    BY <1>3 DEF RemoveVertex, Commit
  <2>2. writes' \in 0..MaxWrites
    BY <1>3, GraphAssumption DEF RemoveVertex, Commit, Tables
  <2>. QED
    BY <2>1, <2>2 DEF Tables
<1>4. ASSUME NEW e \in Edges, PutEdge(e) PROVE Tables'
  <2>1. <<e.source, e.target>> \in Pairs /\ <<e.target, e.source>> \in Pairs
    BY DEF Edges, Pairs
  <2>. QED
    BY <1>0, <1>4, <2>1 DEF PutEdge, Tables
<1>5. CASE Drop
  BY <1>0, <1>5 DEF Drop, Tables
<1>6. CASE Read \/ UNCHANGED graphVars
  <2>1. UNCHANGED <<graphState, writes>>
    BY <1>6 DEF Read, Begin, Go, StartNeighbors, QueryLevel, FollowOut, FollowIn, StartPath,
       NextHop, StartExport, ExportNodes, ExportEdges, Return, graphVars, graphState
  <2>. QED
    BY <2>1 DEF Tables, graphState
<1>7. ASSUME NEW id \in Ids, NEW failed, RemoveNode(id, failed) PROVE Tables'
  BY <1>0, <1>7 DEF RemoveNode, Tables
<1>. QED
  BY <1>1, <1>2, <1>3, <1>4, <1>5, <1>6, <1>7 DEF GraphNext, Write

\* GraphTypeOK: every variable holds what it should, and Neighbors never has an empty
\* frontier to query (store.go and graph.go leave the loop first).
THEOREM GraphTypeCorrect == GraphSpec => []GraphTypeOK
<1>1. GraphSpec => []Tables
  BY TablesInit, TablesStep, PTL DEF GraphSpec
<1>2. Tables /\ GraphInv => GraphTypeOK
  <2>. SUFFICES ASSUME Tables, GraphInv PROVE GraphTypeOK
    OBVIOUS
  <2>1. read \in Neighborhoods \cup PathSearches \cup Exports \cup {NoRead}
    BY DEF GraphInv, ReadInv, NeighborsInv, PathInv, ExportInv
  <2>2. At("level") \/ At("out") \/ At("in") => read.frontier # {}
    BY KindOf DEF GraphInv, NeighborsInv, At
  <2>. QED
    BY <2>1, <2>2 DEF GraphTypeOK, Tables, GraphInv, IndexInv
<1>. QED
  BY <1>1, <1>2, GraphInvAlways, PTL
=============================================================================
