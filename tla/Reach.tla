--------------------------------- MODULE Reach ---------------------------------
(***************************************************************************)
(* What a graph traversal ought to find, defined by the walks of the whole  *)
(* graph, without a queue or a visited set: the reference the traversals of *)
(* Graph are compared with.                                                 *)
(***************************************************************************)
EXTENDS Naturals, FiniteSets

\* The edges that touch some node of S, in either direction.
Touching(E, S) == {e \in E : e.source \in S \/ e.target \in S}

\* The hops along edges, and those in either direction.
Hops(E) == {<<e.source, e.target>> : e \in E}
BothWays(E) == Hops(E) \cup {<<e.target, e.source>> : e \in E}

\* The ends of the walks of at most n hops that start at s.
Nodes(R, s) == {s} \cup {h[1] : h \in R} \cup {h[2] : h \in R}
Within(R, s, n) ==
  {v \in Nodes(R, s) :
     \E k \in 0..n : \E walk \in [0..k -> Nodes(R, s)] :
       /\ walk[0] = s /\ walk[k] = v
       /\ \A i \in 1..k : <<walk[i - 1], walk[i]>> \in R}

\* The nodes and the edges at most n hops away from s, directions ignored.
Ball(E, s, n) == Within(BothWays(E), s, n)
EdgesWithin(E, s, n) == Touching(E, Ball(E, s, n - 1))

\* The nodes at most n hops from s along the edges.
Forward(E, s, n) == Within(Hops(E), s, n)

\* The length of a shortest path from s to t among N nodes; N if there is none.
Distance(E, s, t, N) ==
  LET near == {n \in 0..(N-1) : t \in Forward(E, s, n)}
  IN IF near = {} THEN N ELSE CHOOSE n \in near : \A m \in near : n <= m
=============================================================================
