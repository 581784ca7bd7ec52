------------------------------- MODULE MCSearch -------------------------------
(***************************************************************************)
(* The abstract search on every adjacency list over three names.  BFS      *)
(* stands for DIJKSTRA and DFS too: Search tells only A_STAR apart.        *)
(***************************************************************************)
EXTENDS SearchSpec, MCTraversal

SmallCalls ==
  {Call(alg, l, start, end) : alg \in {"BFS", "A_STAR"}, l \in SmallLists,
                              start \in {a, Empty}, end \in {a, b, Empty}}
===============================================================================
