---------------------------- MODULE MCAlgorithms ----------------------------
(***************************************************************************)
(* One call of each of the four searches; and what the code, its comments  *)
(* or its header say of one of them that does not hold of it.              *)
(***************************************************************************)
EXTENDS Algorithms, MCTraversal

SomeNumbers == NumbersOr(Unparsable)
NamesAndEmpty == SentinelNames(Empty)
ListsWithEmpty == SentinelLists(Empty)

(* "Predecessor of each node, to rebuild the paths" (Algorithms.cpp:148):   *)
(* what bfs rebuilds is a path from start to end.                           *)
RouteIsWhole == alg = "BFS" => Breadth!RouteIsWhole

(* "The previous node on the optimal path" (Algorithms.cpp:399): a_star     *)
(* shows a path with the fewest hops.                                       *)
OptimalPath == alg = "A_STAR" => Best!RouteIsShortest

(* "If the current node is the goal, rebuild the path" (Algorithms.cpp:439) *)
(* and return it.                                                           *)
GoalIsAnswered == alg = "A_STAR" => Best!GoalIsAnswered
=============================================================================
