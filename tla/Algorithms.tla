------------------------------ MODULE Algorithms ------------------------------
(***************************************************************************)
(* class Algorithms: its four members as the callee of on_message, which   *)
(* picks one of them by name and gives it a copy of the graph.  Each has   *)
(* its locals; those that two members declare alike are one variable here. *)
(***************************************************************************)
EXTENDS Integers, Sequences, FiniteSets, Functions

CONSTANTS
  Empty,         \* the empty string
  Names,         \* the node names of the calls of bfs, dijkstra and dfs
  Lists,         \* the graphs these are called with
  Starts, Ends,  \* the points these are called with
  Unparsable,    \* as in AStar, whose inputs follow
  Numbers, PointLists, PointStarts, PointEnds

(***************************************************************************)
(* Inputs are finite adjacency lists.  A neighbour need not be a key:      *)
(* Graph::extractGraphData stores only what the upload lists.              *)
(***************************************************************************)
Inputs(nodes, lists, points) ==
  /\ \A l \in lists :
       /\ DOMAIN l \subseteq nodes
       /\ IsFiniteSet(DOMAIN l)
       /\ l \in [DOMAIN l -> SUBSET nodes]
       /\ \A n \in DOMAIN l : IsFiniteSet(l[n])
  /\ points \subseteq nodes \cup {Empty}

ASSUME InputAssumption ==
  /\ Inputs(Names, Lists, Starts \cup Ends)
  /\ Inputs(DOMAIN Numbers, PointLists, PointStarts \cup PointEnds)
  /\ \A n \in DOMAIN Numbers : Numbers[n] = Unparsable \/ Numbers[n] \in Seq(Int)

VARIABLES
  alg,                                                              \* the member called
  list, start, end, pc, visitedNodes, tmp, path, subPath, open, sent,  \* of Traversal
  colors, distances, parent, Queue, Stack, visited,
  g_score, f_score, open_set, open_set_lookup, current

common == <<alg, list, start, end, pc, visitedNodes, tmp, path, subPath, open, sent>>
vars == <<common, colors, distances, parent, Queue, Stack, visited,
          g_score, f_score, open_set, open_set_lookup, current>>

Breadth == INSTANCE Bfs WITH Nodes <- Names
Nearest == INSTANCE Dijkstra WITH Nodes <- Names, previous <- parent
Depth == INSTANCE Dfs WITH Nodes <- Names
Best == INSTANCE AStar WITH Nodes <- DOMAIN Numbers, previous <- parent,
          Lists <- PointLists, Starts <- PointStarts, Ends <- PointEnds

(* A graph has fewer keys than an int can count (more do not fit in         *)
(* memory), and Infinity is what its name says.                             *)
ASSUME SizeAssumption ==
  /\ \A l \in Lists : Cardinality(DOMAIN l) < Nearest!INT_MAX
  /\ \A n, goal \in DOMAIN Numbers :
       ~Best!Throws(n, goal) /\ ~Best!Overruns(n, goal) => Best!heuristic(n, goal) < Best!Infinity

(* The locals of the members that are not called do not exist: any value    *)
(* will do.                                                                 *)
NoColors == colors = << >>
NoDistances == distances = << >>
NoQueue == Queue = << >>
NoStack == Stack = << >>
NoVisited == visited = << >>
NoScores == /\ g_score = << >> /\ f_score = << >> /\ open_set = << >>
            /\ open_set_lookup = {} /\ current = Empty

Init ==
  \/ alg = "BFS" /\ Breadth!Init /\ NoStack /\ NoVisited /\ NoScores
  \/ alg = "DIJKSTRA" /\ Nearest!Init /\ NoColors /\ NoQueue /\ NoStack /\ NoScores
  \/ alg = "DFS" /\ Depth!Init /\ NoDistances /\ NoQueue /\ NoVisited /\ NoScores
  \/ alg = "A_STAR" /\ Best!Init /\ NoColors /\ NoDistances /\ NoQueue /\ NoStack /\ NoVisited

scores == <<g_score, f_score, open_set, open_set_lookup, current>>

Step ==
  \/ alg = "BFS" /\ Breadth!Step /\ UNCHANGED <<alg, Stack, visited, scores>>
  \/ alg = "DIJKSTRA" /\ Nearest!Step /\ UNCHANGED <<alg, colors, Queue, Stack, scores>>
  \/ alg = "DFS" /\ Depth!Step /\ UNCHANGED <<alg, distances, Queue, visited, scores>>
  \/ alg = "A_STAR" /\ Best!Step /\ UNCHANGED <<alg, colors, distances, Queue, Stack, visited>>

HangUp ==
  /\ Breadth!SessionEnds
  /\ UNCHANGED <<alg, list, start, end, colors, distances, parent, Queue, Stack, visited, scores>>

Next == Step \/ HangUp

Spec == Init /\ [][Next]_vars

(* The call runs on the server's only thread, which does nothing else       *)
(* before it returns but handlers that return themselves: it keeps going.   *)
FairSpec == Spec /\ WF_vars(Step)

-----------------------------------------------------------------------------

TypeOK ==
  CASE alg = "BFS" -> Breadth!TypeOK
    [] alg = "DIJKSTRA" -> Nearest!TypeOK
    [] alg = "DFS" -> Depth!TypeOK
    [] alg = "A_STAR" -> Best!TypeOK

(* The path shown has the fewest hops a path from start to end can have,    *)
(* whether bfs rebuilt it or dijkstra, and both visit nearest first: no     *)
(* visited node has fewer hops than one visited before it.                  *)
RouteIsShortest == alg \in {"BFS", "DIJKSTRA"} => Breadth!RouteIsShortest /\ Breadth!NearestFirst

(* The queue of bfs holds exactly the grey nodes, once each, nearest first  *)
(* and never more than one hop apart; the distance of every node met is     *)
(* set, to its true number of hops.                                         *)
QueueIsFrontier == alg = "BFS" => Breadth!QueueIsFrontier /\ Breadth!DistancesAreHops

(* The distance with which dijkstra takes a node is its true number of      *)
(* hops: no node visited later could have brought it nearer.  Following the *)
(* predecessors leads to start, one hop nearer each time, through taken     *)
(* nodes only.                                                              *)
TakenIsSettled == alg = "DIJKSTRA" => Nearest!TakenIsSettled /\ Nearest!PreviousIsNearer

(* The stack of dfs holds exactly the grey nodes, once each, later visits'  *)
(* children above those of earlier ones.                                    *)
StackIsFrontier == alg = "DFS" => Depth!StackIsFrontier

(* On keys that are points, between two that differ, a_star returns.        *)
SafeOnPoints == alg = "A_STAR" => Best!SafeOnPoints

(* open_set_lookup is the set of names in open_set, which holds none twice. *)
LookupAgrees == alg = "A_STAR" => Best!LookupAgrees

(* The f_score of a node in the heap, which orders it, never changes.       *)
HeapKeysStable ==
  [][alg = "A_STAR" => \A n \in DOMAIN Numbers : open_set[n] > 0 => f_score'[n] = f_score[n]]_vars

(* Every call returns, whatever the graph and whether or not the client     *)
(* stays: the main loop runs dry and the predecessor map has no cycle.      *)
Termination == <>(pc \in {"done", "raised", "undefined"})

(* Every step of every member is a step of the abstract search, or none of  *)
(* its concern: what is sent, in which order, and what a return means.      *)
Reported == IF alg = "DIJKSTRA" THEN Nearest!Reported ELSE visitedNodes
Calls ==
  LET call(x, l, from, to) == [alg |-> x, list |-> l, start |-> from, end |-> to, phase |-> "called",
                               visited |-> << >>, route |-> << >>, shown |-> 0]
  IN  {call(x, l, from, to) : x \in {"BFS", "DIJKSTRA", "DFS"}, l \in Lists, from \in Starts, to \in Ends}
        \cup {call("A_STAR", l, from, to) : l \in PointLists, from \in PointStarts, to \in PointEnds}
Search == INSTANCE SearchSpec WITH
  run <- Breadth!AbstractRun(alg, Reported), Nodes <- DOMAIN Numbers \cup Names
ImplementsSearch == Search!Spec
===============================================================================
