-------------------------------- MODULE Search --------------------------------
(***************************************************************************)
(* One call of a search of class Algorithms, as the rest of the program    *)
(* and the client can see it: the nodes it reports as visited, whether it  *)
(* announces a path, the path it shows, and how it ends.  How the next     *)
(* node is chosen is left open: a queue, a stack, a scan for the smallest  *)
(* distance and a heap are all ways to choose one, and modules Bfs, Dfs,   *)
(* Dijkstra and AStar each implement this one.                             *)
(*                                                                         *)
(* The state of a call is a record r, so that module Server can keep one   *)
(* per handler on its stack; Moves(r) is the set of its possible next      *)
(* steps, each with the messages that the step sends.                      *)
(***************************************************************************)
EXTENDS Integers, Sequences, Functions

CONSTANTS
  Nodes,    \* the names a graph may mention, as keys or as neighbours
  Empty     \* the empty string: what the code uses for "no node"

Algorithm == {"DIJKSTRA", "BFS", "DFS", "A_STAR"}

(* "called": nothing done yet; "search": in the main loop; "found": the end *)
(* was announced; "route": the path is known and being shown; "done":       *)
(* returned; "raised": left by an exception; "undefined": undefined         *)
(* behaviour was reached.                                                   *)
Phase == {"called", "search", "found", "route", "done", "raised", "undefined"}
Over == {"done", "raised", "undefined"}

AdjacencyList == UNION {[K -> SUBSET Nodes] : K \in SUBSET Nodes}

Run ==
  [alg : Algorithm, list : AdjacencyList, start : Nodes \cup {Empty}, end : Nodes \cup {Empty},
   phase : Phase, visited : Seq(Nodes), route : Seq(Nodes), shown : Nat]

Message == [kind : {"visitedNodes", "pathFound", "pathNodes"}, nodes : Seq(Nodes)]

(* Mutant: start counts as visited before the guards have been tested. *)
CallMarked(alg, list, start, end) ==
  [alg |-> alg, list |-> list, start |-> start, end |-> end, phase |-> "called",
   visited |-> <<start>>, route |-> << >>, shown |-> 0]

Call(alg, list, start, end) ==
  [alg |-> alg, list |-> list, start |-> start, end |-> end, phase |-> "called",
   visited |-> << >>, route |-> << >>, shown |-> 0]

-----------------------------------------------------------------------------

(* The neighbours of n that are keys.  For any other name operator[] hands  *)
(* out a default value that keeps it from ever being taken up.              *)
Successors(list, n) == list[n] \cap DOMAIN list

(* The guards at the head of the four functions. *)
Refused(r) ==
  \/ DOMAIN r.list = {}
  \/ r.start = Empty
  \/ r.start \notin DOMAIN r.list
  \/ r.alg = "A_STAR" /\ r.end \notin DOMAIN r.list

(* Mutant: only the neighbours of the latest node are remembered. *)
FrontierOfLast(r) ==
  (IF r.visited = << >> THEN {r.start}
   ELSE Successors(r.list, r.visited[Len(r.visited)])) \ Range(r.visited)

(* Mutant: nodes already visited are not left out. *)
FrontierWithVisited(r) ==
  IF r.visited = << >> THEN {r.start}
  ELSE UNION {Successors(r.list, n) : n \in Range(r.visited)}

(* The nodes that may be taken next: met, but not taken yet. *)
Frontier(r) ==
  (IF r.visited = << >> THEN {r.start}
   ELSE UNION {Successors(r.list, n) : n \in Range(r.visited)}) \ Range(r.visited)

(* p leads along edges, through visited nodes and without coming back to a  *)
(* node, from start to end.                                                 *)
IsRoute(r, p) ==
  /\ p # << >>
  /\ p[1] = r.start
  /\ p[Len(p)] = r.end
  /\ \A i \in 1..Len(p) - 1 : p[i] \in Range(r.visited) /\ p[i + 1] \in Successors(r.list, p[i])
  /\ \A i, j \in 1..Len(p) : p[i] = p[j] => i = j

Routes(r) ==
  {p \in UNION {[1..k -> Range(r.visited) \cup {r.end}] : k \in 1..Len(r.visited) + 1} :
     IsRoute(r, p)}

-----------------------------------------------------------------------------
(* The steps of a call.  A step is the next state and what is sent in it,   *)
(* at most one message; after a message comes poll.                         *)

Move(next, says) == [next |-> next, says |-> says]
Say(kind, nodes) == <<[kind |-> kind, nodes |-> nodes]>>

Quietly(r, phase) == Move([r EXCEPT !.phase = phase], << >>)

(* Mutant: the node goes to the front of the array. *)
TakeInFront(r, n) ==
  IF n = r.end THEN Move([r EXCEPT !.phase = "found"], Say("pathFound", << >>))
  ELSE LET visited == <<n>> \o r.visited
       IN  Move([r EXCEPT !.visited = visited], Say("visitedNodes", visited))

(* A node is taken: the end is announced, any other is added to the array   *)
(* of visited nodes, and the array is sent.                                 *)
Take(r, n) ==
  IF n = r.end THEN Move([r EXCEPT !.phase = "found"], Say("pathFound", << >>))
  ELSE LET visited == Append(r.visited, n)
       IN  Move([r EXCEPT !.visited = visited], Say("visitedNodes", visited))

(* The heuristic of A* converts node names to numbers: it may throw, or     *)
(* read past the numbers it found.                                          *)
Misnamed(r) == IF r.alg = "A_STAR" THEN {Quietly(r, "raised"), Quietly(r, "undefined")} ELSE {}

SearchMoves(r) ==
  {Take(r, n) : n \in Frontier(r)}
    \cup (IF Frontier(r) = {} THEN {Quietly(r, "done")} ELSE {})
    \cup Misnamed(r)

(* Mutant: the loop runs on to the end node. *)
RouteMovesToEnd(r) ==
  LET shown == r.shown + 1
  IN  IF Len(r.route) = 1 /\ r.alg = "A_STAR" THEN {Quietly(r, "undefined")}
      ELSE IF shown < Len(r.route)
      THEN {Move([r EXCEPT !.shown = shown], Say("pathNodes", SubSeq(r.route, 2, shown + 1)))}
      ELSE {Quietly(r, "done")}

(* The inner nodes are shown one by one.  A* steps over the only node of a  *)
(* path of one: its iterators pass each other.                              *)
RouteMoves(r) ==
  LET shown == r.shown + 1
  IN  IF Len(r.route) = 1 /\ r.alg = "A_STAR" THEN {Quietly(r, "undefined")}
      ELSE IF shown < Len(r.route) - 1
      THEN {Move([r EXCEPT !.shown = shown], Say("pathNodes", SubSeq(r.route, 2, shown + 1)))}
      ELSE {Quietly(r, "done")}

(* The path is put together. *)
Rebuild(r, p) == Move([r EXCEPT !.phase = "route", !.route = p], << >>)

Moves(r) ==
  CASE r.phase = "called" -> IF Refused(r) THEN {Quietly(r, "done")}
                             ELSE {Quietly(r, "search")} \cup Misnamed(r)
    [] r.phase = "search" -> SearchMoves(r)
    [] r.phase = "found"  -> {Rebuild(r, p) : p \in Routes(r)}
    [] r.phase = "route"  -> RouteMoves(r)
    [] OTHER              -> {}
===============================================================================
