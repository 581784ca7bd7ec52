------------------------------ MODULE Dijkstra ------------------------------
(***************************************************************************)
(* Algorithms::dijkstra: takes the unvisited node with the smallest        *)
(* distance until end is taken or no node is left.  Every edge counts 1:   *)
(* the use of its weight is commented out in the source.                   *)
(***************************************************************************)
EXTENDS Traversal

VARIABLES
  distances,  \* INT_MAX for a key not met yet, 0 for a name that is not a key
  visited,    \* whether a node was taken; FALSE for a name that is not a key
  previous    \* predecessor map; Empty for "none"

searchVars == <<distances, visited, previous>>
vars == <<traversalVars, searchVars>>

INT_MAX == 2147483647

Init ==
  /\ TraversalInit
  /\ distances = [n \in Nodes |-> 0]
  /\ visited = [n \in Nodes |-> FALSE]
  /\ previous = [n \in Nodes |-> Empty]

Refuse ==
  /\ pc = "call"
  /\ Refused
  /\ Return
  /\ UNCHANGED searchVars

(* visited and previous already read as the loop would set them: a map      *)
(* gives out FALSE and "" for a key it does not hold.                       *)
Begin ==
  /\ pc = "call"
  /\ ~Refused
  /\ distances' = [n \in Nodes |-> IF n \in DOMAIN list \ {start} THEN INT_MAX ELSE 0]
  /\ pc' = "loop"
  /\ UNCHANGED <<visited, previous, visitedNodes, tmp, path, subPath, open, sent, inputs>>

(* Mutant: any node met is as good. *)
getAnyNode ==
  LET candidates == {x \in DOMAIN list : ~visited[x] /\ distances[x] < INT_MAX}
  IN  IF candidates = {} THEN {Empty} ELSE candidates

(* Mutant: visited nodes are not skipped. *)
getMinOfAll ==
  LET candidates == {x \in DOMAIN list : distances[x] < INT_MAX}
  IN  {x \in candidates : \A y \in candidates : distances[x] <= distances[y]}

(* The nodes that getMinDistanceNode may return: the scan runs in the order *)
(* of a hash table and keeps the first smallest distance below INT_MAX that *)
(* it meets; "" if it meets none.                                           *)
getMinDistanceNode ==
  LET candidates == {x \in DOMAIN list : ~visited[x] /\ distances[x] < INT_MAX}
  IN  IF candidates = {} THEN {Empty}
      ELSE {x \in candidates : \A y \in candidates : distances[x] <= distances[y]}

IsEnd(node) == end = node

(* The successors that relaxing the edges of minNode brings nearer; minNode *)
(* itself was just marked visited.                                          *)
Nearer(minNode) ==
  {n \in list[minNode] \ {minNode} : ~visited[n] /\ distances[minNode] + 1 < distances[n]}

(* One iteration on a node that is not the end: take it, relax its edges,   *)
(* show it.                                                                 *)
Visit ==
  /\ pc = "loop"
  /\ \E minNode \in getMinDistanceNode \ {Empty} :
       /\ ~IsEnd(minNode)
       /\ visited' = [visited EXCEPT ![minNode] = TRUE]
       /\ visitedNodes' = Append(visitedNodes, minNode)
       /\ distances' = [n \in Nodes |-> IF n \in Nearer(minNode) THEN distances[minNode] + 1
                                        ELSE distances[n]]
       /\ previous' = [n \in Nodes |-> IF n \in Nearer(minNode) THEN minNode ELSE previous[n]]
       /\ Send("visitedNodes", Append(visitedNodes, minNode))
  /\ UNCHANGED <<pc, tmp, path, subPath, open, inputs>>

(* The end node is taken: unlike in bfs and dfs it joins visitedNodesJson,  *)
(* which is not sent any more.                                              *)
Found ==
  /\ pc = "loop"
  /\ \E minNode \in getMinDistanceNode \ {Empty} :
       /\ IsEnd(minNode)
       /\ visited' = [visited EXCEPT ![minNode] = TRUE]
       /\ visitedNodes' = Append(visitedNodes, minNode)
       /\ ConfirmPath(minNode)
  /\ UNCHANGED <<distances, previous>>

BuildPath == PrependToPath(previous) /\ UNCHANGED searchVars

ShowPath == ShowNextInner /\ UNCHANGED searchVars

LeaveFound == LeaveAfterPath /\ UNCHANGED searchVars

(* getMinDistanceNode returned "": return, and the client is told nothing.  *)
LeaveExhausted ==
  /\ pc = "loop"
  /\ Empty \in getMinDistanceNode
  /\ Return
  /\ UNCHANGED searchVars

Step == Refuse \/ Begin \/ Visit \/ Found \/ BuildPath \/ ShowPath \/ LeaveFound \/ LeaveExhausted

HangUp == SessionEnds /\ UNCHANGED searchVars

Next == Step \/ HangUp

Spec == Init /\ [][Next]_vars

(* As in Bfs: the call keeps going until it returns. *)
FairSpec == Spec /\ WF_vars(Step)

-----------------------------------------------------------------------------

TypeOK ==
  /\ TraversalTypeOK
  /\ distances \in [Nodes -> 0..INT_MAX]
  /\ visited \in [Nodes -> BOOLEAN]
  /\ previous \in [Nodes -> Nodes \cup {Empty}]

(* The distance a node is taken with is its true number of hops: no node    *)
(* visited later could have brought it nearer.                              *)
TakenIsSettled ==
  \A n \in DOMAIN list : visited[n] => Reached(n) /\ distances[n] = Hops(n)

(* Following previous from a node that was met leads to start, one hop      *)
(* nearer each time, through taken nodes only.                              *)
PreviousIsNearer ==
  pc = "loop" =>
    \A n \in DOMAIN list \ {start} : distances[n] < INT_MAX =>
      /\ visited[previous[n]]
      /\ n \in Successors(previous[n])
      /\ distances[n] = distances[previous[n]] + 1

(* The end, which joins visitedNodesJson as its last node, is never sent.   *)
Reported ==
  IF visitedNodes # << >> /\ visitedNodes[Len(visitedNodes)] = end
  THEN SubSeq(visitedNodes, 1, Len(visitedNodes) - 1)
  ELSE visitedNodes

(* Every step of dijkstra is a step of the abstract search or a stutter. *)
Calls == AbstractCalls("DIJKSTRA")
Search == INSTANCE SearchSpec WITH run <- AbstractRun("DIJKSTRA", Reported)
ImplementsSearch == Search!Spec
=============================================================================
