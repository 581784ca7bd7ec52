--------------------------------- MODULE Bfs ---------------------------------
(***************************************************************************)
(* Algorithms::bfs: breadth-first search from start, stopping when end is  *)
(* taken out of the queue.                                                 *)
(***************************************************************************)
EXTENDS Traversal

VARIABLES
  colors,     \* "blanc", "gris", "noir"; "" for a name that is not a key
  distances,  \* hops from start; INT_MAX until the node is met
  parent,     \* predecessor map; Empty for "none"
  Queue       \* the nodes met and not yet processed

searchVars == <<colors, distances, parent, Queue>>
vars == <<traversalVars, searchVars>>

INT_MAX == 2147483647
Colors == {"", "blanc", "gris", "noir"}

Init ==
  /\ TraversalInit
  /\ colors = [n \in Nodes |-> ""]
  /\ distances = [n \in Nodes |-> 0]
  /\ parent = [n \in Nodes |-> Empty]
  /\ Queue = << >>

(* Graph or start empty, or start unknown: return without a message. *)
Refuse ==
  /\ pc = "call"
  /\ Refused
  /\ Return
  /\ UNCHANGED searchVars

(* Fill the maps for every key, then put start in the queue. *)
Begin ==
  /\ pc = "call"
  /\ ~Refused
  /\ colors' = [n \in Nodes |-> IF n = start THEN "gris"
                                ELSE IF n \in DOMAIN list THEN "blanc" ELSE ""]
  /\ distances' = [n \in Nodes |-> IF n \in DOMAIN list \ {start} THEN INT_MAX ELSE 0]
  /\ Queue' = <<start>>
  /\ pc' = "loop"
  /\ UNCHANGED <<parent, visitedNodes, tmp, path, subPath, open, sent, inputs>>

IsEnd(node) == end # Empty /\ end = node

(* Mutant: a node that is grey already is met again. *)
WhiteOrGrey(node) == {n \in list[node] : colors[n] \in {"blanc", "gris"}}

White(node) == {n \in list[node] : colors[n] = "blanc"}

(* Mutant: they go to its front. *)
EnqueueInFront(queue, order) == order \o queue

(* The neighbours just met join the queue in the order of the vector. *)
Enqueue(queue, order) == queue \o order

(* One iteration on a node that is not the end: meet its white neighbours,  *)
(* blacken it, show it.                                                     *)
Visit ==
  /\ pc = "loop"
  /\ Queue # << >>
  /\ ~IsEnd(Head(Queue))
  /\ LET currentNode == Head(Queue)
         white == White(currentNode)
     IN  /\ colors' = [n \in Nodes |-> IF n = currentNode THEN "noir"
                                       ELSE IF n \in white THEN "gris" ELSE colors[n]]
         /\ distances' = [n \in Nodes |-> IF n \in white THEN distances[currentNode] + 1
                                          ELSE distances[n]]
         /\ parent' = [n \in Nodes |-> IF n \in white THEN currentNode ELSE parent[n]]
         /\ \E order \in Orders(white) : Queue' = Enqueue(Tail(Queue), order)
         /\ visitedNodes' = Append(visitedNodes, currentNode)
         /\ Send("visitedNodes", Append(visitedNodes, currentNode))
  /\ UNCHANGED <<pc, tmp, path, subPath, open, inputs>>

(* The end node comes out of the queue. *)
Found ==
  /\ pc = "loop"
  /\ Queue # << >>
  /\ IsEnd(Head(Queue))
  /\ Queue' = Tail(Queue)
  /\ ConfirmPath(Head(Queue))
  /\ UNCHANGED <<visitedNodes, colors, distances, parent>>

BuildPath == PrependToPath(parent) /\ UNCHANGED searchVars

ShowPath == ShowNextInner /\ UNCHANGED searchVars

LeaveFound == LeaveAfterPath /\ UNCHANGED searchVars

(* The queue ran dry: return, and the client is told nothing. *)
LeaveExhausted ==
  /\ pc = "loop"
  /\ Queue = << >>
  /\ Return
  /\ UNCHANGED searchVars

Step == Refuse \/ Begin \/ Visit \/ Found \/ BuildPath \/ ShowPath \/ LeaveFound \/ LeaveExhausted

HangUp == SessionEnds /\ UNCHANGED searchVars

Next == Step \/ HangUp

Spec == Init /\ [][Next]_vars

(* The call runs on the server's only thread, which does nothing else       *)
(* before it returns but handlers that return themselves: it keeps going.   *)
FairSpec == Spec /\ WF_vars(Step)

-----------------------------------------------------------------------------

TypeOK ==
  /\ TraversalTypeOK
  /\ colors \in [Nodes -> Colors]
  /\ distances \in [Nodes -> 0..INT_MAX]
  /\ parent \in [Nodes -> Nodes \cup {Empty}]
  /\ Queue \in Seq(Nodes)

(* The queue holds exactly the grey nodes, once each, nearest first and     *)
(* never more than one hop apart.                                           *)
QueueIsFrontier ==
  pc = "loop" =>
    /\ Range(Queue) = {n \in Nodes : colors[n] = "gris"}
    /\ \A i, j \in 1..Len(Queue) : i < j =>
         /\ Queue[i] # Queue[j]
         /\ distances[Queue[i]] <= distances[Queue[j]]
         /\ distances[Queue[j]] <= distances[Queue[i]] + 1

(* A distance that was set is the true number of hops, and it is set for    *)
(* every node met. *)
DistancesAreHops ==
  pc = "loop" =>
    \A n \in DOMAIN list :
      IF colors[n] = "blanc" THEN distances[n] = INT_MAX
      ELSE Reached(n) /\ distances[n] = Hops(n)

(* Every step of bfs is a step of the abstract search, or none of its       *)
(* concern: what is sent, in which order, and what a return means.          *)
Calls == AbstractCalls("BFS")
Search == INSTANCE SearchSpec WITH run <- AbstractRun("BFS", visitedNodes)
ImplementsSearch == Search!Spec
=============================================================================
