--------------------------------- MODULE Dfs ---------------------------------
(***************************************************************************)
(* Algorithms::dfs: bfs with a stack in the place of the queue, and        *)
(* without distances.  A node turns grey when it is pushed, not when it is *)
(* taken.                                                                  *)
(***************************************************************************)
EXTENDS Traversal

VARIABLES
  colors,   \* "blanc", "gris", "noir"; "" for a name that is not a key
  parent,   \* predecessor map; Empty for "none"
  Stack     \* the nodes met and not yet processed, the top first

searchVars == <<colors, parent, Stack>>
vars == <<traversalVars, searchVars>>

Colors == {"", "blanc", "gris", "noir"}

Init ==
  /\ TraversalInit
  /\ colors = [n \in Nodes |-> ""]
  /\ parent = [n \in Nodes |-> Empty]
  /\ Stack = << >>

Refuse ==
  /\ pc = "call"
  /\ Refused
  /\ Return
  /\ UNCHANGED searchVars

Begin ==
  /\ pc = "call"
  /\ ~Refused
  /\ colors' = [n \in Nodes |-> IF n = start THEN "gris"
                                ELSE IF n \in DOMAIN list THEN "blanc" ELSE ""]
  /\ Stack' = <<start>>
  /\ pc' = "loop"
  /\ UNCHANGED <<parent, visitedNodes, tmp, path, subPath, open, sent, inputs>>

IsEnd(node) == end # Empty /\ end = node

White(node) == {n \in list[node] : colors[n] = "blanc"}

(* Mutant: they go to the bottom. *)
PushBelow(stack, order) == stack \o order

(* The neighbours just met go on top, in the order of the vector or rather  *)
(* in its reverse: any order.                                               *)
PushAll(stack, order) == order \o stack

(* One iteration on a node that is not the end: push its white neighbours,  *)
(* blacken it, show it.                                                     *)
Visit ==
  /\ pc = "loop"
  /\ Stack # << >>
  /\ ~IsEnd(Head(Stack))
  /\ LET currentNode == Head(Stack)
         white == White(currentNode)
     IN  /\ colors' = [n \in Nodes |-> IF n = currentNode THEN "noir"
                                       ELSE IF n \in white THEN "gris" ELSE colors[n]]
         /\ parent' = [n \in Nodes |-> IF n \in white THEN currentNode ELSE parent[n]]
         /\ \E order \in Orders(white) : Stack' = PushAll(Tail(Stack), order)
         /\ visitedNodes' = Append(visitedNodes, currentNode)
         /\ Send("visitedNodes", Append(visitedNodes, currentNode))
  /\ UNCHANGED <<pc, tmp, path, subPath, open, inputs>>

Found ==
  /\ pc = "loop"
  /\ Stack # << >>
  /\ IsEnd(Head(Stack))
  /\ Stack' = Tail(Stack)
  /\ ConfirmPath(Head(Stack))
  /\ UNCHANGED <<visitedNodes, colors, parent>>

BuildPath == PrependToPath(parent) /\ UNCHANGED searchVars

ShowPath == ShowNextInner /\ UNCHANGED searchVars

LeaveFound == LeaveAfterPath /\ UNCHANGED searchVars

LeaveExhausted ==
  /\ pc = "loop"
  /\ Stack = << >>
  /\ Return
  /\ UNCHANGED searchVars

Step == Refuse \/ Begin \/ Visit \/ Found \/ BuildPath \/ ShowPath \/ LeaveFound \/ LeaveExhausted

HangUp == SessionEnds /\ UNCHANGED searchVars

Next == Step \/ HangUp

Spec == Init /\ [][Next]_vars

(* As in Bfs: the call keeps going until it returns. *)
FairSpec == Spec /\ WF_vars(Step)

-----------------------------------------------------------------------------

TypeOK ==
  /\ TraversalTypeOK
  /\ colors \in [Nodes -> Colors]
  /\ parent \in [Nodes -> Nodes \cup {Empty}]
  /\ Stack \in Seq(Nodes)

(* The stack holds exactly the grey nodes, once each, and the nodes that    *)
(* one visit pushed lie above those of earlier visits: from top to bottom,  *)
(* parents were visited ever earlier.                                       *)
StackIsFrontier ==
  LET visitedAt(n) == CHOOSE i \in 1..Len(visitedNodes) : visitedNodes[i] = n
  IN  pc = "loop" =>
        /\ Range(Stack) = {n \in Nodes : colors[n] = "gris"}
        /\ \A i, j \in 1..Len(Stack) : i < j =>
             /\ Stack[i] # Stack[j]
             /\ parent[Stack[j]] # Empty =>
                  visitedAt(parent[Stack[i]]) >= visitedAt(parent[Stack[j]])

(* Every step of dfs is a step of the abstract search or a stutter. *)
Calls == AbstractCalls("DFS")
Search == INSTANCE SearchSpec WITH run <- AbstractRun("DFS", visitedNodes)
ImplementsSearch == Search!Spec
=============================================================================
