------------------------------ MODULE Traversal ------------------------------
(***************************************************************************)
(* What the four members of class Algorithms (Algorithms.cpp) have in      *)
(* common: their inputs, the guards they start with, the rebuilding of the *)
(* path from the predecessor map, and the stream of messages each of them  *)
(* sends to the connection that asked.  The bodies were written four times *)
(* in the source; here each algorithm module instantiates the shared steps *)
(* and adds its own data structures and its own main loop.                 *)
(*                                                                         *)
(* Data abstraction.  A node name is an opaque value.  The adjacency       *)
(* vector of a node is the SET of names in it: the order in which a loop   *)
(* walks it is chosen nondeterministically where it matters, and a second  *)
(* occurrence of a name is a no-op in all four loops.  JSON text is a      *)
(* record with the key of the object and the array under it.               *)
(***************************************************************************)
EXTENDS Integers, Sequences, FiniteSets, Functions

CONSTANTS
  Nodes,    \* the node names a graph may mention, as keys or as neighbours
  Empty,    \* the empty string: what the code uses for "no node"
  Lists,    \* the adjacency lists a call may be given (assumptions: see Algorithms)
  Starts,   \* the values of point_depart
  Ends      \* the values of point_arrive (Empty when only one point was sent)

VARIABLES
  list,          \* the algorithm's own copy of the graph (getList returns by value)
  start, end,    \* its arguments
  pc,            \* where the call is: see Control below
  visitedNodes,  \* visitedNodesJson, the array grown one node per iteration
  tmp,           \* the node at which the path rebuilding loop stands
  path,          \* the path, kept in start-to-end order (the code reverses it)
  subPath,       \* the prefix of the inner nodes shown so far
  open,          \* whether the session behind hdl still accepts messages
  sent           \* the messages websocketpp accepted for hdl, in order

inputs == <<list, start, end>>
traversalVars == <<list, start, end, pc, visitedNodes, tmp, path, subPath, open, sent>>

(* "call": entered, nothing done yet; "loop": at the head of the main loop; *)
(* "relax": after the poll in the middle of A*'s loop body; "build": the    *)
(* end node was taken, the path is being rebuilt and shown; "done":         *)
(* returned; "raised": left by an exception; "undefined": undefined         *)
(* behaviour was reached, nothing is known of the process any more.         *)
Control == {"call", "loop", "relax", "build", "done", "raised", "undefined"}

MessageKind == {"visitedNodes", "pathFound", "pathNodes"}
Message == [kind : MessageKind, nodes : Seq(Nodes)]

TraversalInit ==
  /\ list \in Lists
  /\ start \in Starts
  /\ end \in Ends
  /\ pc = "call"
  /\ visitedNodes = << >>
  /\ tmp = Empty
  /\ path = << >>
  /\ subPath = << >>
  /\ open = TRUE
  /\ sent = << >>

(* The two guards every algorithm starts with. *)
Refused == DOMAIN list = {} \/ start = Empty \/ start \notin DOMAIN list

(* Mutant: nobody catches what send throws, and the call never goes on. *)
SendOrHang(kind, nodes) ==
  open /\ sent' = Append(sent, [kind |-> kind, nodes |-> nodes])

(* One try block around send and poll.  On a session that is no longer      *)
(* open send throws, the exception is caught and logged, and the algorithm  *)
(* goes on.                                                                 *)
Send(kind, nodes) ==
  sent' = IF open THEN Append(sent, [kind |-> kind, nodes |-> nodes]) ELSE sent

(* All orders in which a loop may meet the elements of S. *)
Orders(S) == Bijection(1..Cardinality(S), S)

(* The call returns without doing anything more. *)
Return == pc' = "done" /\ UNCHANGED <<visitedNodes, tmp, path, subPath, open, sent, inputs>>

(* The end node was taken out of the frontier: confirm it, then rebuild. *)
ConfirmPath(node) ==
  /\ Send("pathFound", << >>)
  /\ tmp' = node
  /\ pc' = "build"
  /\ UNCHANGED <<path, subPath, open, inputs>>

(* Mutant: tmp moves on before it is pushed. *)
PrependPredecessor(predecessor) ==
  /\ pc = "build"
  /\ tmp # Empty
  /\ path' = <<predecessor[tmp]>> \o path
  /\ tmp' = predecessor[tmp]
  /\ UNCHANGED <<pc, visitedNodes, subPath, open, sent, inputs>>

(* One turn of the loop that follows the predecessors back to the start. *)
PrependToPath(predecessor) ==
  /\ pc = "build"
  /\ tmp # Empty
  /\ path' = <<tmp>> \o path
  /\ tmp' = predecessor[tmp]
  /\ UNCHANGED <<pc, visitedNodes, subPath, open, sent, inputs>>

(* One turn of the loop that shows the inner nodes, for i from 1 (0-based)  *)
(* while i < path.size() - 1.                                               *)
ShowNextInner ==
  LET i == Len(subPath) + 1
  IN  /\ pc = "build"
      /\ tmp = Empty
      /\ i < Len(path) - 1
      /\ subPath' = Append(subPath, path[i + 1])
      /\ Send("pathNodes", Append(subPath, path[i + 1]))
      /\ UNCHANGED <<pc, visitedNodes, tmp, path, open, inputs>>

LeaveAfterPath ==
  /\ pc = "build"
  /\ tmp = Empty
  /\ Len(subPath) + 1 >= Len(path) - 1
  /\ Return

(* The environment: the session stops being open, which the code can only   *)
(* find out about inside poll, that is, between two of its steps.           *)
SessionEnds ==
  /\ open
  /\ open' = FALSE
  /\ UNCHANGED <<pc, visitedNodes, tmp, path, subPath, sent, inputs>>

TraversalTypeOK ==
  /\ list \in Lists /\ start \in Starts /\ end \in Ends
  /\ pc \in Control
  /\ visitedNodes \in Seq(Nodes)
  /\ tmp \in Nodes \cup {Empty}
  /\ path \in Seq(Nodes)
  /\ subPath \in Seq(Nodes)
  /\ open \in BOOLEAN
  /\ sent \in Seq(Message)

-----------------------------------------------------------------------------
(* The call as module Search sees it. *)

AbstractPhase ==
  CASE pc = "call" -> "called"
    [] pc \in {"loop", "relax"} -> "search"
    [] pc = "build" -> IF tmp = Empty THEN "route" ELSE "found"
    [] OTHER -> pc

(* reported is the part of visitedNodesJson that is sent.  The path counts  *)
(* once it is whole.                                                        *)
AbstractRun(alg, reported) ==
  [alg |-> alg, list |-> list, start |-> start, end |-> end,
   phase |-> AbstractPhase,
   visited |-> reported,
   route |-> IF tmp = Empty THEN path ELSE << >>,
   shown |-> Len(subPath)]

AbstractCalls(alg) ==
  {[alg |-> alg, list |-> l, start |-> from, end |-> to, phase |-> "called",
    visited |-> << >>, route |-> << >>, shown |-> 0] : l \in Lists, from \in Starts, to \in Ends}

-----------------------------------------------------------------------------
(* Reference definitions, independent of the code's data structures. *)

(* The neighbours the loops can ever take up: those that are keys. *)
Successors(n) == list[n] \cap DOMAIN list

(* Ball[k]: what can be reached in at most k hops. *)
Ball[k \in Nat] ==
  IF k = 0 THEN {start}
  ELSE Ball[k - 1] \cup UNION {Successors(n) : n \in Ball[k - 1]}

Reached(n) == n \in Ball[Cardinality(DOMAIN list)]

(* The least number of hops from start to the reachable node n. *)
Hops(n) == CHOOSE k \in 0..Cardinality(DOMAIN list) :
             n \in Ball[k] /\ (k > 0 => n \notin Ball[k - 1])

PathBuilt == pc \in {"build", "done"} /\ tmp = Empty /\ path # << >>

-----------------------------------------------------------------------------
(* Properties of more than one algorithm; each run names those it checks. *)

(* The path rebuilt from the predecessors leads all the way back to start.  *)
RouteIsWhole == PathBuilt => path[1] = start /\ path[Len(path)] = end

(* The path shown has the fewest hops a path from start to end can have. *)
RouteIsShortest == PathBuilt => Len(path) - 1 = Hops(end)

(* Nodes are visited nearest first: no visited node has fewer hops than one *)
(* visited before it.                                                       *)
NearestFirst ==
  \A i, j \in 1..Len(visitedNodes) :
    i < j => Hops(visitedNodes[i]) <= Hops(visitedNodes[j])

(* Every call returns, whatever the graph and whether or not the client     *)
(* stays: the main loop runs dry and the predecessor map has no cycle.      *)
Termination == <>(pc \in {"done", "raised", "undefined"})
=============================================================================
