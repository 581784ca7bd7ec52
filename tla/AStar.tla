-------------------------------- MODULE AStar --------------------------------
(***************************************************************************)
(* Algorithms::a_star: takes the node of open_set with the smallest        *)
(* f_score = g_score + heuristic until the goal (end) is taken.  The       *)
(* heuristic reads the node names as coordinates "x,y".                    *)
(***************************************************************************)
EXTENDS Traversal

CONSTANTS
  Unparsable,  \* stands for the numbers of a name that stoi throws on
  Numbers      \* the integers in each name, or Unparsable

VARIABLES
  previous,         \* predecessor map; Empty for "none"
  g_score,          \* Infinity for a key not met yet, 0 for a name that is not a key
  f_score,          \* likewise
  open_set,         \* the priority queue: how many copies of each name it holds
  open_set_lookup,  \* the set kept beside it
  current           \* the node taken in this iteration

searchVars == <<previous, g_score, f_score, open_set, open_set_lookup, current>>
vars == <<traversalVars, searchVars>>

(* Larger than every score of the instances. *)
Infinity == 2147483647

(* Mutant: an edge costs one. *)
UnitWeight == 1

(* The weight of every edge of the program's graph. *)
UploadWeight == 0

-----------------------------------------------------------------------------
(* heuristic(node, goal): the numbers of both names in one vector, of which *)
(* the first four are taken for two points.  Instead of the distance this   *)
(* is its square, which orders scores in the same way as long as g_score    *)
(* adds nothing to it (it is 0 for every node met; see UploadWeight).       *)

Throws(node, goal) == Unparsable \in {Numbers[node], Numbers[goal]}

Overruns(node, goal) == ~Throws(node, goal) /\ Len(Numbers[node] \o Numbers[goal]) < 4

heuristic(node, goal) ==
  LET numbers == Numbers[node] \o Numbers[goal]
      dx == numbers[1] - numbers[3]
      dy == numbers[2] - numbers[4]
  IN  dx * dx + dy * dy

(* A call of the heuristic for each node of S: how the caller may fare.     *)
Outcomes(S) ==
  LET throwing == {n \in S : Throws(n, end)}
      overrun == {n \in S : Overruns(n, end)}
  IN  (IF throwing # {} THEN {"raised"} ELSE {})
        \cup (IF overrun # {} THEN {"undefined"} ELSE {})
        \cup (IF throwing \cup overrun = {} THEN {"loop"} ELSE {})

-----------------------------------------------------------------------------

Init ==
  /\ TraversalInit
  /\ previous = [n \in Nodes |-> Empty]
  /\ g_score = [n \in Nodes |-> 0]
  /\ f_score = [n \in Nodes |-> 0]
  /\ open_set = [n \in Nodes |-> 0]
  /\ open_set_lookup = {}
  /\ current = Empty

(* The goal has to be a key too; on_message never passes an empty one.      *)
Refuse ==
  /\ pc = "call"
  /\ Refused \/ end \notin DOMAIN list
  /\ Return
  /\ UNCHANGED searchVars

Begin ==
  /\ pc = "call"
  /\ ~Refused
  /\ end \in DOMAIN list
  /\ pc' \in Outcomes({start})
  /\ g_score' = [n \in Nodes |-> IF n \in DOMAIN list \ {start} THEN Infinity ELSE 0]
  /\ f_score' = [n \in Nodes |-> IF n = start /\ pc' = "loop" THEN heuristic(start, end)
                                 ELSE IF n \in DOMAIN list THEN Infinity ELSE 0]
  /\ open_set' = [open_set EXCEPT ![start] = 1]
  /\ open_set_lookup' = {start}
  /\ UNCHANGED <<previous, current, visitedNodes, tmp, path, subPath, open, sent, inputs>>

(* What top may return: the heap breaks ties as it happens to be laid out.  *)
Tops == {n \in Nodes : open_set[n] > 0 /\ \A m \in Nodes : open_set[m] > 0 => f_score[n] <= f_score[m]}

(* Mutant: the node is left in open_set_lookup. *)
PopKeepingLookup(node) ==
  /\ open_set' = [open_set EXCEPT ![node] = @ - 1]
  /\ current' = node
  /\ UNCHANGED open_set_lookup

Pop(node) ==
  /\ open_set' = [open_set EXCEPT ![node] = @ - 1]
  /\ open_set_lookup' = open_set_lookup \ {node}
  /\ current' = node

(* First half of an iteration: take a node that is not the goal, show it.   *)
(* The edges are relaxed only after the poll.                               *)
Visit ==
  /\ pc = "loop"
  /\ \E node \in Tops \ {end} :
       /\ Pop(node)
       /\ visitedNodes' = Append(visitedNodes, node)
       /\ Send("visitedNodes", Append(visitedNodes, node))
  /\ pc' = "relax"
  /\ UNCHANGED <<previous, g_score, f_score, tmp, path, subPath, open, inputs>>

tentative_g_score == g_score[current] + UploadWeight

(* Mutant: every neighbour counts as better. *)
BetterOrNot == list[current]

Better == {n \in list[current] : tentative_g_score < g_score[n]}

(* Those of the better neighbours that are pushed. *)
Unlisted == Better \ open_set_lookup

(* Second half: relax the edges of current.  The heuristic may leave the    *)
(* loop at any neighbour; the local variables are of no interest then.      *)
Relax ==
  /\ pc = "relax"
  /\ pc' \in Outcomes(Better)
  /\ IF pc' = "loop"
     THEN /\ previous' = [n \in Nodes |-> IF n \in Better THEN current ELSE previous[n]]
          /\ g_score' = [n \in Nodes |-> IF n \in Better THEN tentative_g_score ELSE g_score[n]]
          /\ f_score' = [n \in Nodes |-> IF n \in Better THEN tentative_g_score + heuristic(n, end)
                                         ELSE f_score[n]]
          /\ open_set' = [n \in Nodes |-> IF n \in Unlisted THEN open_set[n] + 1 ELSE open_set[n]]
          /\ open_set_lookup' = open_set_lookup \cup Unlisted
     ELSE UNCHANGED <<previous, g_score, f_score, open_set, open_set_lookup>>
  /\ UNCHANGED <<current, visitedNodes, tmp, path, subPath, open, sent, inputs>>

Found ==
  /\ pc = "loop"
  /\ end \in Tops
  /\ Pop(end)
  /\ ConfirmPath(end)
  /\ UNCHANGED <<previous, g_score, f_score, visitedNodes>>

BuildPath == PrependToPath(previous) /\ UNCHANGED searchVars

(* The loop runs from path.begin() + 1 to path.end() - 1.  On a path of one *)
(* node, start = goal, its iterator is already past that bound and never    *)
(* meets it: the loop reads behind the path.                                *)
PassesItsBound == pc = "build" /\ tmp = Empty /\ Len(path) = 1

ShowPath == ShowNextInner /\ UNCHANGED searchVars

ShowPastPath ==
  /\ PassesItsBound
  /\ pc' = "undefined"
  /\ UNCHANGED <<visitedNodes, tmp, path, subPath, open, sent, inputs, searchVars>>

LeaveFound == ~PassesItsBound /\ LeaveAfterPath /\ UNCHANGED searchVars

LeaveExhausted ==
  /\ pc = "loop"
  /\ \A n \in Nodes : open_set[n] = 0
  /\ Return
  /\ UNCHANGED searchVars

Step ==
  \/ Refuse \/ Begin \/ Visit \/ Relax \/ Found \/ BuildPath
  \/ ShowPath \/ ShowPastPath \/ LeaveFound \/ LeaveExhausted

HangUp == SessionEnds /\ UNCHANGED searchVars

Next == Step \/ HangUp

Spec == Init /\ [][Next]_vars

(* As in Bfs: the call keeps going until it returns. *)
FairSpec == Spec /\ WF_vars(Step)

-----------------------------------------------------------------------------

TypeOK ==
  /\ TraversalTypeOK
  /\ previous \in [Nodes -> Nodes \cup {Empty}]
  /\ g_score \in [Nodes -> 0..Infinity]
  /\ f_score \in [Nodes -> 0..Infinity]
  /\ open_set \in [Nodes -> Nat]
  /\ open_set_lookup \subseteq Nodes
  /\ current \in Nodes \cup {Empty}

(* open_set_lookup is the set of names in open_set, which holds none twice: *)
(* the code keeps the two in step by hand.                                  *)
LookupAgrees ==
  pc \in {"loop", "relax"} =>
    \A n \in Nodes : open_set[n] = IF n \in open_set_lookup THEN 1 ELSE 0

(* The comparator of the heap reads f_score: a key that changed while its   *)
(* node is in the heap would break the order the heap relies on, and top    *)
(* would no longer be the smallest.  It never changes.                      *)
HeapKeysStable ==
  [][\A n \in Nodes : open_set[n] > 0 => f_score'[n] = f_score[n]]_vars

IsPoint(n) == Numbers[n] # Unparsable /\ Len(Numbers[n]) = 2

(* On a graph all of whose keys are points, and between two of them that    *)
(* differ, the call returns normally, whatever the names of neighbours that *)
(* are not keys.                                                            *)
SafeOnPoints ==
  (\A n \in DOMAIN list : IsPoint(n)) /\ start # end => pc \notin {"raised", "undefined"}

(* When the current node is the goal the path is rebuilt and the call goes  *)
(* on to its return.                                                        *)
GoalIsAnswered == (\A n \in DOMAIN list : IsPoint(n)) => pc # "undefined"

(* Every step of a_star is a step of the abstract search or a stutter. *)
Calls == AbstractCalls("A_STAR")
Search == INSTANCE SearchSpec WITH run <- AbstractRun("A_STAR", visitedNodes)
ImplementsSearch == Search!Spec
=============================================================================
