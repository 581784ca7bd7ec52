-------------------------------- MODULE Graph --------------------------------
(***************************************************************************)
(* Class Graph: an adjacency list, filled edge by edge or by an upload.    *)
(*                                                                         *)
(* list maps each key to the vector of its <<neighbour, weight>> pairs.    *)
(* The order in which a hash table is walked is left open.                 *)
(***************************************************************************)
EXTENDS Integers, Sequences, Functions

CONSTANTS
  Nodes,     \* the node names
  Weights,   \* the weights an edge may be added with
  Uploads,   \* the JSON values that may be loaded, see Upload
  MaxEdges   \* bound on the edges added, for model checking

(* A JSON value as extractGraphData meets it: valid, what crow's parser     *)
(* says of the text; object, whether it is an object; list, its keys and    *)
(* the names under each; bad, the keys whose value is not a list of         *)
(* strings.                                                                 *)
IsUpload(p) ==
  /\ p.valid \in BOOLEAN /\ p.object \in BOOLEAN
  /\ DOMAIN p.list \subseteq Nodes
  /\ \A n \in DOMAIN p.list : p.list[n] \in Seq(Nodes)
  /\ p.bad \subseteq DOMAIN p.list

ASSUME GraphAssumption ==
  /\ Weights \subseteq Int
  /\ \A p \in Uploads : IsUpload(p)
  /\ MaxEdges \in Nat

VARIABLES
  list,        \* the adjacency list
  isDerected,  \* whether edges are added one way only
  threw,       \* how the last call ended: "no", "exception" or "response"
  loaded       \* history: whether an upload has ever replaced the list

graphVars == <<list, isDerected, threw, loaded>>

NoEdges == [n \in {} |-> << >>]

(* Edges in the list, both directions counted. *)
Size(l) ==
  LET count[S \in SUBSET DOMAIN l] ==
        IF S = {} THEN 0 ELSE LET n == CHOOSE n \in S : TRUE IN Len(l[n]) + count[S \ {n}]
  IN  count[DOMAIN l]

GraphInit ==
  /\ list = NoEdges
  /\ isDerected \in BOOLEAN
  /\ threw = "no"
  /\ loaded = FALSE

(* operator[] of the map: the key is made, with an empty vector, if it is   *)
(* not there.                                                               *)
Touch(l, n) == [k \in DOMAIN l \cup {n} |-> IF k \in DOMAIN l THEN l[k] ELSE << >>]
Push(l, n, pair) == [Touch(l, n) EXCEPT ![n] = Append(@, pair)]

(* Mutant: the end of the edge is not made a key. *)
WithEdgeUntouched(start, end, weight) ==
  LET oneWay == Push(list, start, <<end, weight>>)
  IN  IF isDerected THEN oneWay ELSE Push(oneWay, end, <<start, weight>>)

(* Mutant: the test of isDerected is the wrong way round. *)
WithEdgeReversed(start, end, weight) ==
  LET oneWay == Touch(Push(list, start, <<end, weight>>), end)
  IN  IF ~isDerected THEN oneWay ELSE Push(oneWay, end, <<start, weight>>)

WithEdge(start, end, weight) ==
  LET oneWay == Touch(Push(list, start, <<end, weight>>), end)
  IN  IF isDerected THEN oneWay ELSE Push(oneWay, end, <<start, weight>>)

(* A negative weight is refused before anything is changed. *)
addEdge(start, end, weight) ==
  /\ IF weight < 0 THEN threw' = "exception" /\ UNCHANGED list
                   ELSE threw' = "no" /\ list' = WithEdge(start, end, weight)
  /\ UNCHANGED <<isDerected, loaded>>

(* Mutant: the earlier graph is not thrown away. *)
ResetNothing(l) == l

Reset(l) == NoEdges

(* The weight of an uploaded edge. *)
UploadWeight == 0

(* Mutant: the names are stored without a weight. *)
FillNames(l, p, K) == [n \in DOMAIN l \cup K |-> IF n \in K THEN p.list[n] ELSE l[n]]

Fill(l, p, K) ==
  [n \in DOMAIN l \cup K |->
     IF n \in K THEN [i \in 1..Len(p.list[n]) |-> <<p.list[n][i], UploadWeight>>] ELSE l[n]]

(* What loading p over the list l may come to.  An invalid text is refused  *)
(* before the list is reset, with a crow::response, which is not a          *)
(* std::exception.  A value that is no object fails after the reset; a bad  *)
(* key fails in the middle, when any of the other keys may have been stored.*)
Loads(l, p) ==
  IF ~p.valid THEN {[list |-> l, threw |-> "response"]}
  ELSE IF ~p.object THEN {[list |-> Reset(l), threw |-> "exception"]}
  ELSE IF p.bad = {} THEN {[list |-> Fill(Reset(l), p, DOMAIN p.list), threw |-> "no"]}
  ELSE {[list |-> Fill(Reset(l), p, K), threw |-> "exception"] : K \in SUBSET (DOMAIN p.list \ p.bad)}

extractGraphData(p) ==
  /\ \E result \in Loads(list, p) : list' = result.list /\ threw' = result.threw
  /\ loaded' = (loaded \/ threw' # "response")
  /\ UNCHANGED isDerected

(* getList returns a copy; the searches look only at the names in it. *)
Adjacency(l) == [n \in DOMAIN l |-> {l[n][i][1] : i \in 1..Len(l[n])}]

AddEdge ==
  /\ Size(list) < MaxEdges
  /\ \E start, end \in Nodes, weight \in Weights : addEdge(start, end, weight)

Load == \E p \in Uploads : extractGraphData(p)

GraphNext == AddEdge \/ Load

GraphSpec == GraphInit /\ [][GraphNext]_graphVars

-----------------------------------------------------------------------------

GraphTypeOK ==
  /\ DOMAIN list \subseteq Nodes
  /\ \A n \in DOMAIN list : list[n] \in Seq(Nodes \X Int)
  /\ isDerected \in BOOLEAN
  /\ threw \in {"no", "exception", "response"}
  /\ loaded \in BOOLEAN

HasEdge(u, v, w) == u \in DOMAIN list /\ <<v, w>> \in Range(list[u])

(* A graph built by addEdge has an entry for every node it mentions, even   *)
(* if some additions were refused.  That is not true of an uploaded one:    *)
(* extractGraphData stores what the upload lists.                           *)
BuiltIsClosed ==
  ~loaded => \A n \in DOMAIN list : Adjacency(list)[n] \subseteq DOMAIN list

(* In an undirected graph built by addEdge every edge can be walked both    *)
(* ways, with the same weight; a refused addition leaves no half of one.    *)
BuiltIsSymmetric ==
  ~isDerected /\ ~loaded =>
    \A u \in DOMAIN list : \A pair \in Range(list[u]) : HasEdge(pair[1], u, pair[2])
===============================================================================
