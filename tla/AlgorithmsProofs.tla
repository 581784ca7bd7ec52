---------------------------- MODULE AlgorithmsProofs ----------------------------
(***************************************************************************)
(* The four members of class Algorithms, each with its own inductive       *)
(* invariant, and what follows from it for every graph: the order and the  *)
(* contents of the queue, of the stack and of the heap, and that all four  *)
(* implement the one abstract search of module SearchSpec.                 *)
(*                                                                         *)
(* What the four have in common is proved once, first: how the tree of     *)
(* predecessors grows, how the path is read off it, and how its inner      *)
(* nodes are shown.  Those lemmas speak of a step by what it does to the   *)
(* nodes met, to the nodes reported and to parent; the proofs of each      *)
(* member show that its steps do that.  The order in which each takes      *)
(* nodes comes last: the heap of a_star, the stack of dfs, the queue of    *)
(* bfs, and the distances of bfs and dijkstra, true numbers of hops.       *)
(***************************************************************************)
EXTENDS Algorithms, RangeLemmas, FiniteSetTheorems

(* The names that a graph of the call may mention. *)
Known == IF alg = "A_STAR" THEN DOMAIN Numbers ELSE Names

Succ(n) == list[n] \cap DOMAIN list

Searching == pc \in {"loop", "relax", "build"}

(* The keys met so far: each member has a mark of its own for them. *)
Met ==
  {n \in DOMAIN list :
     CASE alg \in {"BFS", "DFS"} -> colors[n] \in {"gris", "noir"}
       [] alg = "DIJKSTRA" -> distances[n] < Nearest!INT_MAX
       [] alg = "A_STAR" -> g_score[n] < Best!Infinity}

(* The nodes taken whose neighbours have been met. *)
Expanded == Range(Reported) \ (IF pc = "relax" THEN {current} ELSE {})

(* The types of what all members have. *)
Typed ==
  /\ alg \in {"BFS", "DIJKSTRA", "DFS", "A_STAR"}
  /\ pc \in Breadth!Control
  /\ visitedNodes \in Seq(Known)
  /\ tmp \in Known \cup {Empty}
  /\ path \in Seq(Known) /\ subPath \in Seq(Known)
  /\ open \in BOOLEAN
  /\ sent \in Seq([kind : Breadth!MessageKind, nodes : Seq(Known)])
  /\ parent \in [Known -> Known \cup {Empty}]
  /\ IF alg = "A_STAR" THEN list \in PointLists /\ start \in PointStarts /\ end \in PointEnds
     ELSE list \in Lists /\ start \in Starts /\ end \in Ends

Fresh == pc = "call" => visitedNodes = << >> /\ parent = [n \in Known |-> Empty]

NoPathYet == pc \in {"call", "loop", "relax"} => tmp = Empty /\ path = << >> /\ subPath = << >>

(* The tree of predecessors: what was met are start and the neighbours of   *)
(* the nodes taken; the predecessor of a node met is one that was taken,    *)
(* and if the node was taken itself, taken before it.                       *)
Grown ==
  Searching =>
    /\ start # Empty
    /\ Range(Reported) \subseteq Met
    /\ end \notin Range(Reported)
    /\ Met = {start} \cup UNION {Succ(n) : n \in Expanded}
    /\ \A i, j \in 1..Len(Reported) : Reported[i] = Reported[j] => i = j
    /\ Reported # << >> => start \in Range(Reported)
    /\ parent[start] = Empty
    /\ \A n \in Met \ {start} : parent[n] \in Range(Reported) /\ n \in Succ(parent[n])
    /\ \A i \in 1..Len(Reported) :
         Reported[i] # start => \E j \in 1..i - 1 : Reported[j] = parent[Reported[i]]

(* The nodes reported, and then the end. *)
Trail == Append(Reported, end)

(* The path so far leads along edges to the end, through nodes in the order *)
(* in which they were taken; the loop stands before its first node.         *)
Traced ==
  pc = "build" =>
    /\ end \in Met
    /\ IF path = << >> THEN tmp = end ELSE tmp = parent[path[1]] /\ path[Len(path)] = end
    /\ Range(path) \subseteq Range(Trail)
    /\ \A k \in 1..Len(path) - 1 : path[k] \in Range(Reported) /\ path[k + 1] \in Succ(path[k])
    /\ \A k, l \in 1..Len(path), i, j \in 1..Len(Trail) :
         k < l /\ path[k] = Trail[i] /\ path[l] = Trail[j] => i < j
    /\ \A i \in 1..Len(Trail) :
         path # << >> /\ Trail[i] = path[1] => Len(path) + i <= Len(Trail) + 1

(* What was shown of the path: its nodes from the second on, not the last.  *)
Shown ==
  pc = "build" =>
    /\ subPath # << >> => tmp = Empty /\ Len(subPath) + 1 < Len(path)
    /\ subPath = SubSeq(path, 2, Len(subPath) + 1)

-----------------------------------------------------------------------------

(* A graph of the call maps keys to names. *)
LEMMA InputFacts ==
  ASSUME Typed
  PROVE  /\ list \in [DOMAIN list -> SUBSET Known]
         /\ DOMAIN list \subseteq Known
         /\ IsFiniteSet(DOMAIN list)
         /\ \A n \in DOMAIN list : IsFiniteSet(list[n]) /\ Succ(n) \subseteq DOMAIN list
         /\ start \in Known \cup {Empty} /\ end \in Known \cup {Empty}
<1>1. CASE alg = "A_STAR"
  BY <1>1, InputAssumption DEF Typed, Known, Inputs, Succ
<1>2. CASE alg # "A_STAR"
  BY <1>2, InputAssumption DEF Typed, Known, Inputs, Succ
<1> QED
  BY <1>1, <1>2

(* The reported nodes are names. *)
LEMMA ReportedTyped ==
  ASSUME Typed
  PROVE  Reported \in Seq(Known) /\ Len(Reported) \in Nat
<1>1. visitedNodes \in Seq(Known)
  BY DEF Typed
<1> DEFINE v == visitedNodes
<1>2. Reported \in {v, SubSeq(v, 1, Len(v) - 1)}
  BY DEF Reported, Nearest!Reported
<1>3. SubSeq(v, 1, Len(v) - 1) \in Seq(Known)
  <2>1. \A i \in 1..Len(v) - 1 : v[i] \in Known
    BY <1>1
  <2> QED
    BY <1>1, <2>1, SubSeqProperties
<1>4. Reported \in Seq(Known)
  BY <1>1, <1>2, <1>3
<1> QED
  BY <1>4

(* The search begins: start is met. *)
LEMMA BeginGrows ==
  ASSUME start # Empty, start \in DOMAIN list, start' = start, list' = list, pc' = "loop",
         Reported' = << >>, Met' = {start}, parent'[start] = Empty
  PROVE  Grown'
<1>1. Range(Reported') = {} /\ Len(Reported') = 0
  BY DEF Range
<1>2. Expanded' = {}
  BY <1>1 DEF Expanded
<1> QED
  BY <1>1, <1>2 DEF Grown

(* A node is taken that was met, is not the end and was not taken before.   *)
(* Its neighbours are met, in this step or (a_star) in a later one; the     *)
(* predecessors of the nodes taken do not change, that of another node at   *)
(* most to the node taken.                                                  *)
LEMMA TakeGrows ==
  ASSUME Typed, Grown, pc = "loop",
         NEW n \in Met \ Range(Reported), n # end,
         Reported' = Append(Reported, n),
         list' = list, start' = start, end' = end,
         \/ pc' = "loop" /\ Met' = Met \cup Succ(n)
         \/ pc' = "relax" /\ Met' = Met /\ current' = n,
         \A m \in Range(Reported) \cup {start, n} : parent'[m] = parent[m],
         \A m \in Met' \ (Range(Reported) \cup {start, n}) :
           \/ m \in Met /\ parent'[m] = parent[m]
           \/ m \in Succ(n) /\ parent'[m] = n
  PROVE  Grown'
<1>1. n \in Known /\ Met \subseteq DOMAIN list
  BY InputFacts DEF Met
<1>2. /\ Reported \in Seq(Known) /\ Len(Reported) \in Nat
      /\ Reported' \in Seq(Known)
      /\ Len(Reported') = Len(Reported) + 1
      /\ Range(Reported') = Range(Reported) \cup {n}
      /\ Reported'[Len(Reported) + 1] = n
      /\ \A i \in 1..Len(Reported) : Reported'[i] = Reported[i] /\ Reported[i] \in Range(Reported)
  <2>1. Reported \in Seq(Known) /\ Len(Reported) \in Nat
    BY ReportedTyped
  <2>2. Range(Append(Reported, n)) = Range(Reported) \cup {n}
    BY <1>1, <2>1, RangeOfAppend
  <2>3. /\ Append(Reported, n) \in Seq(Known)
        /\ Len(Append(Reported, n)) = Len(Reported) + 1
        /\ Append(Reported, n)[Len(Reported) + 1] = n
        /\ \A i \in 1..Len(Reported) : Append(Reported, n)[i] = Reported[i]
    BY <1>1, <2>1
  <2>4. \A i \in 1..Len(Reported) : Reported[i] \in Range(Reported)
    BY <2>1 DEF Range
  <2> QED
    BY <2>1, <2>2, <2>3, <2>4
<1> USE DEF Searching
<1>3. Expanded = Range(Reported) /\ Succ(n)' = Succ(n) /\ \A m : Succ(m)' = Succ(m)
  BY DEF Expanded, Succ
<1>4. Expanded' = IF pc' = "loop" THEN Range(Reported) \cup {n} ELSE Range(Reported)
  BY <1>2 DEF Expanded
<1>5. Met \subseteq Met'
  OBVIOUS
<1>6. Met' = {start'} \cup UNION {Succ(m)' : m \in Expanded'}
  <2>1. Met = {start} \cup UNION {Succ(m) : m \in Range(Reported)}
    BY <1>3 DEF Grown
  <2>2. CASE pc' = "loop"
    BY <1>3, <1>4, <2>1, <2>2
  <2>3. CASE pc' = "relax"
    BY <1>3, <1>4, <2>1, <2>3
  <2> QED
    BY <2>2, <2>3
<1>7. \A i, j \in 1..Len(Reported') : Reported'[i] = Reported'[j] => i = j
  BY <1>2 DEF Grown
<1>8. start \in Range(Reported')
  <2>1. CASE Reported = << >>
    <3>1. Range(Reported) = {}
      BY <2>1 DEF Range
    <3>2. Met = {start}
      BY <1>3, <3>1 DEF Grown
    <3> QED
      BY <1>2, <3>2
  <2>2. CASE Reported # << >>
    BY <1>2, <2>2 DEF Grown
  <2> QED
    BY <2>1, <2>2
<1>9. (\A m \in Met \ {start} : parent[m] \in Range(Reported) /\ m \in Succ(parent[m]))'
  <2> SUFFICES ASSUME NEW m \in Met' \ {start}
               PROVE  parent'[m] \in Range(Reported') /\ m \in Succ(parent'[m])
    BY DEF Succ
  <2>1. CASE m \in Met /\ parent'[m] = parent[m]
    BY <1>2, <2>1 DEF Grown
  <2>2. CASE m \in Succ(n) /\ parent'[m] = n
    BY <1>2, <2>2
  <2>3. CASE m \in Range(Reported) \cup {start, n}
    BY <1>2, <2>3 DEF Grown
  <2> QED
    BY <2>1, <2>2, <2>3
<1>10. ASSUME NEW i \in 1..Len(Reported'), Reported'[i] # start'
       PROVE  \E j \in 1..i - 1 : Reported'[j] = parent'[Reported'[i]]
  <2>1. CASE i \in 1..Len(Reported)
    <3>1. Reported'[i] = Reported[i] /\ parent'[Reported[i]] = parent[Reported[i]]
      BY <1>2, <2>1
    <3>2. PICK j \in 1..i - 1 : Reported[j] = parent[Reported[i]]
      BY <1>10, <2>1, <3>1 DEF Grown
    <3> QED
      BY <1>2, <2>1, <3>1, <3>2
  <2>2. CASE i = Len(Reported) + 1
    <3>1. n \in Met \ {start} /\ Reported'[i] = n
      BY <1>2, <1>10, <2>2
    <3>2. parent'[n] \in Range(Reported)
      BY <3>1 DEF Grown
    <3>3. PICK j \in 1..Len(Reported) : Reported[j] = parent'[n]
      BY <1>2, <3>2 DEF Range
    <3> QED
      BY <1>2, <2>2, <3>1, <3>3
  <2> QED
    BY <1>2, <2>1, <2>2
<1>11. /\ start' # Empty /\ Range(Reported') \subseteq Met' /\ end' \notin Range(Reported')
       /\ parent'[start'] = Empty
  BY <1>2, <1>5 DEF Grown
<1> QED
  BY <1>6, <1>7, <1>8, <1>9, <1>10, <1>11 DEF Grown

(* The second half of an iteration of a_star: the neighbours of the node    *)
(* taken last are met.                                                      *)
LEMMA RelaxGrows ==
  ASSUME Grown, pc = "relax", pc' = "loop", current \in Range(Reported),
         Reported' = Reported, list' = list, start' = start, end' = end,
         Met' = Met \cup Succ(current),
         \A m \in Met : parent'[m] = parent[m],
         \A m \in Met' \ Met : parent'[m] = current
  PROVE  Grown'
<1> USE DEF Searching
<1>1. Expanded = Range(Reported) \ {current} /\ Expanded' = Range(Reported)
  BY DEF Expanded
<1>2. \A m : Succ(m)' = Succ(m)
  BY DEF Succ
<1>3. Met' = {start'} \cup UNION {Succ(m)' : m \in Expanded'}
  BY <1>1, <1>2 DEF Grown
<1>4. (\A m \in Met \ {start} : parent[m] \in Range(Reported) /\ m \in Succ(parent[m]))'
  <2> SUFFICES ASSUME NEW m \in Met' \ {start}
               PROVE  parent'[m] \in Range(Reported) /\ m \in Succ(parent'[m])
    BY DEF Succ
  <2>1. CASE m \in Met
    BY <2>1 DEF Grown
  <2>2. CASE m \notin Met
    BY <2>2
  <2> QED
    BY <2>1, <2>2
<1>5. start \in Met /\ \A i \in 1..Len(Reported) : Reported[i] \in Met
  <2>1. start \in Met
    BY DEF Grown
  <2>2. Range(Reported) \subseteq Met
    BY DEF Grown
  <2>3. ASSUME NEW i \in 1..Len(Reported) PROVE Reported[i] \in Range(Reported)
    BY DEF Range
  <2> QED
    BY <2>1, <2>2, <2>3
<1>6. \A i \in 1..Len(Reported') :
        Reported'[i] # start' => \E j \in 1..i - 1 : Reported'[j] = parent'[Reported'[i]]
  BY <1>5 DEF Grown
<1> QED
  BY <1>3, <1>4, <1>5, <1>6 DEF Grown

(* The tree stays as it is when nothing more is taken. *)
LEMMA GrownStays ==
  ASSUME Grown, pc \in {"loop", "build"}, pc' = "build", Reported' = Reported, Met' = Met,
         list' = list, start' = start, end' = end, parent' = parent
  PROVE  Grown'
<1>1. Expanded' = Expanded
  BY DEF Expanded
<1> QED
  BY <1>1 DEF Grown, Searching, Succ

(* The end is taken: the path is still empty. *)
LEMMA FoundTraces ==
  ASSUME end \in Met, Met' = Met, end' = end, pc' = "build", tmp' = end, path' = << >>, subPath' = << >>
  PROVE  Traced' /\ Shown'
<1>1. Range(<< >>) = {}
  BY DEF Range
<1>2. SubSeq(<< >>, 2, Len(<< >>) + 1) = << >>
  OBVIOUS
<1>3. Shown'
  BY <1>2 DEF Shown
<1>4. (\A k, l \in 1..Len(path), i, j \in 1..Len(Trail) :
         k < l /\ path[k] = Trail[i] /\ path[l] = Trail[j] => i < j)'
  OBVIOUS
<1> QED
  BY <1>1, <1>3, <1>4 DEF Traced

(* The trail holds no node twice. *)
LEMMA TrailFacts ==
  ASSUME Typed, Grown, pc = "build", end \in Met
  PROVE  /\ Len(Trail) = Len(Reported) + 1
         /\ Range(Trail) = Range(Reported) \cup {end}
         /\ \A i \in 1..Len(Reported) : Trail[i] = Reported[i]
         /\ Trail[Len(Reported) + 1] = end
         /\ \A i, j \in 1..Len(Trail) : Trail[i] = Trail[j] => i = j
<1>1. Reported \in Seq(Known) /\ Len(Reported) \in Nat /\ end \in Known
  BY ReportedTyped, InputFacts DEF Met
<1>2. /\ Len(Trail) = Len(Reported) + 1
      /\ \A i \in 1..Len(Reported) : Trail[i] = Reported[i]
      /\ Trail[Len(Reported) + 1] = end
  BY <1>1 DEF Trail
<1>3. Range(Trail) = Range(Reported) \cup {end}
  BY <1>1, RangeOfAppend DEF Trail
<1>4. \A i \in 1..Len(Reported) : Reported[i] \in Range(Reported)
  BY <1>1 DEF Range
<1>5. ASSUME NEW i \in 1..Len(Trail), NEW j \in 1..Len(Trail), Trail[i] = Trail[j]
      PROVE  i = j
  BY <1>1, <1>2, <1>4, <1>5 DEF Grown, Searching
<1> QED
  BY <1>2, <1>3, <1>5

(* A node of the trail that is not start has its predecessor further up. *)
LEMMA TrailLeadsUp ==
  ASSUME Typed, Grown, pc = "build", end \in Met,
         NEW i \in 1..Len(Trail), Trail[i] # start
  PROVE  /\ parent[Trail[i]] \in Range(Reported)
         /\ Trail[i] \in Succ(parent[Trail[i]])
         /\ \E j \in 1..i - 1 : Trail[j] = parent[Trail[i]]
<1>1. Reported \in Seq(Known) /\ Len(Reported) \in Nat
  BY ReportedTyped
<1>2. /\ Len(Trail) = Len(Reported) + 1
      /\ \A j \in 1..Len(Reported) : Trail[j] = Reported[j] /\ Reported[j] \in Range(Reported)
      /\ Trail[Len(Reported) + 1] = end
  BY <1>1, TrailFacts DEF Range
<1>3. Trail[i] \in Met
  BY <1>1, <1>2 DEF Grown, Searching
<1>4. parent[Trail[i]] \in Range(Reported) /\ Trail[i] \in Succ(parent[Trail[i]])
  BY <1>3 DEF Grown, Searching
<1>5. CASE i \in 1..Len(Reported)
  <2>1. Reported[i] # start /\ Trail[i] = Reported[i]
    BY <1>2, <1>5
  <2>2. PICK j \in 1..i - 1 : Reported[j] = parent[Reported[i]]
    BY <1>5, <2>1 DEF Grown, Searching
  <2>3. j \in 1..Len(Reported)
    BY <1>1, <1>5
  <2> QED
    BY <1>2, <1>4, <2>1, <2>2, <2>3
<1>6. CASE i = Len(Reported) + 1
  <2>1. PICK j \in 1..Len(Reported) : Reported[j] = parent[Trail[i]]
    BY <1>1, <1>4 DEF Range
  <2> QED
    BY <1>1, <1>2, <1>4, <1>6, <2>1
<1> QED
  BY <1>1, <1>2, <1>5, <1>6

(* One turn of the loop that follows the predecessors. *)
LEMMA PrependTraces ==
  ASSUME Typed, Grown, Traced, Shown, pc = "build", tmp # Empty,
         path' = <<tmp>> \o path, tmp' = parent[tmp], pc' = "build",
         Reported' = Reported, Met' = Met, subPath' = subPath,
         list' = list, start' = start, end' = end, parent' = parent
  PROVE  Traced' /\ Shown' /\ path' \in Seq(Known)
<1>1. tmp \in Known /\ path \in Seq(Known) /\ Len(path) \in Nat
  BY DEF Typed
<1>2. /\ path' \in Seq(Known)
      /\ path' # << >>
      /\ Len(path') = Len(path) + 1
      /\ path'[1] = tmp
      /\ \A k \in 2..Len(path) + 1 : path'[k] = path[k - 1]
  BY <1>1
<1>3. end \in Met
  BY DEF Traced
<1>4. Len(Trail) = Len(Reported) + 1 /\ Len(Reported) \in Nat
  BY <1>3, TrailFacts, ReportedTyped
<1>5. /\ Trail' = Trail
      /\ \A n : Succ(n)' = Succ(n)
      /\ \A i, j \in 1..Len(Trail) : Trail[i] = Trail[j] => i = j
      /\ Range(Trail) = Range(Reported) \cup {end}
      /\ \A i \in 1..Len(Trail) : Trail[i] \in Range(Trail)
      /\ \A n \in Range(Trail) : \E i \in 1..Len(Trail) : Trail[i] = n
  <2>1. Trail \in Seq(Known)
    BY <1>3, ReportedTyped, InputFacts DEF Trail, Met
  <2> QED
    BY <1>3, <2>1, TrailFacts DEF Trail, Succ, Range
(* Where the node stands that is put in front. *)
<1>6. PICK t \in 1..Len(Trail) :
        /\ Trail[t] = tmp
        /\ path # << >> => /\ tmp \in Range(Reported) /\ path[1] \in Succ(tmp)
                           /\ \A i \in 1..Len(Trail) : Trail[i] = path[1] => t < i
  <2>1. CASE path = << >>
    <3>1. tmp = end
      BY <2>1 DEF Traced
    <3> QED
      BY <1>5, <2>1, <3>1
  <2>2. CASE path # << >>
    <3>1. tmp = parent[path[1]] /\ path[1] \in Range(Trail)
      <4>1. path[1] \in Range(path)
        BY <1>1, <2>2 DEF Range
      <4> QED
        BY <2>2, <4>1 DEF Traced
    <3>2. PICK i \in 1..Len(Trail) : Trail[i] = path[1]
      BY <1>5, <3>1
    <3>3. path[1] # start
      BY <3>1 DEF Grown, Searching
    <3>4. /\ tmp \in Range(Reported) /\ path[1] \in Succ(tmp)
          /\ \E j \in 1..i - 1 : Trail[j] = tmp
      BY <1>3, <3>1, <3>2, <3>3, TrailLeadsUp
    <3>5. PICK j \in 1..i - 1 : Trail[j] = tmp
      BY <3>4
    <3>6. j \in 1..Len(Trail) /\ j < i
      BY <1>4, <3>5
    <3>7. ASSUME NEW x \in 1..Len(Trail), Trail[x] = path[1] PROVE j < x
      <4>1. x = i
        BY <1>5, <3>2, <3>7
      <4> QED
        BY <3>6, <4>1
    <3> QED
      BY <3>4, <3>5, <3>6, <3>7
  <2> QED
    BY <2>1, <2>2
<1>7. Range(path') \subseteq Range(Trail)
  <2> SUFFICES ASSUME NEW k \in 1..Len(path) + 1 PROVE path'[k] \in Range(Trail)
    BY <1>2 DEF Range
  <2>1. CASE k = 1
    BY <1>2, <1>5, <1>6, <2>1
  <2>2. CASE k \in 2..Len(path) + 1
    <3>1. path[k - 1] \in Range(path)
      BY <1>1, <2>2 DEF Range
    <3> QED
      BY <1>2, <2>2, <3>1 DEF Traced
  <2> QED
    BY <1>1, <2>1, <2>2
<1>8. path'[Len(path')] = end
  BY <1>1, <1>2 DEF Traced
<1>9. ASSUME NEW k \in 1..Len(path') - 1
      PROVE  path'[k] \in Range(Reported) /\ path'[k + 1] \in Succ(path'[k])
  <2>1. CASE k = 1
    <3>1. path # << >> /\ path'[2] = path[1]
      BY <1>1, <1>2, <2>1
    <3> QED
      BY <1>2, <1>6, <2>1, <3>1
  <2>2. CASE k # 1
    <3>1. k - 1 \in 1..Len(path) - 1 /\ path'[k] = path[k - 1] /\ path'[k + 1] = path[(k - 1) + 1]
      BY <1>1, <1>2, <2>2
    <3> QED
      BY <3>1 DEF Traced
  <2> QED
    BY <2>1, <2>2
<1>10. ASSUME NEW k \in 1..Len(path'), NEW l \in 1..Len(path'),
              NEW i \in 1..Len(Trail), NEW j \in 1..Len(Trail),
              k < l, path'[k] = Trail[i], path'[l] = Trail[j]
       PROVE  i < j
  <2>1. l - 1 \in 1..Len(path) /\ path'[l] = path[l - 1] /\ path # << >>
    BY <1>1, <1>2, <1>10
  <2>2. CASE k = 1
    <3>1. i = t
      BY <1>2, <1>5, <1>6, <1>10, <2>2
    <3>2. CASE l - 1 = 1
      BY <1>6, <1>10, <2>1, <3>1, <3>2
    <3>3. CASE l - 1 # 1
      <4>1. path[1] \in Range(path) /\ 1 \in 1..Len(path)
        BY <1>1, <2>1 DEF Range
      <4>2. path[1] \in Range(Trail)
        BY <4>1 DEF Traced
      <4>3. PICK x \in 1..Len(Trail) : Trail[x] = path[1]
        BY <1>5, <4>2
      <4>4. x < j
        <5>1. 1 < l - 1 /\ path[1] = Trail[x] /\ path[l - 1] = Trail[j]
          BY <1>10, <2>1, <3>3, <4>3
        <5> QED
          BY <2>1, <4>1, <5>1 DEF Traced
      <4>5. t < x
        BY <1>6, <2>1, <4>3
      <4> QED
        BY <1>4, <3>1, <4>4, <4>5
    <3> QED
      BY <3>2, <3>3
  <2>3. CASE k # 1
    <3>1. k - 1 \in 1..Len(path) /\ k - 1 < l - 1 /\ path'[k] = path[k - 1]
      BY <1>1, <1>2, <1>10, <2>3
    <3> QED
      BY <1>10, <2>1, <3>1 DEF Traced
  <2> QED
    BY <2>2, <2>3
<1>11. ASSUME NEW i \in 1..Len(Trail), Trail[i] = path'[1]
       PROVE  Len(path') + i <= Len(Trail) + 1
  <2>1. i = t
    BY <1>2, <1>5, <1>6, <1>11
  <2>2. CASE path = << >>
    BY <1>2, <1>4, <2>1, <2>2
  <2>3. CASE path # << >>
    <3>1. path[1] \in Range(path)
      BY <1>1, <2>3 DEF Range
    <3>2. path[1] \in Range(Trail)
      BY <3>1 DEF Traced
    <3>3. PICK x \in 1..Len(Trail) : Trail[x] = path[1]
      BY <1>5, <3>2
    <3>4. Len(path) + x <= Len(Trail) + 1
      BY <2>3, <3>3 DEF Traced
    <3>5. t < x
      BY <1>6, <2>3, <3>3
    <3> QED
      BY <1>1, <1>2, <1>4, <2>1, <3>4, <3>5
  <2> QED
    BY <2>2, <2>3
<1>12. Shown'
  <2>1. subPath = << >>
    BY DEF Shown
  <2>2. SubSeq(path', 2, 1) = << >>
    BY <1>2
  <2> QED
    BY <2>1, <2>2 DEF Shown
<1>13. Traced'
  <2>1. (\A k \in 1..Len(path) - 1 : path[k] \in Range(Reported) /\ path[k + 1] \in Succ(path[k]))'
    BY <1>9 DEF Succ
  <2>2. (\A k, l \in 1..Len(path), i, j \in 1..Len(Trail) :
           k < l /\ path[k] = Trail[i] /\ path[l] = Trail[j] => i < j)'
    <3> SUFFICES ASSUME NEW k \in 1..Len(path'), NEW l \in 1..Len(path'),
                        NEW i \in 1..Len(Trail), NEW j \in 1..Len(Trail),
                        k < l, path'[k] = Trail[i], path'[l] = Trail[j]
                 PROVE  i < j
      BY <1>5
    <3> QED
      BY <1>10
  <2>3. (\A i \in 1..Len(Trail) :
           path # << >> /\ Trail[i] = path[1] => Len(path) + i <= Len(Trail) + 1)'
    BY <1>5, <1>11
  <2>4. tmp' = parent'[path'[1]]
    BY <1>2
  <2> QED
    BY <1>2, <1>3, <1>5, <1>7, <1>8, <2>1, <2>2, <2>3, <2>4 DEF Traced
<1> QED
  BY <1>2, <1>12, <1>13

(* With an empty name among the names the code could not tell the end of    *)
(* the predecessors from a node (see run bfs_sentinel).                     *)
EmptyIsNoName == Empty \notin Names \cup DOMAIN Numbers

(* A path from start to end, no longer than what was taken allows.          *)
Whole ==
  /\ path # << >> /\ path[1] = start /\ path[Len(path)] = end
  /\ \A k \in 1..Len(path) - 1 : path[k] \in Range(Reported) /\ path[k + 1] \in Succ(path[k])
  /\ \A k, l \in 1..Len(path) : path[k] = path[l] => k = l
  /\ Len(path) \in 1..Len(Reported) + 1
  /\ path \in [1..Len(path) -> Range(Reported) \cup {end}]

(* Once there is no further predecessor the path is whole.                  *)
LEMMA PathIsWhole ==
  EmptyIsNoName /\ Typed /\ Grown /\ Traced /\ pc = "build" /\ tmp = Empty => Whole
<1> SUFFICES ASSUME EmptyIsNoName, Typed, Grown, Traced, pc = "build", tmp = Empty
             PROVE  Whole
  OBVIOUS
<1>1. /\ path \in Seq(Known) /\ Len(path) \in Nat /\ Empty \notin Known
      /\ Reported \in Seq(Known) /\ Len(Reported) \in Nat
      /\ end \in Met /\ Met \subseteq Known
  <2>1. path \in Seq(Known) /\ Len(path) \in Nat
    BY DEF Typed
  <2>2. Empty \notin Known
    BY DEF EmptyIsNoName, Known
  <2>3. end \in Met /\ Met \subseteq DOMAIN list
    BY DEF Traced, Met
  <2> QED
    BY <2>1, <2>2, <2>3, ReportedTyped, InputFacts
<1>2. path # << >> /\ path[Len(path)] = end /\ parent[path[1]] = Empty
  BY <1>1 DEF Traced
<1>3. /\ Len(Trail) = Len(Reported) + 1
      /\ Range(Trail) = Range(Reported) \cup {end}
      /\ \A n \in Range(Trail) : \E i \in 1..Len(Trail) : Trail[i] = n
  <2>1. Trail \in Seq(Known)
    BY <1>1 DEF Trail
  <2> QED
    BY <1>1, <2>1, TrailFacts DEF Range
<1>4. \A k \in 1..Len(path) : path[k] \in Range(Reported) \cup {end}
  <2>1. \A k \in 1..Len(path) : path[k] \in Range(path)
    BY <1>1 DEF Range
  <2> QED
    BY <1>3, <2>1 DEF Traced
<1>5. path[1] = start
  <2>1. 1 \in 1..Len(path)
    BY <1>1, <1>2
  <2>2. path[1] \in Met
    BY <1>1, <1>4, <2>1 DEF Grown, Searching
  <2>3. Range(Reported) \subseteq Known
    BY <1>1 DEF Range
  <2> QED
    BY <1>1, <1>2, <2>2, <2>3 DEF Grown, Searching
<1>6. ASSUME NEW k \in 1..Len(path), NEW l \in 1..Len(path), path[k] = path[l]
      PROVE  k = l
  <2>1. PICK i \in 1..Len(Trail) : Trail[i] = path[k]
    BY <1>3, <1>4
  <2>2. ~(k < l) /\ ~(l < k)
    BY <1>1, <1>3, <1>6, <2>1 DEF Traced
  <2> QED
    BY <1>1, <2>2
<1>7. Len(path) \in 1..Len(Reported) + 1
  <2>1. PICK i \in 1..Len(Trail) : Trail[i] = path[1]
    BY <1>1, <1>2, <1>3, <1>4
  <2>2. Len(path) + i <= Len(Trail) + 1
    BY <1>2, <2>1 DEF Traced
  <2> QED
    BY <1>1, <1>2, <1>3, <2>1, <2>2
<1>8. path \in [1..Len(path) -> Range(Reported) \cup {end}]
  BY <1>1, <1>4
<1>9. \A k \in 1..Len(path) - 1 : path[k] \in Range(Reported) /\ path[k + 1] \in Succ(path[k])
  BY DEF Traced
<1> QED
  BY <1>2, <1>5, <1>6, <1>7, <1>8, <1>9 DEF Whole

-----------------------------------------------------------------------------
(* The call as module Search sees it. *)

Call == Breadth!AbstractRun(alg, Reported)

(* Its fields. *)
LEMMA CallFields ==
  /\ Call = [alg |-> alg, list |-> list, start |-> start, end |-> end, phase |-> Breadth!AbstractPhase,
             visited |-> Reported, route |-> IF tmp = Empty THEN path ELSE << >>, shown |-> Len(subPath)]
  /\ Call.alg = alg /\ Call.list = list /\ Call.start = start /\ Call.end = end
  /\ Call.phase = Breadth!AbstractPhase
  /\ Call.visited = Reported
  /\ Call.route = IF tmp = Empty THEN path ELSE << >>
  /\ Call.shown = Len(subPath)
BY DEF Call, Breadth!AbstractRun

(* Two ways to say that a message is sent. *)
LEMMA SendSays ==
  ASSUME Typed, NEW kind \in Breadth!MessageKind, NEW nodes \in Seq(Known), Breadth!Send(kind, nodes)
  PROVE  sent' = IF open THEN sent \o Search!Say(kind, nodes) ELSE sent
<1> DEFINE message == [kind |-> kind, nodes |-> nodes]
           Message == [kind : Breadth!MessageKind, nodes : Seq(Known)]
<1>1. message \in Message /\ sent \in Seq(Message)
  BY DEF Typed
<1>2. sent' = IF open THEN Append(sent, message) ELSE sent
  BY DEF Breadth!Send
<1>3. Search!Say(kind, nodes) = <<message>>
  BY DEF Search!Say
<1> HIDE DEF message, Message
<1>4. Append(sent, message) = sent \o <<message>>
  BY <1>1, AppendIsConcat
<1> QED
  BY <1>2, <1>3, <1>4

(* The frontier are the nodes met and not taken. *)
LEMMA FrontierIsMet ==
  ASSUME Typed, Grown, pc = "loop"
  PROVE  Search!Frontier(Call) = Met \ Range(Reported)
<1>1. Expanded = Range(Reported) /\ Search!Range(Reported) = Range(Reported)
  BY DEF Expanded, Range, Search!Range
<1>2. \A n : Search!Successors(list, n) = Succ(n)
  BY DEF Search!Successors, Succ
<1>3. Search!Frontier(Call) = (IF Reported = << >> THEN {start}
                               ELSE UNION {Succ(n) : n \in Range(Reported)}) \ Range(Reported)
  BY <1>1, <1>2, CallFields DEF Search!Frontier
<1>4. Met = {start} \cup UNION {Succ(n) : n \in Range(Reported)}
  BY <1>1 DEF Grown, Searching
<1>5. CASE Reported = << >>
  <2>1. Range(Reported) = {}
    BY <1>5 DEF Range
  <2> QED
    BY <1>3, <1>4, <1>5, <2>1
<1>6. CASE Reported # << >>
  <2>1. start \in Range(Reported)
    BY <1>6 DEF Grown, Searching
  <2> QED
    BY <1>3, <1>4, <1>6, <2>1
<1> QED
  BY <1>5, <1>6

(* A step that moves on the call as Search allows, and sends what it says. *)
LEMMA Implements ==
  ASSUME NEW m \in Search!Moves(Call), Call' = m.next, open' = open,
         sent' = IF open THEN sent \o m.says ELSE sent
  PROVE  Search!Next
<1>1. Search!Advance
  BY DEF Search!Advance, Call
<1> QED
  BY <1>1 DEF Search!Next

(* Such a step that sends nothing and only changes the phase. *)
LEMMA QuietlyImplements ==
  ASSUME Typed, NEW p, Search!Quietly(Call, p) \in Search!Moves(Call),
         alg' = alg, list' = list, start' = start, end' = end, Reported' = Reported,
         tmp' = tmp, path' = path, subPath' = subPath, open' = open, sent' = sent,
         Breadth!AbstractPhase' = p
  PROVE  Search!Next
<1> DEFINE m == Search!Quietly(Call, p)
<1>1. m.next = [Call EXCEPT !.phase = p] /\ m.says = << >>
  BY DEF Search!Quietly, Search!Move
<1>2. Call' = [Call EXCEPT !.phase = p]
  BY CallFields DEF Call, Breadth!AbstractRun
<1>3. sent' = IF open THEN sent \o << >> ELSE sent
  BY ConcatEmptySeq DEF Typed
<1> HIDE DEF m
<1> QED
  BY <1>1, <1>2, <1>3, Implements DEF m

(* The guards refuse the call. *)
LEMMA RefuseImplements ==
  ASSUME Typed, pc = "call", Search!Refused(Call), Breadth!Return, alg' = alg, Reported' = Reported
  PROVE  Search!Next
<1>1. Call.phase = "called" /\ Breadth!AbstractPhase' = "done"
  BY CallFields DEF Breadth!AbstractPhase, Breadth!Return
<1>2. Search!Quietly(Call, "done") \in Search!Moves(Call)
  BY <1>1 DEF Search!Moves
<1> QED
  BY <1>1, <1>2, QuietlyImplements DEF Breadth!Return, Breadth!inputs

(* The call is accepted, or left at once by an exception or worse. *)
LEMMA BeginImplements ==
  ASSUME Typed, pc = "call", ~Search!Refused(Call),
         pc' = "loop" \/ (alg = "A_STAR" /\ pc' \in {"raised", "undefined"}),
         alg' = alg, Reported' = Reported,
         UNCHANGED <<tmp, path, subPath, open, sent, list, start, end>>
  PROVE  Search!Next
<1>1. Call.phase = "called" /\ Call.alg = alg
  BY CallFields DEF Breadth!AbstractPhase
<1>2. CASE pc' = "loop"
  <2>1. Breadth!AbstractPhase' = "search"
    BY <1>2 DEF Breadth!AbstractPhase
  <2>2. Search!Quietly(Call, "search") \in Search!Moves(Call)
    BY <1>1 DEF Search!Moves
  <2> QED
    BY <2>1, <2>2, QuietlyImplements
<1>3. CASE alg = "A_STAR" /\ pc' \in {"raised", "undefined"}
  <2>1. Breadth!AbstractPhase' = pc'
    BY <1>3 DEF Breadth!AbstractPhase
  <2>2. Search!Quietly(Call, pc') \in Search!Moves(Call)
    BY <1>1, <1>3 DEF Search!Moves, Search!Misnamed
  <2> QED
    BY <2>1, <2>2, QuietlyImplements
<1> QED
  BY <1>2, <1>3

(* A node is taken that is not the end. *)
LEMMA TakeImplements ==
  ASSUME Typed, Grown, NoPathYet, pc = "loop", pc' \in {"loop", "relax"},
         NEW n \in Met \ Range(Reported), n # end,
         Reported' = Append(Reported, n), Breadth!Send("visitedNodes", Append(Reported, n)),
         alg' = alg, UNCHANGED <<tmp, path, subPath, open, list, start, end>>
  PROVE  Search!Next
<1>1. Call.phase = "search" /\ Breadth!AbstractPhase' = "search" /\ Breadth!AbstractPhase = "search"
  BY CallFields DEF Breadth!AbstractPhase
<1>2. n \in Search!Frontier(Call) /\ n \in Known
  BY FrontierIsMet, InputFacts DEF Met
<1>3. Search!Take(Call, n) \in Search!Moves(Call)
  BY <1>1, <1>2 DEF Search!Moves, Search!SearchMoves
<1>4. /\ Search!Take(Call, n).next = [Call EXCEPT !.visited = Append(Reported, n)]
      /\ Search!Take(Call, n).says = Search!Say("visitedNodes", Append(Reported, n))
  BY CallFields DEF Search!Take, Search!Move
<1>5. Call' = [Call EXCEPT !.visited = Append(Reported, n)]
  <2> DEFINE more == Append(Reported, n)
  <2>1. /\ Reported' = more
        /\ alg' = alg /\ list' = list /\ start' = start /\ end' = end
        /\ tmp' = tmp /\ path' = path /\ subPath' = subPath
    OBVIOUS
  <2> HIDE DEF more
  <2>2. Call' = [Call EXCEPT !.visited = more]
    BY <1>1, <2>1, CallFields DEF Call, Breadth!AbstractRun
  <2> QED
    BY <2>2 DEF more
<1>6. Append(Reported, n) \in Seq(Known)
  BY <1>2, ReportedTyped
<1>7. sent' = IF open THEN sent \o Search!Say("visitedNodes", Append(Reported, n)) ELSE sent
  BY <1>6, SendSays DEF Breadth!MessageKind
<1> QED
  BY <1>3, <1>4, <1>5, <1>7, Implements

(* The end is taken. *)
LEMMA FoundImplements ==
  ASSUME EmptyIsNoName, Typed, Grown, NoPathYet, pc = "loop", end \in Met,
         Breadth!ConfirmPath(end), alg' = alg, Reported' = Reported
  PROVE  Search!Next
<1>1. end \notin Range(Reported) /\ end # Empty
  BY InputFacts DEF Grown, Searching, Met, EmptyIsNoName, Known
<1>2. /\ pc' = "build" /\ tmp' = end /\ tmp = Empty /\ path = << >>
      /\ UNCHANGED <<path, subPath, open, list, start, end>>
      /\ Breadth!Send("pathFound", << >>)
  BY DEF Breadth!ConfirmPath, Breadth!inputs, NoPathYet
<1>3. Call.phase = "search" /\ Breadth!AbstractPhase' = "found" /\ Breadth!AbstractPhase = "search"
  BY <1>1, <1>2, CallFields DEF Breadth!AbstractPhase
<1>4. Search!Take(Call, end) \in Search!Moves(Call)
  BY <1>1, <1>3, FrontierIsMet DEF Search!Moves, Search!SearchMoves
<1>5. /\ Search!Take(Call, end).next = [Call EXCEPT !.phase = "found"]
      /\ Search!Take(Call, end).says = Search!Say("pathFound", << >>)
  BY CallFields DEF Search!Take, Search!Move
<1>6. Call' = [Call EXCEPT !.phase = "found"]
  BY <1>1, <1>2, <1>3, CallFields DEF Call, Breadth!AbstractRun
<1>7. << >> \in Seq(Known)
  OBVIOUS
<1>8. sent' = IF open THEN sent \o Search!Say("pathFound", << >>) ELSE sent
  BY <1>2, <1>7, SendSays DEF Breadth!MessageKind
<1> QED
  BY <1>2, <1>4, <1>5, <1>6, <1>8, Implements

(* The frontier is empty: the call returns. *)
LEMMA ExhaustedImplements ==
  ASSUME Typed, Grown, pc = "loop", Met \subseteq Range(Reported),
         Breadth!Return, alg' = alg, Reported' = Reported
  PROVE  Search!Next
<1>1. Call.phase = "search" /\ Breadth!AbstractPhase' = "done"
  BY CallFields DEF Breadth!AbstractPhase, Breadth!Return
<1>2. Search!Quietly(Call, "done") \in Search!Moves(Call)
  BY <1>1, FrontierIsMet DEF Search!Moves, Search!SearchMoves
<1> QED
  BY <1>1, <1>2, QuietlyImplements DEF Breadth!Return, Breadth!inputs

(* The heuristic of a_star ends the search. *)
LEMMA MisnamedImplements ==
  ASSUME Typed, alg = "A_STAR", pc = "relax", pc' \in {"raised", "undefined"},
         alg' = alg, Reported' = Reported,
         UNCHANGED <<tmp, path, subPath, open, sent, list, start, end>>
  PROVE  Search!Next
<1>1. Call.phase = "search" /\ Call.alg = "A_STAR" /\ Breadth!AbstractPhase' = pc'
  BY CallFields DEF Breadth!AbstractPhase
<1>2. Search!Quietly(Call, pc') \in Search!Moves(Call)
  BY <1>1 DEF Search!Moves, Search!SearchMoves, Search!Misnamed
<1> QED
  BY <1>1, <1>2, QuietlyImplements

(* One turn of the loop that builds the path: of no concern to Search but   *)
(* the last, with which the path is whole.                                  *)
LEMMA PrependImplements ==
  ASSUME EmptyIsNoName, Typed, Grown, Traced, Shown, pc = "build",
         Breadth!PrependToPath(parent), alg' = alg, parent' = parent, Met' = Met, Reported' = Reported
  PROVE  Search!Next \/ UNCHANGED Search!vars
<1>1. /\ tmp # Empty /\ path' = <<tmp>> \o path /\ tmp' = parent[tmp]
      /\ UNCHANGED <<pc, visitedNodes, subPath, open, sent, list, start, end>>
  BY DEF Breadth!PrependToPath, Breadth!inputs
<1>2. Traced' /\ Shown' /\ path' \in Seq(Known)
  BY <1>1, PrependTraces
<1>3. Grown'
  BY <1>1, GrownStays
<1>4. Typed'
  <2>1. tmp \in Known /\ parent[tmp] \in Known \cup {Empty} /\ Known' = Known
    BY <1>1 DEF Typed, Known
  <2> QED
    BY <1>1, <1>2, <2>1 DEF Typed
<1>5. CASE tmp' # Empty
  <2>1. Call' = Call
    BY <1>1, <1>5 DEF Call, Breadth!AbstractRun, Breadth!AbstractPhase
  <2> QED
    BY <1>1, <2>1 DEF Search!vars, Call
<1>6. CASE tmp' = Empty
  <2>1. /\ path' # << >> /\ path'[1] = start /\ path'[Len(path')] = end
        /\ \A k \in 1..Len(path') - 1 : path'[k] \in Range(Reported) /\ path'[k + 1] \in Succ(path'[k])
        /\ \A k, l \in 1..Len(path') : path'[k] = path'[l] => k = l
        /\ Len(path') \in 1..Len(Reported) + 1
        /\ path' \in [1..Len(path') -> Range(Reported) \cup {end}]
    <3>1. (EmptyIsNoName /\ Typed /\ Grown /\ Traced /\ pc = "build" /\ tmp = Empty => Whole)'
      BY PathIsWhole, PTL
    <3>2. EmptyIsNoName'
      BY DEF EmptyIsNoName
    <3>3. Whole'
      BY <1>1, <1>2, <1>3, <1>4, <1>6, <3>1, <3>2
    <3> QED
      BY <1>1, <3>3 DEF Whole, Succ
  <2>2. Search!Range(Reported) = Range(Reported) /\ \A n : Search!Successors(list, n) = Succ(n)
    BY DEF Search!Range, Range, Search!Successors, Succ
  <2>3. Search!IsRoute(Call, path')
    BY <2>1, <2>2, CallFields DEF Search!IsRoute
  <2>4. path' \in Search!Routes(Call)
    BY <2>1, <2>2, <2>3, CallFields DEF Search!Routes
  <2>5. /\ Breadth!AbstractPhase = "found" /\ Breadth!AbstractPhase' = "route"
        /\ Call.phase = "found" /\ Call.route = << >>
    BY <1>1, <1>6, CallFields DEF Breadth!AbstractPhase
  <2>6. Search!Rebuild(Call, path') \in Search!Moves(Call)
    BY <2>4, <2>5 DEF Search!Moves
  <2>7. /\ Search!Rebuild(Call, path').next = [Call EXCEPT !.phase = "route", !.route = path']
        /\ Search!Rebuild(Call, path').says = << >>
    BY DEF Search!Rebuild, Search!Move
  <2>8. Call' = [Call EXCEPT !.phase = "route", !.route = path']
    <3>1. Call' = [alg |-> alg, list |-> list, start |-> start, end |-> end, phase |-> "route",
                   visited |-> Reported, route |-> path', shown |-> Len(subPath)]
      BY <1>1, <1>6, <2>5 DEF Call, Breadth!AbstractRun
    <3>2. Call = [alg |-> alg, list |-> list, start |-> start, end |-> end, phase |-> "found",
                  visited |-> Reported, route |-> << >>, shown |-> Len(subPath)]
      BY <1>1, <2>5, CallFields
    <3>3. [Call EXCEPT !.phase = "route", !.route = path']
            = [[Call EXCEPT !.phase = "route"] EXCEPT !.route = path']
      OBVIOUS
    <3>4. [Call EXCEPT !.phase = "route"]
            = [alg |-> alg, list |-> list, start |-> start, end |-> end, phase |-> "route",
               visited |-> Reported, route |-> << >>, shown |-> Len(subPath)]
      BY <3>2
    <3> DEFINE p == path'
               c == [Call EXCEPT !.phase = "route"]
               none == << >>
               v == Reported
               n == Len(subPath)
    <3>5. /\ c = [alg |-> alg, list |-> list, start |-> start, end |-> end, phase |-> "route",
                  visited |-> v, route |-> none, shown |-> n]
          /\ Call' = [alg |-> alg, list |-> list, start |-> start, end |-> end, phase |-> "route",
                      visited |-> v, route |-> p, shown |-> n]
      BY <3>1, <3>4
    <3> HIDE DEF p, c, none, v, n
    <3>6. Call' = [c EXCEPT !.route = p]
      BY <3>5
    <3> QED
      BY <3>3, <3>6 DEF c, p
  <2>9. sent' = IF open THEN sent \o << >> ELSE sent
    BY <1>1, ConcatEmptySeq DEF Typed
  <2> QED
    BY <1>1, <2>6, <2>7, <2>8, <2>9, Implements
<1> QED
  BY <1>5, <1>6

(* One more inner node is shown. *)
LEMMA ShowEffect ==
  ASSUME Typed, Traced, Shown, Breadth!ShowNextInner
  PROVE  /\ Append(subPath, path[Len(subPath) + 2]) = SubSeq(path, 2, Len(subPath) + 2)
         /\ subPath' = SubSeq(path, 2, Len(subPath) + 2)
         /\ subPath' \in Seq(Known)
         /\ Len(subPath') = Len(subPath) + 1
         /\ Len(subPath) + 2 < Len(path)
<1>1. /\ path \in Seq(Known) /\ subPath \in Seq(Known)
      /\ Len(path) \in Nat /\ Len(subPath) \in Nat
  BY DEF Typed
<1>2. /\ Len(subPath) + 1 < Len(path) - 1
      /\ subPath' = Append(subPath, path[(Len(subPath) + 1) + 1])
      /\ pc = "build"
  BY DEF Breadth!ShowNextInner
<1>3. (Len(subPath) + 1) + 1 = Len(subPath) + 2 /\ Len(subPath) + 2 \in 1..Len(path)
  BY <1>1, <1>2
<1>4. path[Len(subPath) + 2] \in Known
  BY <1>1, <1>3
<1>5. subPath = SubSeq(path, 2, Len(subPath) + 1)
  BY <1>2 DEF Shown
<1>6. SubSeq(path, 2, Len(subPath) + 2) = SubSeq(path, 2, Len(subPath) + 1) \o <<path[Len(subPath) + 2]>>
  BY <1>1, <1>3, InnerGrows
<1>7. SubSeq(path, 2, Len(subPath) + 1) \o <<path[Len(subPath) + 2]>> = subPath \o <<path[Len(subPath) + 2]>>
  BY <1>5
<1>8. Append(subPath, path[Len(subPath) + 2]) = subPath \o <<path[Len(subPath) + 2]>>
  BY <1>1, <1>4, AppendIsConcat
<1>9. /\ Append(subPath, path[Len(subPath) + 2]) \in Seq(Known)
      /\ Len(Append(subPath, path[Len(subPath) + 2])) = Len(subPath) + 1
  BY <1>1, <1>4
<1>10. subPath' = Append(subPath, path[Len(subPath) + 2])
  BY <1>2, <1>3
<1>11. Append(subPath, path[Len(subPath) + 2]) = SubSeq(path, 2, Len(subPath) + 2)
  BY <1>6, <1>7, <1>8
<1>12. Len(subPath) + 2 < Len(path)
  BY <1>1, <1>2
<1>13. subPath' \in Seq(Known) /\ Len(subPath') = Len(subPath) + 1
  BY <1>9, <1>10
<1> QED
  BY <1>10, <1>11, <1>12, <1>13

(* What was shown stays a part of the path. *)
LEMMA ShowTraces ==
  ASSUME Typed, Traced, Shown, Breadth!ShowNextInner,
         Reported' = Reported, Met' = Met, parent' = parent
  PROVE  Traced' /\ Shown' /\ subPath' \in Seq(Known)
<1>1. pc = "build" /\ UNCHANGED <<pc, tmp, path, list, start, end>> /\ tmp = Empty
  BY DEF Breadth!ShowNextInner, Breadth!inputs
<1>2. Traced'
  BY <1>1 DEF Traced, Trail, Succ
<1>3. Len(path) \in Nat /\ Len(subPath) \in Nat
  BY DEF Typed
<1>4. Shown'
  <2>1. subPath' = SubSeq(path, 2, Len(subPath') + 1) /\ Len(subPath') + 1 < Len(path)
    <3>1. (Len(subPath) + 1) + 1 = Len(subPath) + 2
      BY <1>3
    <3> QED
      BY <3>1, ShowEffect
  <2> QED
    BY <1>1, <2>1 DEF Shown
<1> QED
  BY <1>2, <1>4, ShowEffect

(* ... and Search shows the same node. *)
LEMMA ShowImplements ==
  ASSUME Typed, Traced, Shown, Breadth!ShowNextInner, alg' = alg, Reported' = Reported
  PROVE  Search!Next
<1>1. /\ pc = "build" /\ tmp = Empty
      /\ UNCHANGED <<pc, tmp, path, open, list, start, end>>
      /\ Breadth!Send("pathNodes", Append(subPath, path[(Len(subPath) + 1) + 1]))
  BY DEF Breadth!ShowNextInner, Breadth!inputs
<1>2. Len(path) \in Nat /\ Len(subPath) \in Nat
  BY DEF Typed
<1>3. (Len(subPath) + 1) + 1 = Len(subPath) + 2
  BY <1>2
<1> DEFINE shown == SubSeq(path, 2, Len(subPath) + 2)
           k == Len(subPath) + 1
<1>4. /\ shown \in Seq(Known) /\ Breadth!Send("pathNodes", shown)
      /\ k < Len(path) - 1 /\ Len(subPath') = k
  <2>1. Append(subPath, path[(Len(subPath) + 1) + 1]) = shown
    BY <1>3, ShowEffect
  <2>2. subPath' = shown /\ subPath' \in Seq(Known) /\ Len(subPath') = k
    BY ShowEffect
  <2>3. k < Len(path) - 1
    BY <1>2, ShowEffect
  <2> HIDE DEF shown, k
  <2> QED
    BY <1>1, <2>1, <2>2, <2>3
<1>5. Call.phase = "route" /\ Call.route = path /\ Call.shown = Len(subPath)
      /\ Breadth!AbstractPhase = "route" /\ Breadth!AbstractPhase' = "route"
  BY <1>1, CallFields DEF Breadth!AbstractPhase
<1> DEFINE m == Search!Move([Call EXCEPT !.shown = k], Search!Say("pathNodes", shown))
<1>6. m \in Search!Moves(Call)
  <2>1. Search!RouteMoves(Call) = {m}
    BY <1>2, <1>3, <1>4, <1>5 DEF Search!RouteMoves
  <2> QED
    BY <1>5, <2>1 DEF Search!Moves
<1>7. m.next = [Call EXCEPT !.shown = k] /\ m.says = Search!Say("pathNodes", shown)
  BY DEF Search!Move
<1>8. Call' = [Call EXCEPT !.shown = k]
  <2>1. Len(subPath') = k /\ Breadth!AbstractPhase' = Breadth!AbstractPhase
    BY <1>4, <1>5
  <2> HIDE DEF k
  <2> QED
    BY <1>1, <2>1, CallFields DEF Call, Breadth!AbstractRun
<1>9. sent' = IF open THEN sent \o Search!Say("pathNodes", shown) ELSE sent
  <2> HIDE DEF shown
  <2> QED
    BY <1>4, SendSays DEF Breadth!MessageKind
<1> HIDE DEF m, shown, k
<1> QED
  BY <1>1, <1>6, <1>7, <1>8, <1>9, Implements

(* All that is to be shown was shown: the call returns. *)
LEMMA LeaveImplements ==
  ASSUME Typed, Breadth!LeaveAfterPath, alg = "A_STAR" => Len(path) # 1,
         alg' = alg, Reported' = Reported
  PROVE  Search!Next
<1>1. /\ pc = "build" /\ tmp = Empty /\ Len(subPath) + 1 >= Len(path) - 1
      /\ Breadth!Return
  BY DEF Breadth!LeaveAfterPath
<1>2. /\ Call.phase = "route" /\ Call.route = path /\ Call.shown = Len(subPath) /\ Call.alg = alg
      /\ Breadth!AbstractPhase' = "done"
  BY <1>1, CallFields DEF Breadth!AbstractPhase, Breadth!Return
<1>3. Len(path) \in Nat /\ Len(subPath) \in Nat
  BY DEF Typed
<1>4. ~(Len(subPath) + 1 < Len(path) - 1)
  BY <1>1, <1>3
<1>5. Search!Quietly(Call, "done") \in Search!Moves(Call)
  BY <1>2, <1>4 DEF Search!Moves, Search!RouteMoves
<1> QED
  BY <1>1, <1>2, <1>5, QuietlyImplements DEF Breadth!Return, Breadth!inputs

(* a_star reads behind a path of one node. *)
LEMMA PastPathImplements ==
  ASSUME Typed, alg = "A_STAR", pc = "build", tmp = Empty, Len(path) = 1, pc' = "undefined",
         alg' = alg, Reported' = Reported,
         UNCHANGED <<tmp, path, subPath, open, sent, list, start, end>>
  PROVE  Search!Next
<1>1. /\ Call.phase = "route" /\ Call.route = path /\ Call.alg = "A_STAR"
      /\ Breadth!AbstractPhase' = "undefined"
  BY CallFields DEF Breadth!AbstractPhase
<1>2. Search!Quietly(Call, "undefined") \in Search!Moves(Call)
  BY <1>1 DEF Search!Moves, Search!RouteMoves
<1> QED
  BY <1>1, <1>2, QuietlyImplements

(* The client leaves. *)
LEMMA HangUpImplements ==
  ASSUME HangUp, Reported' = Reported
  PROVE  Search!Next
<1>1. open /\ open' = FALSE /\ UNCHANGED <<alg, list, start, end, pc, tmp, path, subPath, sent>>
  BY DEF HangUp, Breadth!SessionEnds, Breadth!inputs
<1>2. Call' = Call
  BY <1>1 DEF Call, Breadth!AbstractRun, Breadth!AbstractPhase
<1>3. Search!HangUp
  BY <1>1, <1>2 DEF Search!HangUp, Call
<1> QED
  BY <1>3 DEF Search!Next

-----------------------------------------------------------------------------
(* All that the members have in common, kept by the kinds of steps they     *)
(* have in common.                                                          *)

Common == Typed /\ Fresh /\ NoPathYet /\ Grown /\ Traced /\ Shown

(* What a send leaves in sent. *)
LEMMA SendTyped ==
  ASSUME Typed, NEW kind \in Breadth!MessageKind, NEW nodes \in Seq(Known), Breadth!Send(kind, nodes)
  PROVE  sent' \in Seq([kind : Breadth!MessageKind, nodes : Seq(Known)])
<1> DEFINE message == [kind |-> kind, nodes |-> nodes]
           Message == [kind : Breadth!MessageKind, nodes : Seq(Known)]
<1>1. message \in Message /\ sent \in Seq(Message)
  BY DEF Typed
<1>2. sent' = IF open THEN Append(sent, message) ELSE sent
  BY DEF Breadth!Send
<1> HIDE DEF message, Message
<1>3. sent' \in Seq(Message)
  BY <1>1, <1>2
<1> QED
  BY <1>3 DEF Message

(* The guards are passed. *)
LEMMA BeginKeeps ==
  ASSUME Common, pc = "call", start # Empty, start \in DOMAIN list,
         pc' \in {"loop", "raised", "undefined"}, pc' = "loop" => Met' = {start},
         UNCHANGED <<alg, parent, visitedNodes, tmp, path, subPath, open, sent, list, start, end>>
  PROVE  Common' /\ Reported' = Reported
<1> USE DEF Common
<1>1. visitedNodes = << >> /\ Reported' = << >> /\ Reported = << >>
  BY DEF Fresh, Reported, Nearest!Reported
<1>2. parent[start] = Empty
  BY InputFacts DEF Fresh
<1>3. Typed'
  BY DEF Typed, Known, Breadth!Control
<1>4. Fresh' /\ NoPathYet' /\ Traced' /\ Shown'
  BY DEF Fresh, NoPathYet, Traced, Shown
<1>5. Grown'
  <2>1. CASE pc' = "loop"
    BY <1>1, <1>2, <2>1, BeginGrows
  <2>2. CASE pc' # "loop"
    BY <2>2 DEF Grown, Searching
  <2> QED
    BY <2>1, <2>2
<1> QED
  BY <1>1, <1>3, <1>4, <1>5

(* A node is taken. *)
LEMMA TakeKeeps ==
  ASSUME Common, Grown', pc = "loop", pc' \in {"loop", "relax"}, NEW n \in Known,
         visitedNodes' = Append(visitedNodes, n), Breadth!Send("visitedNodes", Append(visitedNodes, n)),
         parent' \in [Known -> Known \cup {Empty}],
         UNCHANGED <<alg, tmp, path, subPath, open, list, start, end>>
  PROVE  Common'
<1> USE DEF Common
<1>1. Append(visitedNodes, n) \in Seq(Known)
  BY DEF Typed
<1>2. sent' \in Seq([kind : Breadth!MessageKind, nodes : Seq(Known)])
  BY <1>1, SendTyped DEF Breadth!MessageKind
<1>3. Typed'
  <2>1. Known' = Known
    BY DEF Known
  <2> QED
    BY <1>1, <1>2, <2>1 DEF Typed, Breadth!Control
<1>4. Fresh' /\ NoPathYet' /\ Traced' /\ Shown'
  BY DEF Fresh, NoPathYet, Traced, Shown
<1> QED
  BY <1>3, <1>4

(* The end is taken. *)
LEMMA FoundKeeps ==
  ASSUME Common, pc = "loop", end \in Met, Breadth!ConfirmPath(end),
         alg' = alg, parent' = parent, Met' = Met, Reported' = Reported,
         visitedNodes' \in Seq(Known)
  PROVE  Common'
<1> USE DEF Common
<1>1. /\ pc' = "build" /\ tmp' = end /\ path' = << >> /\ subPath' = << >>
      /\ UNCHANGED <<open, list, start, end>>
      /\ Breadth!Send("pathFound", << >>)
  BY DEF Breadth!ConfirmPath, Breadth!inputs, NoPathYet
<1>2. Grown'
  BY <1>1, GrownStays
<1>3. Traced' /\ Shown'
  BY <1>1, FoundTraces
<1>4. << >> \in Seq(Known)
  OBVIOUS
<1>5. sent' \in Seq([kind : Breadth!MessageKind, nodes : Seq(Known)])
  BY <1>1, <1>4, SendTyped DEF Breadth!MessageKind
<1>6. Typed'
  <2>1. Known' = Known /\ end \in Known
    BY InputFacts DEF Known, Met
  <2> QED
    BY <1>1, <1>4, <1>5, <2>1 DEF Typed, Breadth!Control
<1>7. Fresh' /\ NoPathYet'
  BY <1>1 DEF Fresh, NoPathYet
<1> QED
  BY <1>2, <1>3, <1>6, <1>7

(* The second half of an iteration of a_star, or its early end. *)
LEMMA RelaxKeeps ==
  ASSUME Common, pc = "relax", pc' \in {"loop", "raised", "undefined"}, pc' = "loop" => Grown',
         parent' \in [Known -> Known \cup {Empty}],
         UNCHANGED <<alg, visitedNodes, tmp, path, subPath, open, sent, list, start, end>>
  PROVE  Common'
<1> USE DEF Common
<1>1. Typed'
  BY DEF Typed, Known, Breadth!Control
<1>2. Fresh' /\ NoPathYet' /\ Traced' /\ Shown' /\ Grown'
  BY DEF Fresh, NoPathYet, Traced, Shown, Grown, Searching
<1> QED
  BY <1>1, <1>2

(* The steps that touch nothing of the search itself. *)
Passive ==
  /\ UNCHANGED <<alg, parent, Met, Reported>>
  /\ \/ pc = "call" /\ Search!Refused(Call) /\ Breadth!Return
     \/ Breadth!PrependToPath(parent)
     \/ Breadth!ShowNextInner
     \/ Breadth!LeaveAfterPath /\ (alg = "A_STAR" => Len(path) # 1)
     \/ pc = "loop" /\ Met \subseteq Range(Reported) /\ Breadth!Return
     \/ /\ alg = "A_STAR" /\ pc = "build" /\ tmp = Empty /\ Len(path) = 1 /\ pc' = "undefined"
        /\ UNCHANGED <<visitedNodes, tmp, path, subPath, open, sent, list, start, end>>

(* They keep what the members have in common. *)
LEMMA PassiveKeeps ==
  ASSUME Common, Passive
  PROVE  Common'
<1> USE DEF Common
<1>1. CASE Breadth!Return \/ Breadth!LeaveAfterPath
  <2>1. pc' = "done" /\ UNCHANGED <<visitedNodes, tmp, path, subPath, open, sent, list, start, end>>
    BY <1>1 DEF Breadth!LeaveAfterPath, Breadth!Return, Breadth!inputs
  <2>2. Typed'
    BY <2>1 DEF Passive, Typed, Known, Breadth!Control
  <2> QED
    BY <2>1, <2>2 DEF Fresh, NoPathYet, Traced, Shown, Grown, Searching
<1>2. CASE Breadth!PrependToPath(parent)
  <2>1. /\ pc = "build" /\ tmp # Empty /\ path' = <<tmp>> \o path /\ tmp' = parent[tmp]
        /\ UNCHANGED <<pc, visitedNodes, subPath, open, sent, list, start, end>>
        /\ UNCHANGED <<alg, parent, Met, Reported>>
    BY <1>2 DEF Breadth!PrependToPath, Breadth!inputs, Passive
  <2>2. Traced' /\ Shown' /\ path' \in Seq(Known)
    BY <2>1, PrependTraces
  <2>3. Grown'
    BY <2>1, GrownStays
  <2>4. tmp \in Known /\ parent[tmp] \in Known \cup {Empty} /\ Known' = Known
    BY <2>1 DEF Typed, Known
  <2>5. Typed'
    BY <2>1, <2>2, <2>4 DEF Typed
  <2>6. Fresh' /\ NoPathYet'
    BY <2>1 DEF Fresh, NoPathYet
  <2> QED
    BY <2>2, <2>3, <2>5, <2>6
<1>3. CASE Breadth!ShowNextInner
  <2>1. /\ pc = "build" /\ UNCHANGED <<pc, visitedNodes, tmp, path, open, list, start, end>>
        /\ UNCHANGED <<alg, parent, Met, Reported>>
        /\ Breadth!Send("pathNodes", Append(subPath, path[(Len(subPath) + 1) + 1]))
        /\ subPath' = Append(subPath, path[(Len(subPath) + 1) + 1])
    BY <1>3 DEF Breadth!ShowNextInner, Breadth!inputs, Passive
  <2>2. Traced' /\ Shown' /\ subPath' \in Seq(Known)
    BY <1>3, <2>1, ShowTraces
  <2>3. Grown'
    BY <2>1, GrownStays
  <2>4. sent' \in Seq([kind : Breadth!MessageKind, nodes : Seq(Known)])
    BY <2>1, <2>2, SendTyped DEF Breadth!MessageKind
  <2>5. Typed'
    <3>1. Known' = Known
      BY <2>1 DEF Known
    <3> QED
      BY <2>1, <2>2, <2>4, <3>1 DEF Typed
  <2>6. Fresh' /\ NoPathYet'
    BY <2>1 DEF Fresh, NoPathYet
  <2> QED
    BY <2>2, <2>3, <2>5, <2>6
<1>4. CASE /\ alg = "A_STAR" /\ pc = "build" /\ tmp = Empty /\ Len(path) = 1 /\ pc' = "undefined"
           /\ UNCHANGED <<visitedNodes, tmp, path, subPath, open, sent, list, start, end>>
  <2>1. Typed'
    BY <1>4 DEF Passive, Typed, Known, Breadth!Control
  <2> QED
    BY <1>4, <2>1 DEF Fresh, NoPathYet, Traced, Shown, Grown, Searching
<1> QED
  BY <1>1, <1>2, <1>3, <1>4 DEF Passive

(* Each is a step of Search, or none of its concern. *)
LEMMA PassiveImplements ==
  ASSUME EmptyIsNoName, Common, Passive
  PROVE  Search!Next \/ UNCHANGED Search!vars
<1> USE DEF Common
<1>1. UNCHANGED <<alg, parent, Met, Reported>>
  BY DEF Passive
<1>2. CASE pc = "call" /\ Search!Refused(Call) /\ Breadth!Return
  BY <1>1, <1>2, RefuseImplements
<1>3. CASE Breadth!PrependToPath(parent)
  <2>1. pc = "build"
    BY <1>3 DEF Breadth!PrependToPath
  <2> QED
    BY <1>1, <1>3, <2>1, PrependImplements
<1>4. CASE Breadth!ShowNextInner
  BY <1>1, <1>4, ShowImplements
<1>5. CASE Breadth!LeaveAfterPath /\ (alg = "A_STAR" => Len(path) # 1)
  BY <1>1, <1>5, LeaveImplements
<1>6. CASE pc = "loop" /\ Met \subseteq Range(Reported) /\ Breadth!Return
  BY <1>1, <1>6, ExhaustedImplements
<1>7. CASE /\ alg = "A_STAR" /\ pc = "build" /\ tmp = Empty /\ Len(path) = 1 /\ pc' = "undefined"
           /\ UNCHANGED <<visitedNodes, tmp, path, subPath, open, sent, list, start, end>>
  BY <1>1, <1>7, PastPathImplements
<1> QED
  BY <1>2, <1>3, <1>4, <1>5, <1>6, <1>7 DEF Passive

(* The client leaves, or nothing happens at all. *)
LEMMA IdleKeeps ==
  ASSUME Common, alg' = alg, parent' = parent, Met' = Met, Reported' = Reported,
         open' \in BOOLEAN, current' = current,
         UNCHANGED <<pc, visitedNodes, tmp, path, subPath, sent, list, start, end>>
  PROVE  Common'
<1> USE DEF Common
<1>1. Typed'
  BY DEF Typed, Known
<1>2. Expanded' = Expanded
  BY DEF Expanded
<1>3. Grown'
  BY <1>2 DEF Grown, Searching, Succ
<1>4. Fresh' /\ NoPathYet' /\ Traced' /\ Shown'
  BY DEF Fresh, Known, NoPathYet, Traced, Trail, Succ, Shown
<1> QED
  BY <1>1, <1>3, <1>4

(* The guards, as module Search has them. *)
LEMMA RefusedAgrees ==
  Search!Refused(Call) <=> \/ DOMAIN list = {} \/ start = Empty \/ start \notin DOMAIN list
                           \/ alg = "A_STAR" /\ end \notin DOMAIN list
BY CallFields DEF Search!Refused

-----------------------------------------------------------------------------
(* The four members. *)

(* bfs and dfs: the nodes met and not yet processed. *)
Waiting == IF alg = "BFS" THEN Queue ELSE Stack

(* Black are the nodes taken, grey are those that wait, once each.          *)
Coloured ==
  alg \in {"BFS", "DFS"} =>
    /\ colors \in [Names -> Breadth!Colors]
    /\ Waiting \in Seq(Names)
    /\ pc # "relax"
    /\ pc = "loop" =>
         /\ \A n \in Names : colors[n] = "" <=> n \notin DOMAIN list
         /\ \A n \in Names : colors[n] = "noir" <=> n \in Range(visitedNodes)
         /\ Range(Waiting) = {n \in Names : colors[n] = "gris"}
         /\ Distinct(Waiting)

(* The distance of bfs and dijkstra: nothing has a larger one than there    *)
(* are nodes taken, so that adding one to it does not reach INT_MAX.        *)
Settling ==
  alg = "DIJKSTRA" =>
    /\ distances \in [Names -> 0..Nearest!INT_MAX]
    /\ visited \in [Names -> BOOLEAN]
    /\ pc = "call" => \A n \in Names : ~visited[n]
    /\ pc # "relax"
    /\ pc = "loop" =>
         /\ distances[start] = 0
         /\ \A n \in Names \ DOMAIN list : distances[n] = 0
         /\ \A n \in Names : visited[n] <=> n \in Range(visitedNodes)
         /\ \A n \in Met : distances[n] <= Len(visitedNodes)
         /\ \A n \in Met \ {start} : distances[n] = distances[parent[n]] + 1
         /\ end \notin Range(visitedNodes)

(* Every edge weighs 0: a node has the score 0 or was not met, and what     *)
(* open_set holds was met and not taken, and is there once.                 *)
Heaped ==
  alg = "A_STAR" =>
    /\ g_score \in [Known -> {0, Best!Infinity}]
    /\ f_score \in [Known -> 0..Best!Infinity]
    /\ current \in Known \cup {Empty}
    /\ open_set_lookup \subseteq Known
    /\ open_set = [n \in Known |-> IF n \in open_set_lookup THEN 1 ELSE 0]
    /\ pc = "call" => open_set_lookup = {}
    /\ Searching => end \in DOMAIN list
    /\ pc \in {"loop", "relax"} =>
         /\ g_score[start] = 0
         /\ \A n \in Known \ DOMAIN list : g_score[n] = 0
         /\ open_set_lookup = Met \ Range(visitedNodes)
    /\ pc = "relax" => current \in Range(visitedNodes)

IInv == EmptyIsNoName /\ Common /\ Coloured /\ Settling /\ Heaped

-----------------------------------------------------------------------------
(* The marks of nodes not met are numbers. *)
LEMMA Limits == Nearest!INT_MAX \in Nat /\ Best!Infinity \in Nat
BY DEF Nearest!INT_MAX, Best!Infinity

(* bfs and dfs. *)

(* An order of a finite set is a sequence that holds every element once.    *)
LEMMA OrderFacts ==
  ASSUME NEW W, IsFiniteSet(W), NEW order \in Breadth!Orders(W)
  PROVE  /\ order \in Seq(W)
         /\ Distinct(order)
         /\ Range(order) = W
<1> DEFINE k == Cardinality(W)
<1>1. k \in Nat
  BY FS_CardinalityType
<1>2. /\ order \in [1..k -> W]
      /\ \A i, j \in 1..k : order[i] = order[j] => i = j
      /\ \A w \in W : \E i \in 1..k : order[i] = w
  <2>1. order \in Breadth!Injection(1..k, W) /\ order \in Breadth!Surjection(1..k, W)
    <3>1. Breadth!Cardinality(W) = Cardinality(W)
      BY DEF Breadth!Cardinality, Cardinality
    <3> QED
      BY <3>1 DEF Breadth!Orders, Breadth!Bijection
  <2>2. order \in [1..k -> W] /\ Breadth!IsInjective(order)
    BY <2>1 DEF Breadth!Injection
  <2>3. \A w \in W : \E i \in 1..k : order[i] = w
    BY <2>1 DEF Breadth!Surjection
  <2> HIDE DEF k
  <2> QED
    BY <2>2, <2>3 DEF Breadth!IsInjective
<1> HIDE DEF k
<1>3. order \in Seq(W) /\ Len(order) = k
  BY <1>1, <1>2
<1>4. Range(order) = W
  BY <1>1, <1>2 DEF Range
<1> QED
  BY <1>2, <1>3, <1>4 DEF Distinct

(* In bfs and dfs all that was visited is reported. *)
LEMMA ReportedIsVisited == alg # "DIJKSTRA" => Reported = visitedNodes
BY DEF Reported

(* The nodes met and not taken are those that wait. *)
LEMMA WaitingIsMet ==
  ASSUME IInv, alg \in {"BFS", "DFS"}, pc = "loop"
  PROVE  /\ Range(Waiting) = Met \ Range(Reported)
         /\ \A n \in DOMAIN list : colors[n] = "blanc" <=> n \notin Met
<1>1. DOMAIN list \subseteq Names
  BY InputFacts DEF IInv, Common, Known
<1>2. Met = {n \in DOMAIN list : colors[n] \in {"gris", "noir"}}
  BY DEF Met
<1> QED
  BY <1>1, <1>2, ReportedIsVisited DEF IInv, Coloured, Breadth!Colors

White(node) == {m \in list[node] : colors[m] = "blanc"}

(* The head of the queue, or the top of the stack, is a node met and not    *)
(* taken; its white neighbours are those that were not met.                 *)
LEMMA HeadFacts ==
  ASSUME IInv, alg \in {"BFS", "DFS"}, pc = "loop", Waiting # << >>
  PROVE  /\ Head(Waiting) \in Met \ Range(Reported)
         /\ Head(Waiting) \in Names /\ Head(Waiting) # Empty
         /\ Tail(Waiting) \in Seq(Names) /\ Distinct(Tail(Waiting))
         /\ Range(Tail(Waiting)) = Range(Waiting) \ {Head(Waiting)}
         /\ White(Head(Waiting)) = Succ(Head(Waiting)) \ Met
         /\ White(Head(Waiting)) \subseteq Names
         /\ IsFiniteSet(White(Head(Waiting)))
         /\ Range(Waiting) \cap White(Head(Waiting)) = {}
<1>1. Waiting \in Seq(Names) /\ Distinct(Waiting)
  BY DEF IInv, Coloured
<1>2. /\ Head(Waiting) \in Range(Waiting) /\ Head(Waiting) \in Names
      /\ Tail(Waiting) \in Seq(Names) /\ Distinct(Tail(Waiting))
      /\ Range(Tail(Waiting)) = Range(Waiting) \ {Head(Waiting)}
  BY <1>1, TailOfDistinct
<1> DEFINE node == Head(Waiting)
<1>3. node \in Met \ Range(Reported) /\ node # Empty
  BY <1>2, WaitingIsMet DEF IInv, EmptyIsNoName
<1>4. /\ node \in DOMAIN list /\ list \in [DOMAIN list -> SUBSET Names] /\ DOMAIN list \subseteq Names
      /\ IsFiniteSet(list[node])
  BY <1>3, InputFacts DEF IInv, Common, Known, Met
<1> HIDE DEF node
<1>5. list[node] \subseteq Names
  BY <1>4
<1>6. White(node) = Succ(node) \ Met
  BY <1>4, <1>5, WaitingIsMet DEF White, Succ, IInv, Coloured
<1>7. White(node) \subseteq Names /\ White(node) \cap Met = {}
  BY <1>5, <1>6 DEF White
<1>8. IsFiniteSet(White(node))
  <2>1. White(node) \in SUBSET list[node]
    BY DEF White
  <2> QED
    BY <1>4, <2>1, FS_Subset
<1>9. Range(Waiting) \cap White(node) = {}
  BY <1>7, WaitingIsMet
<1> QED
  BY <1>2, <1>3, <1>6, <1>7, <1>8, <1>9 DEF node

(* One iteration of bfs or dfs. *)
VisitColours(order) ==
  LET node == Head(Waiting)
  IN  /\ alg \in {"BFS", "DFS"} /\ pc = "loop" /\ Waiting # << >> /\ ~(end # Empty /\ end = node)
      /\ order \in Breadth!Orders(White(node))
      /\ colors' = [n \in Names |-> IF n = node THEN "noir"
                                    ELSE IF n \in White(node) THEN "gris" ELSE colors[n]]
      /\ parent' = [n \in Names |-> IF n \in White(node) THEN node ELSE parent[n]]
      /\ Waiting' \in {Tail(Waiting) \o order, order \o Tail(Waiting)}
      /\ visitedNodes' = Append(visitedNodes, node)
      /\ Breadth!Send("visitedNodes", Append(visitedNodes, node))
      /\ UNCHANGED <<alg, pc, tmp, path, subPath, open, list, start, end>>

(* What waits then: all that did but the head, and the nodes just met. *)
LEMMA WaitingAfter ==
  ASSUME IInv, NEW order, VisitColours(order)
  PROVE  /\ order \in Seq(Names) /\ Distinct(order) /\ Range(order) = White(Head(Waiting))
         /\ Waiting' \in Seq(Names) /\ Distinct(Waiting')
         /\ Range(Waiting') = (Range(Waiting) \ {Head(Waiting)}) \cup White(Head(Waiting))
<1> DEFINE node == Head(Waiting)
           rest == Tail(Waiting)
           white == White(node)
<1>1. /\ rest \in Seq(Names) /\ Distinct(rest)
      /\ Range(rest) = Range(Waiting) \ {node}
      /\ white \subseteq Names /\ IsFiniteSet(white)
      /\ Range(Waiting) \cap white = {}
  BY HeadFacts DEF VisitColours
<1>2. order \in Breadth!Orders(white) /\ Waiting' \in {rest \o order, order \o rest}
  BY DEF VisitColours
<1> HIDE DEF node, rest, white
<1>3. order \in Seq(white) /\ Distinct(order) /\ Range(order) = white
  BY <1>1, <1>2, OrderFacts
<1>4. order \in Seq(Names)
  BY <1>1, <1>3
<1>5. Range(rest) \cap Range(order) = {} /\ Range(order) \cap Range(rest) = {}
  BY <1>1, <1>3
<1>6. /\ rest \o order \in Seq(Names) /\ Distinct(rest \o order)
      /\ Range(rest \o order) = Range(rest) \cup Range(order)
  BY <1>1, <1>3, <1>4, <1>5, RangeOfConcat
<1>7. /\ order \o rest \in Seq(Names) /\ Distinct(order \o rest)
      /\ Range(order \o rest) = Range(order) \cup Range(rest)
  BY <1>1, <1>3, <1>4, <1>5, RangeOfConcat
<1>8. Waiting' \in Seq(Names) /\ Distinct(Waiting') /\ Range(Waiting') = Range(rest) \cup white
  BY <1>2, <1>3, <1>6, <1>7
<1> QED
  BY <1>1, <1>3, <1>4, <1>8 DEF node, white

(* A BFS or a DFS that takes a node colours it and its white successors, *)
(* appends the node to what it reported, and is a step of the search.    *)
LEMMA VisitColoursKeeps ==
  ASSUME IInv, NEW order, VisitColours(order)
  PROVE  Common' /\ Coloured' /\ Search!Next
<1> DEFINE node == Head(Waiting)
           white == White(node)
<1>1. /\ node \in Met \ Range(Reported) /\ node \in Names /\ node # Empty
      /\ white = Succ(node) \ Met /\ white \subseteq Names
      /\ Range(Waiting) \cap white = {}
  BY HeadFacts DEF VisitColours
<1>2. /\ alg \in {"BFS", "DFS"} /\ pc = "loop" /\ node # end
      /\ colors' = [n \in Names |-> IF n = node THEN "noir"
                                    ELSE IF n \in white THEN "gris" ELSE colors[n]]
      /\ parent' = [n \in Names |-> IF n \in white THEN node ELSE parent[n]]
      /\ visitedNodes' = Append(visitedNodes, node)
      /\ Breadth!Send("visitedNodes", Append(visitedNodes, node))
      /\ UNCHANGED <<alg, pc, tmp, path, subPath, open, list, start, end>>
  BY <1>1 DEF VisitColours
<1>3. /\ Waiting' \in Seq(Names) /\ Distinct(Waiting')
      /\ Range(Waiting') = (Range(Waiting) \ {node}) \cup white
  BY WaitingAfter
<1>4. Reported = visitedNodes /\ Reported' = Append(Reported, node) /\ Known = Names
  BY <1>2, ReportedIsVisited DEF Reported, Known
<1>5. /\ Range(Waiting) = Met \ Range(Reported)
      /\ DOMAIN list \subseteq Names /\ Met \subseteq DOMAIN list
      /\ colors \in [Names -> Breadth!Colors]
      /\ parent \in [Names -> Names \cup {Empty}]
      /\ visitedNodes \in Seq(Names)
  <2>1. parent \in [Names -> Names \cup {Empty}] /\ visitedNodes \in Seq(Names)
    BY <1>4 DEF IInv, Common, Typed
  <2>2. DOMAIN list \subseteq Names
    BY <1>4, InputFacts DEF IInv, Common
  <2>3. colors \in [Names -> Breadth!Colors]
    BY <1>2 DEF IInv, Coloured
  <2> QED
    BY <1>2, <2>1, <2>2, <2>3, WaitingIsMet DEF Met
<1> HIDE DEF node, white
<1>6. Met' = Met \cup Succ(node)
  <2>1. Met = {n \in DOMAIN list : colors[n] \in {"gris", "noir"}}
    BY <1>2 DEF Met
  <2>2. Met' = {n \in DOMAIN list : colors'[n] \in {"gris", "noir"}}
    BY <1>2 DEF Met
  <2>3. white \subseteq DOMAIN list /\ Succ(node) \subseteq DOMAIN list
    BY <1>1 DEF Succ
  <2> QED
    BY <1>1, <1>2, <1>5, <2>1, <2>2, <2>3
<1>7. /\ \A m \in Range(Reported) \cup {start, node} : parent'[m] = parent[m]
      /\ \A m \in Met' \ (Range(Reported) \cup {start, node}) :
           \/ m \in Met /\ parent'[m] = parent[m]
           \/ m \in Succ(node) /\ parent'[m] = node
  <2>1. Range(Reported) \cup {start, node} \subseteq Met
    BY <1>1, <1>2 DEF IInv, Common, Grown, Searching
  <2> QED
    BY <1>1, <1>2, <1>5, <1>6, <2>1
<1>8. Grown'
  BY <1>1, <1>2, <1>4, <1>6, <1>7, TakeGrows DEF IInv, Common
<1>9. parent' \in [Known -> Known \cup {Empty}]
  BY <1>1, <1>2, <1>4, <1>5
<1>10. Common'
  BY <1>1, <1>2, <1>4, <1>8, <1>9, TakeKeeps DEF IInv
<1>11. Search!Next
  BY <1>1, <1>2, <1>4, TakeImplements DEF IInv, Common
<1>12. Coloured'
  <2>1. colors' \in [Names -> Breadth!Colors]
    BY <1>1, <1>2, <1>5 DEF Breadth!Colors
  <2>2. node \in DOMAIN list /\ white \subseteq DOMAIN list
    BY <1>1, <1>5 DEF Succ
  <2>3. \A n \in Names : colors[n] = "" <=> n \notin DOMAIN list
    BY <1>2 DEF IInv, Coloured
  <2>4. \A n \in Names : colors'[n] = "" <=> n \notin DOMAIN list'
    BY <1>1, <1>2, <2>2, <2>3
  <2>5. Range(visitedNodes') = Range(visitedNodes) \cup {node}
    BY <1>1, <1>2, <1>5, RangeOfAppend
  <2>6. \A n \in Names : colors[n] = "noir" <=> n \in Range(visitedNodes)
    BY <1>2 DEF IInv, Coloured
  <2>7. white \cap Range(visitedNodes) = {}
    BY <1>1, <1>2, <1>4 DEF IInv, Common, Grown, Searching
  <2>8. \A n \in Names : colors'[n] = "noir" <=> n \in Range(visitedNodes')
    BY <1>1, <1>2, <2>5, <2>6, <2>7
  <2>9. Range(Waiting) = {n \in Names : colors[n] = "gris"}
    BY <1>2 DEF IInv, Coloured
  <2>10. Range(Waiting') = {n \in Names : colors'[n] = "gris"}
    BY <1>1, <1>2, <1>3, <2>9
  <2> QED
    BY <1>2, <1>3, <2>1, <2>4, <2>8, <2>10 DEF Coloured
<1> QED
  BY <1>10, <1>11, <1>12

(* The colours after the first loop of bfs and dfs. *)
FirstColours ==
  [n \in Names |-> IF n = start THEN "gris" ELSE IF n \in DOMAIN list THEN "blanc" ELSE ""]

(* bfs and dfs pass their guards. *)
LEMMA BeginColoured ==
  ASSUME IInv, alg \in {"BFS", "DFS"}, pc = "call", ~Breadth!Refused,
         colors' = FirstColours, Waiting' = <<start>>, pc' = "loop",
         UNCHANGED <<alg, parent, visitedNodes, tmp, path, subPath, open, sent, list, start, end>>
  PROVE  Common' /\ Coloured' /\ Search!Next
<1>1. start # Empty /\ start \in DOMAIN list /\ ~Search!Refused(Call)
  BY RefusedAgrees DEF Breadth!Refused
<1>2. DOMAIN list \subseteq Names /\ start \in Names
  BY <1>1, InputFacts DEF IInv, Common, Known
<1>3. Met' = {start}
  <2>1. \A n \in DOMAIN list : FirstColours[n] \in {"gris", "noir"} <=> n = start
    BY <1>2 DEF FirstColours
  <2> QED
    BY <1>1, <2>1 DEF Met
<1>4. Common' /\ Reported' = Reported
  BY <1>1, <1>3, BeginKeeps DEF IInv
<1>5. Search!Next
  <2>1. Typed
    BY DEF IInv, Common
  <2>2. UNCHANGED <<tmp, path, subPath, open, sent, list, start, end, alg>>
    OBVIOUS
  <2>3. Reported' = Reported /\ ~Search!Refused(Call)
    BY <1>1, <1>4
  <2>4. pc = "call" /\ alg' = alg /\ pc' = "loop"
    OBVIOUS
  <2> QED
    BY ONLY <2>1, <2>2, <2>3, <2>4, BeginImplements
<1>6. visitedNodes' = << >> /\ Range(<< >>) = {}
  <2>1. visitedNodes = << >>
    BY DEF IInv, Common, Fresh
  <2>2. Range(<< >>) = {}
    BY DEF Range
  <2> QED
    BY <2>1, <2>2
<1>7. <<start>> \in Seq(Names) /\ Distinct(<<start>>) /\ Range(<<start>>) = {start}
  <2>1. /\ <<start>> \in Seq(Names) /\ Len(<<start>>) = 1 /\ <<start>>[1] = start
        /\ DOMAIN <<start>> = {1}
    BY <1>2
  <2>2. \A i \in 1..1 : i = 1
    OBVIOUS
  <2>3. Distinct(<<start>>)
    BY <2>1, <2>2 DEF Distinct
  <2>4. Range(<<start>>) = {<<start>>[i] : i \in {1}}
    BY <2>1 DEF Range
  <2> QED
    BY <2>1, <2>3, <2>4
<1>8. Coloured'
  <2>1. colors' \in [Names -> Breadth!Colors]
    BY DEF Breadth!Colors, FirstColours
  <2>2. \A n \in Names : colors'[n] = "" <=> n \notin DOMAIN list'
    BY <1>1 DEF FirstColours
  <2>3. \A n \in Names : colors'[n] = "noir" <=> n \in Range(visitedNodes')
    BY <1>6 DEF FirstColours
  <2>4. Range(Waiting') = {n \in Names : colors'[n] = "gris"}
    BY <1>2, <1>7 DEF FirstColours
  <2> QED
    BY <1>7, <2>1, <2>2, <2>3, <2>4 DEF Coloured
<1> QED
  BY <1>4, <1>5, <1>8

(* bfs and dfs take the end. *)
LEMMA FoundColoured ==
  ASSUME IInv, alg \in {"BFS", "DFS"}, pc = "loop", Waiting # << >>, end # Empty, end = Head(Waiting),
         Waiting' = Tail(Waiting), Breadth!ConfirmPath(end),
         UNCHANGED <<alg, visitedNodes, colors, parent>>
  PROVE  Common' /\ Coloured' /\ Search!Next
<1>1. end \in Met
  BY HeadFacts
<1>2. pc' = "build" /\ UNCHANGED <<list, start, end>>
  BY DEF Breadth!ConfirmPath, Breadth!inputs
<1>3. Met' = Met /\ Reported' = Reported
  BY <1>2, ReportedIsVisited DEF Met, Reported
<1>4. visitedNodes' \in Seq(Known)
  BY DEF IInv, Common, Typed
<1>5. Common'
  BY <1>1, <1>3, <1>4, FoundKeeps DEF IInv
<1>6. Search!Next
  BY <1>1, <1>3, FoundImplements DEF IInv, Common
<1>7. Coloured'
  BY <1>2, HeadFacts DEF IInv, Coloured
<1> QED
  BY <1>5, <1>6, <1>7

(* The other steps of bfs and dfs leave the colours and what waits alone.   *)
LEMMA PassiveColoured ==
  ASSUME IInv, alg \in {"BFS", "DFS"}, UNCHANGED <<alg, colors, parent, Waiting, visitedNodes>>,
         \/ pc = "call" /\ Breadth!Refused /\ Breadth!Return
         \/ Breadth!PrependToPath(parent)
         \/ Breadth!ShowNextInner
         \/ Breadth!LeaveAfterPath
         \/ pc = "loop" /\ Waiting = << >> /\ Breadth!Return
  PROVE  Common' /\ Coloured' /\ (Search!Next \/ UNCHANGED Search!vars)
<1>1. UNCHANGED <<list, start, end>> /\ (pc' = pc \/ pc' = "done") /\ (pc = "loop" => pc' = "done")
  BY DEF Breadth!Return, Breadth!PrependToPath, Breadth!ShowNextInner, Breadth!LeaveAfterPath,
         Breadth!inputs
<1>2. Met' = Met /\ Reported' = Reported
  BY <1>1, ReportedIsVisited DEF Met, Reported
<1>3. Breadth!Refused => Search!Refused(Call)
  BY RefusedAgrees DEF Breadth!Refused
<1>4. pc = "loop" /\ Waiting = << >> => Met \subseteq Range(Reported)
  <2>1. Range(<< >>) = {}
    BY DEF Range
  <2> QED
    BY <2>1, WaitingIsMet
<1>5. Passive
  BY <1>2, <1>3, <1>4 DEF Passive
<1>6. Common' /\ (Search!Next \/ UNCHANGED Search!vars)
  BY <1>5, PassiveKeeps, PassiveImplements DEF IInv
<1>7. Coloured'
  BY <1>1 DEF IInv, Coloured
<1> QED
  BY <1>6, <1>7

(* An iteration of bfs: the neighbours just met join the end of the queue.  *)
LEMMA BfsVisits ==
  ASSUME alg = "BFS", Breadth!Visit, UNCHANGED alg
  PROVE  \E order : VisitColours(order) /\ Queue' = Tail(Queue) \o order
<1>1. Waiting = Queue /\ Waiting' = Queue'
  BY DEF Waiting
<1>2. Breadth!White(Head(Queue)) = White(Head(Queue))
  BY DEF Breadth!White, White
<1>3. PICK order \in Breadth!Orders(White(Head(Queue))) : Queue' = Tail(Queue) \o order
  BY <1>2 DEF Breadth!Visit, Breadth!Enqueue
<1>4. VisitColours(order)
  BY <1>1, <1>2, <1>3 DEF Breadth!Visit, VisitColours, Breadth!IsEnd, Breadth!inputs
<1> QED
  BY <1>3, <1>4

(* bfs. *)
LEMMA BfsKeeps ==
  ASSUME IInv, alg = "BFS", Breadth!Step, UNCHANGED alg
  PROVE  IInv' /\ (Search!Next \/ UNCHANGED Search!vars)
<1>1. Waiting = Queue /\ Waiting' = Queue'
  BY DEF Waiting
<1>2. CASE Breadth!Begin
  <2>1. Common' /\ Coloured' /\ Search!Next
    BY <1>1, <1>2, BeginColoured DEF Breadth!Begin, Breadth!inputs, FirstColours
  <2> QED
    BY <2>1 DEF IInv, EmptyIsNoName, Settling, Heaped
<1>3. CASE Breadth!Visit
  <2>1. PICK order : VisitColours(order)
    BY <1>3, BfsVisits
  <2>2. Common' /\ Coloured' /\ Search!Next
    BY <2>1, VisitColoursKeeps
  <2> QED
    BY <2>2 DEF IInv, EmptyIsNoName, Settling, Heaped
<1>4. CASE Breadth!Found
  <2>1. Common' /\ Coloured' /\ Search!Next
    BY <1>1, <1>4, FoundColoured DEF Breadth!Found, Breadth!IsEnd
  <2> QED
    BY <2>1 DEF IInv, EmptyIsNoName, Settling, Heaped
<1>5. CASE Breadth!Refuse \/ Breadth!BuildPath \/ Breadth!ShowPath \/ Breadth!LeaveFound \/ Breadth!LeaveExhausted
  <2>1. UNCHANGED <<colors, parent, Queue, visitedNodes>>
    BY <1>5 DEF Breadth!Refuse, Breadth!BuildPath, Breadth!ShowPath, Breadth!LeaveFound,
      Breadth!LeaveExhausted, Breadth!searchVars, Breadth!Return, Breadth!PrependToPath,
      Breadth!ShowNextInner, Breadth!LeaveAfterPath
  <2>2. \/ pc = "call" /\ Breadth!Refused /\ Breadth!Return
        \/ Breadth!PrependToPath(parent)
        \/ Breadth!ShowNextInner
        \/ Breadth!LeaveAfterPath
        \/ pc = "loop" /\ Waiting = << >> /\ Breadth!Return
    BY <1>1, <1>5 DEF Breadth!Refuse, Breadth!BuildPath, Breadth!ShowPath, Breadth!LeaveFound,
      Breadth!LeaveExhausted
  <2>3. Common' /\ Coloured' /\ (Search!Next \/ UNCHANGED Search!vars)
    BY <1>1, <2>1, <2>2, PassiveColoured
  <2> QED
    BY <2>3 DEF IInv, EmptyIsNoName, Settling, Heaped
<1> QED
  BY <1>2, <1>3, <1>4, <1>5 DEF Breadth!Step

(* An iteration of dfs: the neighbours just met go on top of the stack.     *)
LEMMA DfsVisits ==
  ASSUME alg = "DFS", Depth!Visit, UNCHANGED alg
  PROVE  \E order : VisitColours(order) /\ Stack' = order \o Tail(Stack)
<1>1. Waiting = Stack /\ Waiting' = Stack'
  BY DEF Waiting
<1>2. /\ Depth!White(Head(Stack)) = White(Head(Stack))
      /\ \A S : Depth!Orders(S) = Breadth!Orders(S)
  BY DEF Depth!White, White, Depth!Orders, Depth!Bijection, Depth!Injection, Depth!Surjection,
    Depth!IsInjective, Depth!Cardinality, Breadth!Orders, Breadth!Bijection, Breadth!Injection,
    Breadth!Surjection, Breadth!IsInjective, Breadth!Cardinality
<1>3. PICK order \in Breadth!Orders(White(Head(Stack))) : Stack' = order \o Tail(Stack)
  BY <1>2 DEF Depth!Visit, Depth!PushAll
<1>4. VisitColours(order)
  BY <1>1, <1>2, <1>3
     DEF Depth!Visit, VisitColours, Depth!IsEnd, Depth!inputs, Depth!Send, Breadth!Send
<1> QED
  BY <1>3, <1>4

(* dfs. *)
LEMMA DfsKeeps ==
  ASSUME IInv, alg = "DFS", Depth!Step, UNCHANGED alg
  PROVE  IInv' /\ (Search!Next \/ UNCHANGED Search!vars)
<1> USE DEF Depth!Return, Depth!inputs, Depth!Send, Breadth!Return, Breadth!inputs, Breadth!Send
<1>1. Waiting = Stack /\ Waiting' = Stack'
  BY DEF Waiting
<1>2. CASE Depth!Begin
  <2>1. Common' /\ Coloured' /\ Search!Next
    BY <1>1, <1>2, BeginColoured DEF Depth!Begin, Depth!Refused, Breadth!Refused, FirstColours
  <2> QED
    BY <2>1 DEF IInv, EmptyIsNoName, Settling, Heaped
<1>3. CASE Depth!Visit
  <2>1. PICK order : VisitColours(order)
    BY <1>3, DfsVisits
  <2>2. Common' /\ Coloured' /\ Search!Next
    BY <2>1, VisitColoursKeeps
  <2> QED
    BY <2>2 DEF IInv, EmptyIsNoName, Settling, Heaped
<1>4. CASE Depth!Found
  <2>1. Common' /\ Coloured' /\ Search!Next
    BY <1>1, <1>4, FoundColoured DEF Depth!Found, Depth!IsEnd, Depth!ConfirmPath, Breadth!ConfirmPath
  <2> QED
    BY <2>1 DEF IInv, EmptyIsNoName, Settling, Heaped
<1>5. CASE Depth!Refuse \/ Depth!BuildPath \/ Depth!ShowPath \/ Depth!LeaveFound \/ Depth!LeaveExhausted
  <2>1. UNCHANGED <<colors, parent, Stack, visitedNodes>>
    BY <1>5 DEF Depth!Refuse, Depth!BuildPath, Depth!ShowPath, Depth!LeaveFound,
      Depth!LeaveExhausted, Depth!searchVars, Depth!PrependToPath,
      Depth!ShowNextInner, Depth!LeaveAfterPath
  <2>2. \/ pc = "call" /\ Breadth!Refused /\ Breadth!Return
        \/ Breadth!PrependToPath(parent)
        \/ Breadth!ShowNextInner
        \/ Breadth!LeaveAfterPath
        \/ pc = "loop" /\ Waiting = << >> /\ Breadth!Return
    BY <1>1, <1>5 DEF Depth!Refuse, Depth!BuildPath, Depth!ShowPath, Depth!LeaveFound,
      Depth!LeaveExhausted, Depth!Refused, Breadth!Refused, Depth!PrependToPath, Breadth!PrependToPath,
      Depth!ShowNextInner, Breadth!ShowNextInner, Depth!LeaveAfterPath, Breadth!LeaveAfterPath
  <2>3. Common' /\ Coloured' /\ (Search!Next \/ UNCHANGED Search!vars)
    BY <1>1, <2>1, <2>2, PassiveColoured
  <2> QED
    BY <2>3 DEF IInv, EmptyIsNoName, Settling, Heaped
<1> QED
  BY <1>2, <1>3, <1>4, <1>5 DEF Depth!Step

-----------------------------------------------------------------------------
(* dijkstra. *)

(* A sequence without repetition is no longer than a set it is drawn from.  *)
LEMMA DistinctIsShort ==
  ASSUME NEW T, NEW s \in Seq(T), NEW W, IsFiniteSet(W), Range(s) \subseteq W,
         \A i, j \in 1..Len(s) : s[i] = s[j] => i = j
  PROVE  Len(s) <= Cardinality(W)
<1>1. Len(s) \in Nat /\ s \in [1..Len(s) -> W]
  BY DEF Range
<1>2. s \in Injection(1..Len(s), W)
  BY <1>1 DEF Injection, IsInjective
<1>3. Cardinality(1..Len(s)) <= Cardinality(W)
  BY <1>2, FS_Injection
<1>4. Cardinality(1..Len(s)) = Len(s)
  BY <1>1, FS_Interval
<1> QED
  BY <1>3, <1>4

(* Until the end is taken, all that was visited is reported. *)
LEMMA DijkstraReports ==
  ASSUME IInv, alg = "DIJKSTRA", pc \in {"call", "loop"}
  PROVE  Reported = visitedNodes
<1>1. visitedNodes \in Seq(Known)
  BY DEF IInv, Common, Typed
<1>2. CASE pc = "call"
  BY <1>2 DEF IInv, Common, Fresh, Reported, Nearest!Reported
<1>3. CASE pc = "loop"
  <2>1. end \notin Range(visitedNodes)
    BY <1>3 DEF IInv, Settling
  <2>2. visitedNodes # << >> => visitedNodes[Len(visitedNodes)] \in Range(visitedNodes)
    BY <1>1 DEF Range
  <2> QED
    BY <2>1, <2>2 DEF Reported, Nearest!Reported
<1> QED
  BY <1>2, <1>3

(* The node that getMinDistanceNode returns was met and not taken; one more *)
(* than its distance is no overflow.                                        *)
LEMMA MinIsMet ==
  ASSUME IInv, alg = "DIJKSTRA", pc = "loop", NEW n \in Nearest!getMinDistanceNode \ {Empty}
  PROVE  /\ n \in Met \ Range(Reported) /\ n \in Names /\ n \in DOMAIN list
         /\ Len(visitedNodes) + 1 < Nearest!INT_MAX
         /\ distances[n] + 1 <= Len(visitedNodes) + 1
<1>1. DOMAIN list \subseteq Names /\ IsFiniteSet(DOMAIN list) /\ list \in Lists /\ visitedNodes \in Seq(Names)
  BY InputFacts DEF IInv, Common, Typed, Known
<1>2. Reported = visitedNodes
  BY DijkstraReports
<1>3. n \in DOMAIN list /\ ~visited[n] /\ distances[n] < Nearest!INT_MAX
  BY DEF Nearest!getMinDistanceNode
<1>4. n \in Met
  BY <1>3 DEF Met
<1>5. n \notin Range(Reported)
  BY <1>1, <1>2, <1>3 DEF IInv, Settling
<1>6. distances[n] <= Len(visitedNodes) /\ distances[n] \in 0..Nearest!INT_MAX
  BY <1>1, <1>3, <1>4 DEF IInv, Settling
<1>7. Len(visitedNodes) + 1 < Nearest!INT_MAX
  <2> DEFINE v == Append(visitedNodes, n)
  <2>1. v \in Seq(Names) /\ Range(v) = Range(visitedNodes) \cup {n} /\ Len(v) = Len(visitedNodes) + 1
    BY <1>1, <1>3, RangeOfAppend
  <2>2. Range(v) \subseteq DOMAIN list
    BY <1>2, <1>3, <2>1 DEF IInv, Common, Grown, Searching, Met
  <2>3. \A i, j \in 1..Len(visitedNodes) : visitedNodes[i] = visitedNodes[j] => i = j
    BY <1>2 DEF IInv, Common, Grown, Searching
  <2>4. \A i \in 1..Len(visitedNodes) : v[i] = visitedNodes[i] /\ visitedNodes[i] \in Range(visitedNodes)
    BY <1>1 DEF Range
  <2>5. v[Len(visitedNodes) + 1] = n /\ Len(visitedNodes) \in Nat
    BY <1>1
  <2> HIDE DEF v
  <2>6. \A i, j \in 1..Len(v) : v[i] = v[j] => i = j
    BY <1>2, <1>5, <2>1, <2>3, <2>4, <2>5
  <2>7. Len(v) <= Cardinality(DOMAIN list)
    BY <1>1, <2>1, <2>2, <2>6, DistinctIsShort
  <2>8. Nearest!Cardinality(DOMAIN list) < Nearest!INT_MAX
    BY <1>1, SizeAssumption DEF Nearest!Cardinality, Cardinality
  <2>9. Cardinality(DOMAIN list) < Nearest!INT_MAX /\ Cardinality(DOMAIN list) \in Nat
    BY <1>1, SizeAssumption, FS_CardinalityType
  <2> QED
    BY <2>1, <2>5, <2>7, <2>9, Limits
<1> QED
  BY <1>1, <1>2, <1>3, <1>4, <1>5, <1>6, <1>7, Limits

(* A node is taken that is not the end. *)
LEMMA DijkstraTakes ==
  ASSUME IInv, alg = "DIJKSTRA", pc = "loop", NEW n \in Nearest!getMinDistanceNode \ {Empty}, n # end,
         visited' = [visited EXCEPT ![n] = TRUE],
         visitedNodes' = Append(visitedNodes, n),
         distances' = [m \in Names |-> IF m \in Nearest!Nearer(n) THEN distances[n] + 1 ELSE distances[m]],
         parent' = [m \in Names |-> IF m \in Nearest!Nearer(n) THEN n ELSE parent[m]],
         Breadth!Send("visitedNodes", Append(visitedNodes, n)),
         UNCHANGED <<alg, pc, tmp, path, subPath, open, list, start, end>>
  PROVE  Common' /\ Settling' /\ Search!Next
<1> DEFINE near == Nearest!Nearer(n)
<1>1. /\ n \in Met \ Range(Reported) /\ n \in Names /\ n \in DOMAIN list
      /\ Len(visitedNodes) + 1 < Nearest!INT_MAX
      /\ distances[n] + 1 <= Len(visitedNodes) + 1
  BY MinIsMet
<1>2. /\ DOMAIN list \subseteq Names /\ list \in [DOMAIN list -> SUBSET Names]
      /\ visitedNodes \in Seq(Names) /\ Len(visitedNodes) \in Nat
      /\ parent \in [Names -> Names \cup {Empty}]
      /\ Known = Names
  <2>1. Known = Names
    BY DEF Known
  <2> QED
    BY <2>1, InputFacts DEF IInv, Common, Typed
<1>3. /\ distances \in [Names -> 0..Nearest!INT_MAX]
      /\ visited \in [Names -> BOOLEAN]
      /\ distances[start] = 0
      /\ \A m \in Names \ DOMAIN list : distances[m] = 0
      /\ \A m \in Names : visited[m] <=> m \in Range(visitedNodes)
      /\ \A m \in Met : distances[m] <= Len(visitedNodes)
      /\ end \notin Range(visitedNodes)
  BY DEF IInv, Settling
<1>4. /\ Reported = visitedNodes
      /\ Range(Append(visitedNodes, n)) = Range(visitedNodes) \cup {n}
      /\ Append(visitedNodes, n) \in Seq(Names)
      /\ Len(Append(visitedNodes, n)) = Len(visitedNodes) + 1
      /\ Append(visitedNodes, n)[Len(visitedNodes) + 1] = n
  BY <1>1, <1>2, DijkstraReports, RangeOfAppend
<1>5. Reported' = Append(Reported, n)
  <2>1. Reported' = IF visitedNodes' # << >> /\ visitedNodes'[Len(visitedNodes')] = end'
                    THEN SubSeq(visitedNodes', 1, Len(visitedNodes') - 1) ELSE visitedNodes'
    BY DEF Reported, Nearest!Reported
  <2> QED
    BY <1>4, <2>1
<1>6. Met = {m \in DOMAIN list : distances[m] < Nearest!INT_MAX}
      /\ Met' = {m \in DOMAIN list : distances'[m] < Nearest!INT_MAX}
  BY DEF Met
<1>7. /\ distances[n] \in Nat /\ distances[n] + 1 < Nearest!INT_MAX
  BY <1>1, <1>3, Limits
<1>8. near = {m \in list[n] \ {n} : ~visited[m] /\ distances[n] + 1 < distances[m]}
  BY DEF Nearest!Nearer
<1>9. list[n] \subseteq Names
  BY <1>1, <1>2
<1> HIDE DEF near
<1>10. /\ near \subseteq Succ(n) /\ start \notin near /\ n \notin near
       /\ near \cap Range(Reported) = {}
       /\ Succ(n) \subseteq Met \cup near
  <2>1. near \subseteq Succ(n)
    BY <1>3, <1>7, <1>8, <1>9 DEF Succ
  <2>2. start \notin near
    BY <1>3, <1>7, <1>8
  <2>3. near \cap Range(Reported) = {}
    BY <1>3, <1>4, <1>8, <1>9
  <2>4. ASSUME NEW m \in Succ(n), m \notin near PROVE m \in Met
    <3>1. m \in list[n] /\ m \in DOMAIN list /\ m \in Names
      BY <1>2, <2>4 DEF Succ
    <3>2. m = n \/ visited[m] \/ ~(distances[n] + 1 < distances[m])
      BY <1>8, <2>4, <3>1
    <3>3. CASE visited[m]
      BY <1>3, <1>4, <3>1, <3>3 DEF IInv, Common, Grown, Searching
    <3>4. CASE ~(distances[n] + 1 < distances[m])
      BY <1>3, <1>6, <1>7, <3>1, <3>4, Limits
    <3> QED
      BY <1>1, <3>2, <3>3, <3>4
  <2> QED
    BY <1>8, <2>1, <2>2, <2>3, <2>4
<1>11. /\ distances' = [m \in Names |-> IF m \in near THEN distances[n] + 1 ELSE distances[m]]
       /\ \A m \in Names : m \in near => distances'[m] = distances[n] + 1 /\ parent'[m] = n
       /\ \A m \in Names : m \notin near => distances'[m] = distances[m] /\ parent'[m] = parent[m]
  BY DEF near
<1>12. Met' = Met \cup Succ(n) /\ Met' = Met \cup near /\ Met \subseteq Names
  <2>1. \A m \in DOMAIN list : distances'[m] < Nearest!INT_MAX <=> m \in near \/ distances[m] < Nearest!INT_MAX
    BY <1>2, <1>7, <1>11
  <2>2. Met' = Met \cup near
    <3>1. near \subseteq DOMAIN list
      BY <1>10 DEF Succ
    <3> QED
      BY <1>6, <2>1, <3>1
  <2>3. Met \subseteq Names
    BY <1>2, <1>6
  <2> QED
    BY <1>10, <2>2, <2>3
<1>13. /\ \A m \in Range(Reported) \cup {start, n} : parent'[m] = parent[m]
       /\ \A m \in Met' \ (Range(Reported) \cup {start, n}) :
            \/ m \in Met /\ parent'[m] = parent[m]
            \/ m \in Succ(n) /\ parent'[m] = n
  <2>1. Range(Reported) \cup {start, n} \subseteq Names
    BY <1>1, <1>12 DEF IInv, Common, Grown, Searching
  <2>2. Range(Reported) \cup {start, n} \subseteq Names \ near
    BY <1>10, <2>1
  <2>3. Met' \subseteq Names
    BY <1>10, <1>12, <1>9 DEF Succ
  <2>4. ASSUME NEW m \in Met' PROVE (m \in Met /\ parent'[m] = parent[m]) \/ (m \in Succ(n) /\ parent'[m] = n)
    BY <1>10, <1>11, <1>12, <2>3, <2>4
  <2> QED
    BY <1>11, <2>2, <2>4
<1>14. Grown'
  BY <1>1, <1>5, <1>12, <1>13, TakeGrows DEF IInv, Common
<1>15. parent' \in [Known -> Known \cup {Empty}]
  BY <1>1, <1>2
<1>16. Common'
  BY <1>1, <1>2, <1>14, <1>15, TakeKeeps DEF IInv
<1>17. Search!Next
  BY <1>1, <1>4, <1>5, TakeImplements DEF IInv, Common
<1>18. Settling'
  <2>1. distances' \in [Names -> 0..Nearest!INT_MAX]
    <3>1. distances[n] + 1 \in 0..Nearest!INT_MAX
      BY <1>7, Limits
    <3> QED
      BY <1>3, <1>11, <3>1
  <2>2. visited' \in [Names -> BOOLEAN] /\ \A m \in Names : visited'[m] <=> m \in Range(visitedNodes')
    BY <1>3, <1>4
  <2>3. start \in Names /\ distances'[start] = 0
    BY <1>3, <1>10, <1>11, <1>12 DEF IInv, Common, Grown, Searching
  <2>4. \A m \in Names \ DOMAIN list : distances'[m] = 0
    BY <1>3, <1>10, <1>11 DEF Succ
  <2>5. ASSUME NEW m \in Met' PROVE distances'[m] <= Len(visitedNodes')
    <3>1. m \in Names /\ Len(visitedNodes') = Len(visitedNodes) + 1
      BY <1>4, <1>9, <1>10, <1>12 DEF Succ
    <3>2. CASE m \in near
      BY <1>1, <1>11, <3>1, <3>2
    <3>3. CASE m \notin near
      <4>1. m \in Met /\ distances[m] <= Len(visitedNodes) /\ distances[m] \in 0..Nearest!INT_MAX
        BY <1>3, <1>12, <3>1, <3>3
      <4> QED
        BY <1>2, <1>11, <3>1, <3>3, <4>1, Limits
    <3> QED
      BY <3>2, <3>3
  <2>6. end \notin Range(visitedNodes')
    BY <1>3, <1>4
  <2>7. \A m \in Met' \ {start} : distances'[m] = distances'[parent'[m]] + 1
    <3> SUFFICES ASSUME NEW m \in Met' \ {start} PROVE distances'[m] = distances'[parent'[m]] + 1
      OBVIOUS
    <3>1. CASE m \in near
      BY <1>1, <1>9, <1>10, <1>11, <3>1 DEF Succ
    <3>2. CASE m \notin near
      <4>1. m \in Met \ {start} /\ parent[m] \in Range(Reported) /\ parent[m] \in Names
        BY <1>12, <3>2 DEF IInv, Common, Grown, Searching
      <4>2. distances'[m] = distances[m] /\ parent'[m] = parent[m] /\ distances'[parent[m]] = distances[parent[m]]
        BY <1>10, <1>11, <1>12, <3>2, <4>1
      <4>3. distances[m] = distances[parent[m]] + 1
        BY <4>1 DEF IInv, Settling
      <4> QED
        BY <4>2, <4>3
    <3> QED
      BY <3>1, <3>2
  <2> QED
    BY <2>1, <2>2, <2>3, <2>4, <2>5, <2>6, <2>7 DEF Settling
<1> QED
  BY <1>16, <1>17, <1>18

(* dijkstra passes its guards. *)
LEMMA DijkstraBegins ==
  ASSUME IInv, alg = "DIJKSTRA", Nearest!Begin, UNCHANGED alg
  PROVE  Common' /\ Settling' /\ Search!Next
<1>1. /\ pc = "call" /\ pc' = "loop" /\ start # Empty /\ start \in DOMAIN list
      /\ distances' = [m \in Names |-> IF m \in DOMAIN list \ {start} THEN Nearest!INT_MAX ELSE 0]
      /\ UNCHANGED <<alg, parent, visited, visitedNodes, tmp, path, subPath, open, sent, list, start, end>>
  BY DEF Nearest!Begin, Nearest!Refused, Nearest!inputs
<1>2. DOMAIN list \subseteq Names /\ start \in Names
  BY <1>1, InputFacts DEF IInv, Common, Known
<1>3. Met' = {start}
  <2>1. Met' = {m \in DOMAIN list : distances'[m] < Nearest!INT_MAX}
    BY <1>1 DEF Met
  <2>2. 0 < Nearest!INT_MAX
    BY DEF Nearest!INT_MAX
  <2> QED
    BY <1>1, <1>2, <2>1, <2>2, Limits
<1>4. Common' /\ Reported' = Reported
  BY ONLY <1>1, <1>3, IInv, BeginKeeps DEF IInv
<1>5. ~Search!Refused(Call)
  BY <1>1, RefusedAgrees
<1>6. Typed
  BY DEF IInv, Common
<1>7. Search!Next
  <2>1. Typed /\ pc = "call" /\ pc' = "loop" /\ ~Search!Refused(Call)
        /\ alg' = alg /\ Reported' = Reported
        /\ UNCHANGED <<tmp, path, subPath, open, sent, list, start, end>>
    BY <1>1, <1>4, <1>5, <1>6
  <2> QED
    BY ONLY <2>1, BeginImplements
<1>8. Settling'
  <2>1. distances' \in [Names -> 0..Nearest!INT_MAX]
    BY <1>1, Limits
  <2>2. visitedNodes' = << >> /\ Range(<< >>) = {} /\ Len(<< >>) = 0
    BY <1>1 DEF IInv, Common, Fresh, Range
  <2>3. visited \in [Names -> BOOLEAN] /\ \A m \in Names : ~visited[m]
    BY <1>1 DEF IInv, Settling
  <2>4. \A m \in Names \ DOMAIN list : distances'[m] = 0
    BY <1>1
  <2>5. distances'[start] = 0
    BY <1>1, <1>2
  <2> QED
    BY <1>1, <1>3, <2>1, <2>2, <2>3, <2>4, <2>5 DEF Settling
<1> QED
  BY <1>4, <1>7, <1>8

(* dijkstra takes the end, which joins what was visited but is not reported. *)
LEMMA DijkstraFinds ==
  ASSUME IInv, alg = "DIJKSTRA", Nearest!Found, UNCHANGED alg
  PROVE  Common' /\ Settling' /\ Search!Next
<1>1. /\ pc = "loop" /\ end \in Nearest!getMinDistanceNode \ {Empty}
      /\ visited' = [visited EXCEPT ![end] = TRUE]
      /\ visitedNodes' = Append(visitedNodes, end)
      /\ Breadth!ConfirmPath(end)
      /\ UNCHANGED <<distances, parent>>
  BY DEF Nearest!Found, Nearest!IsEnd, Nearest!ConfirmPath, Breadth!ConfirmPath, Nearest!Send,
    Breadth!Send, Nearest!inputs, Breadth!inputs
<1>2. pc' = "build" /\ UNCHANGED <<list, start, end>>
  BY <1>1 DEF Breadth!ConfirmPath, Breadth!inputs
<1>3. end \in Met /\ end \in Names
  BY <1>1, MinIsMet
<1>4. Known = Names /\ visitedNodes \in Seq(Names) /\ Reported = visitedNodes
  BY <1>1, DijkstraReports DEF Known, IInv, Common, Typed
<1>5. /\ visitedNodes' \in Seq(Names) /\ visitedNodes' # << >>
      /\ Len(visitedNodes') = Len(visitedNodes) + 1
      /\ visitedNodes'[Len(visitedNodes) + 1] = end
      /\ SubSeq(visitedNodes', 1, Len(visitedNodes)) = visitedNodes
      /\ Len(visitedNodes) \in Nat
  <2>1. SubSeq(visitedNodes \o <<end>>, 1, Len(visitedNodes)) = visitedNodes /\ <<end>> \in Seq(Names)
    BY <1>3, <1>4, PrefixStays
  <2>2. visitedNodes' = visitedNodes \o <<end>>
    BY <1>1, <1>3, <1>4
  <2> QED
    BY <1>1, <1>3, <1>4, <2>1, <2>2
<1>6. Reported' = Reported
  <2>1. Reported' = IF visitedNodes' # << >> /\ visitedNodes'[Len(visitedNodes')] = end'
                    THEN SubSeq(visitedNodes', 1, Len(visitedNodes') - 1) ELSE visitedNodes'
    BY DEF Reported, Nearest!Reported
  <2> QED
    BY <1>2, <1>4, <1>5, <2>1
<1>7. Met' = Met
  BY <1>1, <1>2 DEF Met
<1>8. Common'
  BY <1>1, <1>3, <1>4, <1>5, <1>6, <1>7, FoundKeeps DEF IInv
<1>9. Search!Next
  BY <1>1, <1>3, <1>6, FoundImplements DEF IInv, Common
<1>10. Settling'
  BY <1>1, <1>2 DEF IInv, Settling
<1> QED
  BY <1>8, <1>9, <1>10

(* The other steps of dijkstra leave its arrays alone. *)
LEMMA DijkstraPasses ==
  ASSUME IInv, alg = "DIJKSTRA", UNCHANGED alg,
         Nearest!Refuse \/ Nearest!BuildPath \/ Nearest!ShowPath \/ Nearest!LeaveFound \/ Nearest!LeaveExhausted
  PROVE  Common' /\ Settling' /\ (Search!Next \/ UNCHANGED Search!vars)
<1> USE DEF Nearest!Return, Nearest!inputs, Nearest!Send, Breadth!Return, Breadth!inputs, Breadth!Send
<1>1. UNCHANGED <<distances, visited, parent, visitedNodes, list, start, end>>
  BY DEF Nearest!Refuse, Nearest!BuildPath, Nearest!ShowPath, Nearest!LeaveFound,
    Nearest!LeaveExhausted, Nearest!searchVars, Nearest!PrependToPath, Nearest!ShowNextInner,
    Nearest!LeaveAfterPath
<1>2. Met' = Met /\ Reported' = Reported
  BY <1>1 DEF Met, Reported, Nearest!Reported
<1>3. \/ pc = "call" /\ Breadth!Refused /\ Breadth!Return
      \/ Breadth!PrependToPath(parent)
      \/ Breadth!ShowNextInner
      \/ Breadth!LeaveAfterPath
      \/ pc = "loop" /\ Empty \in Nearest!getMinDistanceNode /\ Breadth!Return
  BY DEF Nearest!Refuse, Nearest!BuildPath, Nearest!ShowPath, Nearest!LeaveFound,
    Nearest!LeaveExhausted, Nearest!Refused, Breadth!Refused, Nearest!PrependToPath, Breadth!PrependToPath,
    Nearest!ShowNextInner, Breadth!ShowNextInner, Nearest!LeaveAfterPath, Breadth!LeaveAfterPath
<1>4. (pc' = pc \/ pc' = "done") /\ (pc = "loop" => pc' = "done")
  BY <1>3 DEF Breadth!PrependToPath, Breadth!ShowNextInner, Breadth!LeaveAfterPath
<1>5. Breadth!Refused => Search!Refused(Call)
  BY RefusedAgrees DEF Breadth!Refused
<1>6. pc = "loop" /\ Empty \in Nearest!getMinDistanceNode => Met \subseteq Range(Reported)
  <2> SUFFICES ASSUME pc = "loop", Empty \in Nearest!getMinDistanceNode, NEW m \in Met
               PROVE  m \in Range(Reported)
    OBVIOUS
  <2>1. DOMAIN list \subseteq Names /\ Empty \notin DOMAIN list
    BY InputFacts DEF IInv, Common, Known, EmptyIsNoName
  <2>2. {x \in DOMAIN list : ~visited[x] /\ distances[x] < Nearest!INT_MAX} = {}
    BY <2>1 DEF Nearest!getMinDistanceNode
  <2>3. m \in DOMAIN list /\ m \in Names /\ visited[m]
    BY <2>1, <2>2 DEF Met
  <2> QED
    BY <2>3, DijkstraReports DEF IInv, Settling
<1>7. Passive
  BY <1>1, <1>2, <1>3, <1>5, <1>6 DEF Passive
<1>8. Common' /\ (Search!Next \/ UNCHANGED Search!vars)
  BY <1>7, PassiveKeeps, PassiveImplements DEF IInv
<1>9. Settling'
  BY <1>1, <1>4 DEF IInv, Settling
<1> QED
  BY <1>8, <1>9

(* dijkstra. *)
LEMMA DijkstraKeeps ==
  ASSUME IInv, alg = "DIJKSTRA", Nearest!Step, UNCHANGED alg
  PROVE  IInv' /\ (Search!Next \/ UNCHANGED Search!vars)
<1>1. Common' /\ Settling' /\ (Search!Next \/ UNCHANGED Search!vars)
  <2>1. CASE Nearest!Visit
    <3>1. PICK n \in Nearest!getMinDistanceNode \ {Empty} :
            /\ n # end
            /\ visited' = [visited EXCEPT ![n] = TRUE]
            /\ visitedNodes' = Append(visitedNodes, n)
            /\ distances' = [m \in Names |-> IF m \in Nearest!Nearer(n) THEN distances[n] + 1 ELSE distances[m]]
            /\ parent' = [m \in Names |-> IF m \in Nearest!Nearer(n) THEN n ELSE parent[m]]
            /\ Breadth!Send("visitedNodes", Append(visitedNodes, n))
      BY <2>1 DEF Nearest!Visit, Nearest!IsEnd, Nearest!Send, Breadth!Send
    <3>2. pc = "loop" /\ UNCHANGED <<alg, pc, tmp, path, subPath, open, list, start, end>>
      BY <2>1 DEF Nearest!Visit, Nearest!inputs
    <3> QED
      BY <3>1, <3>2, DijkstraTakes
  <2> QED
    BY <2>1, DijkstraBegins, DijkstraFinds, DijkstraPasses DEF Nearest!Step
<1> QED
  BY <1>1 DEF IInv, EmptyIsNoName, Coloured, Heaped

-----------------------------------------------------------------------------
(* a_star. *)

(* The square of a distance between two points. *)
LEMMA HeuristicIsNatural ==
  ASSUME NEW n \in DOMAIN Numbers, NEW goal \in DOMAIN Numbers,
         ~Best!Throws(n, goal), ~Best!Overruns(n, goal)
  PROVE  Best!heuristic(n, goal) \in 0..Best!Infinity
<1>1. \A x \in Int : x * x \in Nat
  OBVIOUS
<1>2. Numbers[n] \in Seq(Int) /\ Numbers[goal] \in Seq(Int)
  BY InputAssumption DEF Best!Throws
<1> DEFINE u == Numbers[n] \o Numbers[goal]
<1>3. u \in Seq(Int) /\ Len(u) >= 4
  BY <1>2 DEF Best!Overruns
<1> HIDE DEF u
<1>4. u[1] - u[3] \in Int /\ u[2] - u[4] \in Int
  BY <1>3
<1>5. (u[1] - u[3]) * (u[1] - u[3]) \in Nat /\ (u[2] - u[4]) * (u[2] - u[4]) \in Nat
  BY <1>1, <1>4
<1>6. Best!heuristic(n, goal) = (u[1] - u[3]) * (u[1] - u[3]) + (u[2] - u[4]) * (u[2] - u[4])
  BY DEF Best!heuristic, u
<1>7. Best!heuristic(n, goal) < Best!Infinity
  BY SizeAssumption
<1> DEFINE x == (u[1] - u[3]) * (u[1] - u[3])
           y == (u[2] - u[4]) * (u[2] - u[4])
<1>8. x \in Nat /\ y \in Nat /\ Best!heuristic(n, goal) = x + y
  BY <1>5, <1>6
<1> HIDE DEF x, y
<1> QED
  BY <1>7, <1>8, Limits

(* A call that goes on has taken the heuristic of each node without harm.   *)
LEMMA OutcomeFacts ==
  ASSUME NEW S, NEW o \in Best!Outcomes(S)
  PROVE  /\ o \in {"loop", "raised", "undefined"}
         /\ o = "loop" => \A n \in S : ~Best!Throws(n, end) /\ ~Best!Overruns(n, end)
         /\ o # "loop" => \E n \in S : Best!Throws(n, end) \/ Best!Overruns(n, end)
<1> DEFINE throwing == {n \in S : Best!Throws(n, end)}
           overrun == {n \in S : Best!Overruns(n, end)}
<1>1. o \in (IF throwing # {} THEN {"raised"} ELSE {})
              \cup (IF overrun # {} THEN {"undefined"} ELSE {})
              \cup (IF throwing \cup overrun = {} THEN {"loop"} ELSE {})
  BY DEF Best!Outcomes
<1>2. \/ o = "raised" /\ throwing # {}
      \/ o = "undefined" /\ overrun # {}
      \/ o = "loop" /\ throwing = {} /\ overrun = {}
  BY ONLY <1>1
<1> QED
  BY <1>2

(* What is known of a call of a_star. *)
LEMMA StarFacts ==
  ASSUME IInv, alg = "A_STAR"
  PROVE  /\ Known = DOMAIN Numbers
         /\ DOMAIN list \subseteq Known /\ list \in [DOMAIN list -> SUBSET Known]
         /\ parent \in [Known -> Known \cup {Empty}]
         /\ visitedNodes \in Seq(Known)
         /\ Reported = visitedNodes
         /\ Met = {n \in DOMAIN list : g_score[n] < Best!Infinity}
         /\ Empty \notin Known
<1>1. Known = DOMAIN Numbers /\ Reported = visitedNodes
  BY DEF Known, Reported
<1>2. Met = {n \in DOMAIN list : g_score[n] < Best!Infinity}
  BY DEF Met
<1> QED
  BY <1>1, <1>2, InputFacts DEF IInv, Common, Typed, EmptyIsNoName

(* a_star passes its guards. *)
LEMMA StarBegins ==
  ASSUME IInv, alg = "A_STAR", Best!Begin, UNCHANGED alg
  PROVE  Common' /\ Heaped' /\ Search!Next
<1>1. /\ pc = "call" /\ start # Empty /\ start \in DOMAIN list /\ end \in DOMAIN list
      /\ pc' \in Best!Outcomes({start})
      /\ g_score' = [n \in DOMAIN Numbers |-> IF n \in DOMAIN list \ {start} THEN Best!Infinity ELSE 0]
      /\ f_score' = [n \in DOMAIN Numbers |-> IF n = start /\ pc' = "loop" THEN Best!heuristic(start, end)
                                 ELSE IF n \in DOMAIN list THEN Best!Infinity ELSE 0]
      /\ open_set' = [open_set EXCEPT ![start] = 1]
      /\ open_set_lookup' = {start}
      /\ UNCHANGED <<alg, parent, current, visitedNodes, tmp, path, subPath, open, sent, list, start, end>>
  BY DEF Best!Begin, Best!Refused, Best!inputs
<1>2. pc' \in {"loop", "raised", "undefined"}
  BY <1>1, OutcomeFacts
<1>3. start \in Known /\ end \in Known /\ Known = DOMAIN Numbers /\ Known' = Known /\ DOMAIN list \subseteq Known
  BY <1>1, StarFacts DEF Known
<1>4. Met' = {start}
  <2>1. Met' = {n \in DOMAIN list : g_score'[n] < Best!Infinity}
    BY <1>1 DEF Met
  <2>2. 0 < Best!Infinity
    BY DEF Best!Infinity
  <2> QED
    BY <1>1, <1>3, <2>1, <2>2, Limits
<1>5. Common' /\ Reported' = Reported
  BY ONLY <1>1, <1>2, <1>4, IInv, BeginKeeps DEF IInv
<1>6. ~Search!Refused(Call)
  BY <1>1, RefusedAgrees
<1>7. Typed /\ alg = "A_STAR"
  BY DEF IInv, Common
<1>8. Search!Next
  <2>1. Typed /\ pc = "call" /\ ~Search!Refused(Call)
        /\ alg' = alg /\ Reported' = Reported
        /\ UNCHANGED <<tmp, path, subPath, open, sent, list, start, end>>
    BY <1>1, <1>5, <1>6, <1>7
  <2>2. CASE pc' = "loop"
    BY ONLY <2>1, <2>2, BeginImplements
  <2>3. CASE pc' \in {"raised", "undefined"}
    BY ONLY <2>1, <2>3, <1>7, BeginImplements
  <2> QED
    BY <1>2, <2>2, <2>3
<1>9. Heaped'
  <2>1. g_score' \in [Known -> {0, Best!Infinity}] /\ g_score'[start] = 0
        /\ \A n \in Known \ DOMAIN list : g_score'[n] = 0
    BY <1>1, <1>3
  <2>2. f_score' \in [Known -> 0..Best!Infinity]
    <3>1. pc' = "loop" => Best!heuristic(start, end) \in 0..Best!Infinity
      BY <1>1, <1>3, OutcomeFacts, HeuristicIsNatural
    <3>2. 0 \in 0..Best!Infinity /\ Best!Infinity \in 0..Best!Infinity
      BY Limits
    <3> QED
      BY <1>1, <1>3, <3>1, <3>2
  <2>3. open_set' = [n \in Known |-> IF n \in open_set_lookup' THEN 1 ELSE 0]
    <3>1. open_set = [n \in Known |-> 0]
      BY <1>1 DEF IInv, Heaped
    <3> QED
      BY <1>1, <1>3, <3>1
  <2>4. visitedNodes' = << >> /\ Range(<< >>) = {}
    BY <1>1 DEF IInv, Common, Fresh, Range
  <2>5. current' \in Known \cup {Empty}
    BY <1>1 DEF IInv, Heaped
  <2> QED
    BY <1>1, <1>2, <1>3, <1>4, <2>1, <2>2, <2>3, <2>4, <2>5 DEF Heaped
<1> QED
  BY <1>5, <1>8, <1>9

(* What is on top of the heap was met and not taken. *)
LEMMA TopIsMet ==
  ASSUME IInv, alg = "A_STAR", pc = "loop", NEW n \in Best!Tops
  PROVE  n \in Known /\ n \in open_set_lookup /\ n \in Met \ Range(Reported)
<1>1. n \in Known /\ open_set[n] > 0
  BY StarFacts DEF Best!Tops
<1>2. n \in open_set_lookup
  BY <1>1 DEF IInv, Heaped
<1> QED
  BY <1>1, <1>2, StarFacts DEF IInv, Heaped

(* a_star takes a node that is not the goal. *)
LEMMA StarTakes ==
  ASSUME IInv, alg = "A_STAR", Best!Visit, UNCHANGED alg
  PROVE  Common' /\ Heaped' /\ Search!Next
<1>1. PICK n \in Best!Tops \ {end} :
        /\ open_set' = [open_set EXCEPT ![n] = @ - 1]
        /\ open_set_lookup' = open_set_lookup \ {n}
        /\ current' = n
        /\ visitedNodes' = Append(visitedNodes, n)
        /\ Breadth!Send("visitedNodes", Append(visitedNodes, n))
  BY DEF Best!Visit, Best!Pop, Best!Send, Breadth!Send
<1>2. /\ pc = "loop" /\ pc' = "relax"
      /\ UNCHANGED <<alg, parent, g_score, f_score, tmp, path, subPath, open, list, start, end>>
  BY DEF Best!Visit, Best!inputs
<1>3. n \in Known /\ n \in open_set_lookup /\ n \in Met \ Range(Reported) /\ n # end
  BY <1>1, <1>2, TopIsMet
<1>4. /\ visitedNodes \in Seq(Known) /\ Reported = visitedNodes /\ Known' = Known
      /\ parent \in [Known -> Known \cup {Empty}]
  BY StarFacts DEF Known
<1>5. Reported' = Append(Reported, n)
  BY <1>1, <1>4 DEF Reported
<1>6. Met' = Met
  BY <1>2 DEF Met
<1>7. Grown'
  BY <1>1, <1>2, <1>3, <1>5, <1>6, TakeGrows DEF IInv, Common
<1>8. parent' \in [Known -> Known \cup {Empty}]
  BY <1>2, <1>4
<1>9. Common'
  BY <1>1, <1>2, <1>3, <1>7, <1>8, TakeKeeps DEF IInv
<1>10. Search!Next
  BY <1>1, <1>2, <1>3, <1>4, <1>5, TakeImplements DEF IInv, Common
<1>11. Heaped'
  <2>1. /\ g_score \in [Known -> {0, Best!Infinity}] /\ f_score \in [Known -> 0..Best!Infinity]
        /\ open_set_lookup \subseteq Known
        /\ open_set = [m \in Known |-> IF m \in open_set_lookup THEN 1 ELSE 0]
        /\ end \in DOMAIN list
        /\ g_score[start] = 0
        /\ \A m \in Known \ DOMAIN list : g_score[m] = 0
        /\ open_set_lookup = Met \ Range(visitedNodes)
    BY <1>2 DEF IInv, Heaped, Searching
  <2>2. Range(visitedNodes') = Range(visitedNodes) \cup {n}
    BY <1>1, <1>3, <1>4, RangeOfAppend
  <2>3. open_set' = [m \in Known |-> IF m \in open_set_lookup' THEN 1 ELSE 0]
    <3>1. open_set[n] - 1 = 0
      BY <1>3, <2>1
    <3>2. open_set' = [open_set EXCEPT ![n] = 0]
      BY <1>1, <3>1
    <3> QED
      BY <1>1, <1>3, <2>1, <3>2
  <2> QED
    BY <1>1, <1>2, <1>3, <1>4, <1>6, <2>1, <2>2, <2>3 DEF Heaped, Searching
<1> QED
  BY <1>9, <1>10, <1>11

(* A neighbour is better if it was not met: every node met has the score 0. *)
LEMMA BetterIsNew ==
  ASSUME IInv, alg = "A_STAR", pc = "relax"
  PROVE  /\ current \in Met /\ current \in Range(Reported)
         /\ Best!tentative_g_score = 0
         /\ Best!Better = Succ(current) \ Met
         /\ Best!Unlisted = Best!Better
         /\ Best!Better \cap open_set_lookup = {}
<1>1. /\ DOMAIN list \subseteq Known /\ list \in [DOMAIN list -> SUBSET Known]
      /\ Reported = visitedNodes
      /\ Met = {n \in DOMAIN list : g_score[n] < Best!Infinity}
  BY StarFacts
<1>2. /\ current \in Range(visitedNodes) /\ open_set_lookup = Met \ Range(visitedNodes)
      /\ g_score \in [Known -> {0, Best!Infinity}]
      /\ \A n \in Known \ DOMAIN list : g_score[n] = 0
  BY DEF IInv, Heaped
<1>3. current \in Met
  BY <1>1, <1>2 DEF IInv, Common, Grown, Searching
<1>4. 0 < Best!Infinity
  BY DEF Best!Infinity
<1>5. g_score[current] = 0 /\ current \in DOMAIN list /\ list[current] \subseteq Known
  BY <1>1, <1>2, <1>3, Limits
<1>6. Best!tentative_g_score = 0
  BY <1>5 DEF Best!tentative_g_score, Best!UploadWeight
<1>7. Best!Better = {n \in list[current] : 0 < g_score[n]}
  BY <1>6 DEF Best!Better
<1>8. Best!Better = Succ(current) \ Met
  <2>1. ASSUME NEW n \in list[current] PROVE 0 < g_score[n] <=> n \in DOMAIN list /\ ~(g_score[n] < Best!Infinity)
    BY <1>2, <1>4, <1>5, Limits
  <2> QED
    BY <1>1, <1>7, <2>1 DEF Succ
<1>9. Best!Better \cap open_set_lookup = {} /\ Best!Unlisted = Best!Better
  BY <1>2, <1>8 DEF Best!Unlisted
<1> QED
  BY <1>1, <1>2, <1>3, <1>6, <1>8, <1>9

(* The second half of an iteration of a_star. *)
LEMMA StarRelaxes ==
  ASSUME IInv, alg = "A_STAR", Best!Relax, UNCHANGED alg
  PROVE  Common' /\ Heaped' /\ (Search!Next \/ UNCHANGED Search!vars)
<1>1. /\ pc = "relax" /\ pc' \in Best!Outcomes(Best!Better)
      /\ UNCHANGED <<alg, current, visitedNodes, tmp, path, subPath, open, sent, list, start, end>>
  BY DEF Best!Relax, Best!inputs
<1>2. pc' \in {"loop", "raised", "undefined"}
  BY <1>1, OutcomeFacts
<1>3. /\ Known = DOMAIN Numbers /\ Known' = Known /\ DOMAIN list \subseteq Known
      /\ parent \in [Known -> Known \cup {Empty}]
      /\ Reported = visitedNodes /\ Reported' = Reported
      /\ Met = {n \in DOMAIN list : g_score[n] < Best!Infinity}
  BY <1>1, StarFacts DEF Known, Reported
<1>4. /\ current \in Met /\ current \in Range(Reported)
      /\ Best!tentative_g_score = 0
      /\ Best!Better = Succ(current) \ Met
      /\ Best!Unlisted = Best!Better
      /\ Best!Better \cap open_set_lookup = {}
  BY <1>1, BetterIsNew
<1>5. /\ g_score \in [Known -> {0, Best!Infinity}] /\ f_score \in [Known -> 0..Best!Infinity]
      /\ current \in Known \cup {Empty}
      /\ open_set_lookup \subseteq Known
      /\ open_set = [m \in Known |-> IF m \in open_set_lookup THEN 1 ELSE 0]
      /\ end \in DOMAIN list
      /\ g_score[start] = 0
      /\ \A m \in Known \ DOMAIN list : g_score[m] = 0
      /\ open_set_lookup = Met \ Range(visitedNodes)
  BY <1>1 DEF IInv, Heaped, Searching
<1>6. CASE pc' = "loop"
  <2>1. /\ parent' = [n \in Known |-> IF n \in Best!Better THEN current ELSE parent[n]]
        /\ g_score' = [n \in Known |-> IF n \in Best!Better THEN 0 ELSE g_score[n]]
        /\ f_score' = [n \in Known |-> IF n \in Best!Better THEN 0 + Best!heuristic(n, end) ELSE f_score[n]]
        /\ open_set' = [n \in Known |-> IF n \in Best!Better THEN open_set[n] + 1 ELSE open_set[n]]
        /\ open_set_lookup' = open_set_lookup \cup Best!Better
    BY <1>3, <1>4, <1>6 DEF Best!Relax
  <2>2. Best!Better \subseteq DOMAIN list /\ Best!Better \subseteq Known /\ Best!Better \cap Met = {}
    BY <1>3, <1>4 DEF Succ
  <2> DEFINE better == Best!Better
  <2> HIDE DEF better
  <2>3. Met' = Met \cup Succ(current) /\ Met' = Met \cup Best!Better
    <3>1. Met' = {n \in DOMAIN list : g_score'[n] < Best!Infinity}
      BY <1>1 DEF Met
    <3>2. 0 < Best!Infinity
      BY DEF Best!Infinity
    <3>3. Met' = Met \cup Best!Better
      BY <1>3, <2>1, <2>2, <3>1, <3>2
    <3> QED
      BY <1>4, <3>3
  <2>4. \A m \in Met : parent'[m] = parent[m]
    BY <1>3, <2>1, <2>2
  <2>5. \A m \in Met' \ Met : parent'[m] = current
    BY <2>1, <2>2, <2>3
  <2>6. Grown'
    BY <1>1, <1>3, <1>4, <1>6, <2>3, <2>4, <2>5, RelaxGrows DEF IInv, Common
  <2>7. parent' \in [Known -> Known \cup {Empty}]
    BY <1>3, <1>4, <2>1
  <2>8. Common'
    BY ONLY <1>1, <1>2, <2>6, <2>7, IInv, RelaxKeeps DEF IInv
  <2>9. UNCHANGED Search!vars
    <3>1. Breadth!AbstractPhase' = Breadth!AbstractPhase
      BY <1>1, <1>6 DEF Breadth!AbstractPhase
    <3> QED
      BY <1>1, <1>3, <3>1 DEF Search!vars, Breadth!AbstractRun
  <2>10. Heaped'
    <3>1. g_score' \in [Known -> {0, Best!Infinity}]
      BY <1>5, <2>1
    <3>2. f_score' \in [Known -> 0..Best!Infinity]
      <4>1. ASSUME NEW n \in Best!Better PROVE 0 + Best!heuristic(n, end) \in 0..Best!Infinity
        <5>1. n \in DOMAIN Numbers /\ end \in DOMAIN Numbers
          BY <1>3, <1>5, <2>2
        <5>2. ~Best!Throws(n, end) /\ ~Best!Overruns(n, end)
          BY <1>1, <1>6, OutcomeFacts
        <5>3. Best!heuristic(n, end) \in 0..Best!Infinity
          BY <5>1, <5>2, HeuristicIsNatural
        <5> QED
          BY <5>3
      <4> QED
        BY <1>5, <2>1, <4>1
    <3>3. open_set' = [m \in Known |-> IF m \in open_set_lookup' THEN 1 ELSE 0]
      <4>1. \A m \in Known : open_set'[m] = IF m \in open_set_lookup' THEN 1 ELSE 0
        BY <1>4, <1>5, <2>1
      <4> QED
        BY <2>1, <4>1
    <3>4. open_set_lookup' = Met' \ Range(visitedNodes')
      <4>1. Range(visitedNodes) \subseteq Met
        BY <1>1, <1>3 DEF IInv, Common, Grown, Searching
      <4> QED
        BY <1>1, <1>5, <2>1, <2>2, <2>3, <4>1
    <3>5. start \in Known /\ g_score'[start] = 0
      <4>1. start \in Met
        BY <1>1 DEF IInv, Common, Grown, Searching
      <4> QED
        BY <1>3, <1>5, <2>1, <2>2, <4>1
    <3>6. \A m \in Known \ DOMAIN list : g_score'[m] = 0
      BY <1>5, <2>1, <2>2
    <3> QED
      BY <1>1, <1>3, <1>5, <1>6, <2>1, <2>2, <3>1, <3>2, <3>3, <3>4, <3>5, <3>6 DEF Heaped
  <2> QED
    BY <2>8, <2>9, <2>10
<1>7. CASE pc' # "loop"
  <2>1. UNCHANGED <<parent, g_score, f_score, open_set, open_set_lookup>>
    BY <1>7 DEF Best!Relax
  <2>2. parent' \in [Known -> Known \cup {Empty}]
    BY <1>3, <2>1
  <2>3. pc' \in {"raised", "undefined"}
    BY <1>2, <1>7
  <2>4. Common'
    BY ONLY <1>1, <1>2, <1>7, <2>2, IInv, RelaxKeeps DEF IInv
  <2>5. Search!Next
    BY <1>1, <1>3, <2>3, MisnamedImplements DEF IInv, Common
  <2>6. Heaped'
    BY <1>1, <1>3, <1>5, <2>1, <2>3 DEF Heaped, Searching
  <2> QED
    BY <2>4, <2>5, <2>6
<1> QED
  BY <1>6, <1>7

(* a_star takes the goal. *)
LEMMA StarFinds ==
  ASSUME IInv, alg = "A_STAR", Best!Found, UNCHANGED alg
  PROVE  Common' /\ Heaped' /\ Search!Next
<1>1. /\ pc = "loop" /\ end \in Best!Tops
      /\ open_set' = [open_set EXCEPT ![end] = @ - 1]
      /\ open_set_lookup' = open_set_lookup \ {end}
      /\ current' = end
      /\ Breadth!ConfirmPath(end)
      /\ UNCHANGED <<parent, g_score, f_score, visitedNodes>>
  BY DEF Best!Found, Best!Pop, Best!ConfirmPath, Breadth!ConfirmPath, Best!Send, Breadth!Send,
    Best!inputs, Breadth!inputs
<1>2. pc' = "build" /\ UNCHANGED <<list, start, end>>
  BY <1>1 DEF Breadth!ConfirmPath, Breadth!inputs
<1>3. end \in Known /\ end \in open_set_lookup /\ end \in Met
  BY <1>1, TopIsMet
<1>4. visitedNodes \in Seq(Known) /\ Known' = Known /\ Met \subseteq DOMAIN list
  BY StarFacts DEF Known
<1>5. Met' = Met /\ Reported' = Reported
  BY <1>1, <1>2 DEF Met, Reported
<1>6. visitedNodes' \in Seq(Known)
  BY <1>1, <1>4
<1>7. Common'
  BY <1>1, <1>3, <1>5, <1>6, FoundKeeps DEF IInv
<1>8. Search!Next
  BY <1>1, <1>3, <1>5, FoundImplements DEF IInv, Common
<1>9. Heaped'
  <2>1. /\ g_score \in [Known -> {0, Best!Infinity}] /\ f_score \in [Known -> 0..Best!Infinity]
        /\ open_set_lookup \subseteq Known
        /\ open_set = [m \in Known |-> IF m \in open_set_lookup THEN 1 ELSE 0]
    BY DEF IInv, Heaped
  <2>2. open_set' = [m \in Known |-> IF m \in open_set_lookup' THEN 1 ELSE 0]
    <3>1. open_set[end] - 1 = 0
      BY <1>3, <2>1
    <3>2. open_set' = [open_set EXCEPT ![end] = 0]
      BY <1>1, <3>1
    <3> QED
      BY <1>1, <1>3, <2>1, <3>2
  <2> QED
    BY <1>1, <1>2, <1>3, <1>4, <2>1, <2>2 DEF Heaped
<1> QED
  BY <1>7, <1>8, <1>9

(* The other steps of a_star leave the heap and the scores alone. *)
LEMMA StarPasses ==
  ASSUME IInv, alg = "A_STAR", UNCHANGED alg,
         \/ Best!Refuse \/ Best!BuildPath \/ Best!ShowPath \/ Best!ShowPastPath
         \/ Best!LeaveFound \/ Best!LeaveExhausted
  PROVE  Common' /\ Heaped' /\ (Search!Next \/ UNCHANGED Search!vars)
<1> USE DEF Best!Return, Best!inputs, Best!Send, Breadth!Return, Breadth!inputs, Breadth!Send
<1>1. UNCHANGED <<parent, g_score, f_score, open_set, open_set_lookup, current, visitedNodes, list, start, end>>
  BY DEF Best!Refuse, Best!BuildPath, Best!ShowPath, Best!ShowPastPath, Best!LeaveFound,
    Best!LeaveExhausted, Best!searchVars, Best!PrependToPath, Best!ShowNextInner,
    Best!LeaveAfterPath
<1>2. Met' = Met /\ Reported' = Reported /\ Known' = Known
  BY <1>1 DEF Met, Reported, Known
<1>3. \/ pc = "call" /\ (Breadth!Refused \/ end \notin DOMAIN list) /\ Breadth!Return
      \/ Breadth!PrependToPath(parent)
      \/ Breadth!ShowNextInner
      \/ Breadth!LeaveAfterPath /\ Len(path) # 1
      \/ pc = "loop" /\ (\A n \in Known : open_set[n] = 0) /\ Breadth!Return
      \/ /\ pc = "build" /\ tmp = Empty /\ Len(path) = 1 /\ pc' = "undefined"
         /\ UNCHANGED <<visitedNodes, tmp, path, subPath, open, sent, list, start, end>>
  <2>1. Known = DOMAIN Numbers
    BY StarFacts
  <2> QED
    BY <2>1 DEF Best!Refuse, Best!BuildPath, Best!ShowPath, Best!ShowPastPath, Best!LeaveFound,
      Best!LeaveExhausted, Best!Refused, Breadth!Refused, Best!PrependToPath, Breadth!PrependToPath,
      Best!ShowNextInner, Breadth!ShowNextInner, Best!LeaveAfterPath, Breadth!LeaveAfterPath,
      Best!PassesItsBound
<1>4. /\ pc' \in {pc, "done", "undefined"}
      /\ pc' = "call" => FALSE
      /\ pc' \in {"loop", "relax"} => FALSE
      /\ pc' = "build" => pc = "build"
  BY <1>3 DEF Breadth!PrependToPath, Breadth!ShowNextInner, Breadth!LeaveAfterPath
<1>5. Breadth!Refused \/ end \notin DOMAIN list => Search!Refused(Call)
  BY RefusedAgrees DEF Breadth!Refused
<1>6. pc = "loop" /\ (\A n \in Known : open_set[n] = 0) => Met \subseteq Range(Reported)
  <2> SUFFICES ASSUME pc = "loop", \A n \in Known : open_set[n] = 0, NEW m \in Met
               PROVE  m \in Range(Reported)
    OBVIOUS
  <2>1. m \in Known /\ Reported = visitedNodes
    BY StarFacts
  <2>2. m \notin open_set_lookup
    BY <2>1 DEF IInv, Heaped
  <2> QED
    BY <2>1, <2>2 DEF IInv, Heaped
<1>7. Passive
  BY <1>1, <1>2, <1>3, <1>5, <1>6 DEF Passive
<1>8. Common' /\ (Search!Next \/ UNCHANGED Search!vars)
  BY <1>7, PassiveKeeps, PassiveImplements DEF IInv
<1>9. Heaped'
  BY <1>1, <1>2, <1>4 DEF IInv, Heaped, Searching
<1> QED
  BY <1>8, <1>9

(* a_star. *)
LEMMA StarKeeps ==
  ASSUME IInv, alg = "A_STAR", Best!Step, UNCHANGED alg
  PROVE  IInv' /\ (Search!Next \/ UNCHANGED Search!vars)
<1>1. Common' /\ Heaped' /\ (Search!Next \/ UNCHANGED Search!vars)
  BY StarBegins, StarTakes, StarRelaxes, StarFinds, StarPasses DEF Best!Step
<1> QED
  BY <1>1 DEF IInv, EmptyIsNoName, Coloured, Settling

-----------------------------------------------------------------------------
(* All four. *)

(* The client leaves, or nothing happens. *)
LEMMA IdleInvariant ==
  ASSUME IInv, HangUp \/ UNCHANGED vars
  PROVE  IInv' /\ (Search!Next \/ UNCHANGED Search!vars)
<1>1. /\ UNCHANGED <<alg, list, start, end, pc, visitedNodes, tmp, path, subPath, sent, colors,
                     distances, parent, Queue, Stack, visited, g_score, f_score, open_set,
                     open_set_lookup, current>>
      /\ open' \in BOOLEAN
  BY DEF HangUp, Breadth!SessionEnds, Breadth!inputs, scores, vars, common, IInv, Common, Typed
<1>2. Met' = Met /\ Reported' = Reported /\ Known' = Known /\ Waiting' = Waiting /\ Searching' = Searching
  BY <1>1 DEF Met, Reported, Nearest!Reported, Known, Waiting, Searching
<1>3. Common'
  BY <1>1, <1>2, IdleKeeps DEF IInv
<1>4. Coloured'
  BY <1>1, <1>2 DEF IInv, Coloured
<1>5. Settling'
  BY <1>1, <1>2 DEF IInv, Settling
<1>6. Heaped'
  BY <1>1, <1>2 DEF IInv, Heaped
<1>7. CASE HangUp
  <2>1. Search!Next
    BY <1>2, <1>7, HangUpImplements
  <2> QED
    BY <1>3, <1>4, <1>5, <1>6, <2>1 DEF IInv, EmptyIsNoName
<1>8. CASE UNCHANGED vars
  <2>1. UNCHANGED Search!vars
    BY <1>1, <1>2, <1>8 DEF vars, common, Search!vars, Breadth!AbstractRun, Breadth!AbstractPhase
  <2> QED
    BY <1>3, <1>4, <1>5, <1>6, <2>1 DEF IInv, EmptyIsNoName
<1> QED
  BY <1>7, <1>8

(* Every step keeps the invariant, and is a step of the abstract search.    *)
LEMMA StepKeeps ==
  IInv /\ [Next]_vars => IInv' /\ (Search!Next \/ UNCHANGED Search!vars)
<1> SUFFICES ASSUME IInv, [Next]_vars PROVE IInv' /\ (Search!Next \/ UNCHANGED Search!vars)
  OBVIOUS
<1>1. CASE Step
  BY <1>1, BfsKeeps, DijkstraKeeps, DfsKeeps, StarKeeps DEF Step
<1>2. CASE HangUp \/ UNCHANGED vars
  BY <1>2, IdleInvariant
<1> QED
  BY <1>1, <1>2 DEF Next

(* The call, as it is made. *)
LEMMA InitCall ==
  ASSUME Init
  PROVE  /\ alg \in {"BFS", "DIJKSTRA", "DFS", "A_STAR"}
         /\ IF alg = "A_STAR" THEN list \in PointLists /\ start \in PointStarts /\ end \in PointEnds
            ELSE list \in Lists /\ start \in Starts /\ end \in Ends
         /\ pc = "call" /\ visitedNodes = << >> /\ tmp = Empty /\ path = << >> /\ subPath = << >>
         /\ open = TRUE /\ sent = << >>
         /\ parent = [n \in Known |-> Empty]
<1> USE DEF Breadth!TraversalInit, Nearest!TraversalInit, Depth!TraversalInit, Best!TraversalInit, Known
<1>1. CASE alg = "BFS" /\ Breadth!Init
  BY <1>1 DEF Breadth!Init
<1>2. CASE alg = "DIJKSTRA" /\ Nearest!Init
  BY <1>2 DEF Nearest!Init
<1>3. CASE alg = "DFS" /\ Depth!Init
  BY <1>3 DEF Depth!Init
<1>4. CASE alg = "A_STAR" /\ Best!Init
  BY <1>4 DEF Best!Init
<1> QED
  BY <1>1, <1>2, <1>3, <1>4 DEF Init

(* Nothing is coloured, settled or in the heap before the call. *)
LEMMA InitOwn ==
  ASSUME Init
  PROVE  Coloured /\ Settling /\ Heaped
<1>1. pc = "call"
  BY InitCall
<1>2. Coloured
  <2>1. ASSUME alg = "BFS" PROVE Coloured
    <3>1. colors = [n \in Names |-> ""]
      BY <2>1 DEF Init, Breadth!Init
    <3>2. colors \in [Names -> Breadth!Colors]
      BY <3>1 DEF Breadth!Colors
    <3>3. Queue = << >>
      BY <2>1 DEF Init, Breadth!Init
    <3> QED
      BY ONLY <1>1, <2>1, <3>2, <3>3 DEF Coloured, Waiting
  <2>2. ASSUME alg = "DFS" PROVE Coloured
    <3>1. colors = [n \in Names |-> ""]
      BY <2>2 DEF Init, Depth!Init
    <3>2. colors \in [Names -> Breadth!Colors]
      BY <3>1 DEF Breadth!Colors
    <3>3. Stack = << >>
      BY <2>2 DEF Init, Depth!Init
    <3> QED
      BY ONLY <1>1, <2>2, <3>2, <3>3 DEF Coloured, Waiting
  <2> QED
    BY <2>1, <2>2 DEF Coloured
<1>3. Settling
  <2>1. ASSUME alg = "DIJKSTRA" PROVE Settling
    <3>1. distances = [n \in Names |-> 0] /\ visited = [n \in Names |-> FALSE]
      BY <2>1 DEF Init, Nearest!Init
    <3>2. distances \in [Names -> 0..Nearest!INT_MAX]
      BY <3>1, Limits
    <3>3. visited \in [Names -> BOOLEAN] /\ \A n \in Names : ~visited[n]
      BY <3>1
    <3> QED
      BY ONLY <1>1, <3>2, <3>3 DEF Settling
  <2> QED
    BY <2>1 DEF Settling
<1>4. Heaped
  <2>1. ASSUME alg = "A_STAR" PROVE Heaped
    <3>1. /\ g_score = [n \in Known |-> 0] /\ f_score = [n \in Known |-> 0]
          /\ open_set = [n \in Known |-> 0] /\ open_set_lookup = {} /\ current = Empty
      BY <2>1 DEF Init, Best!Init, Known
    <3>2. g_score \in [Known -> {0, Best!Infinity}] /\ f_score \in [Known -> 0..Best!Infinity]
      BY <3>1, Limits
    <3> QED
      BY ONLY <1>1, <3>1, <3>2 DEF Heaped, Searching
  <2> QED
    BY <2>1 DEF Heaped
<1> QED
  BY <1>2, <1>3, <1>4

(* The calls of the members are calls of the abstract search. *)
LEMMA InitInvariant ==
  EmptyIsNoName /\ Init => IInv /\ Search!Init
<1> SUFFICES ASSUME EmptyIsNoName, Init PROVE IInv /\ Search!Init
  OBVIOUS
<1>1. /\ alg \in {"BFS", "DIJKSTRA", "DFS", "A_STAR"}
      /\ IF alg = "A_STAR" THEN list \in PointLists /\ start \in PointStarts /\ end \in PointEnds
         ELSE list \in Lists /\ start \in Starts /\ end \in Ends
      /\ pc = "call" /\ visitedNodes = << >> /\ tmp = Empty /\ path = << >> /\ subPath = << >>
      /\ open = TRUE /\ sent = << >>
      /\ parent = [n \in Known |-> Empty]
  BY InitCall
<1>2. Reported = << >>
  BY <1>1 DEF Reported, Nearest!Reported
<1>3. Typed
  <2>1. parent \in [Known -> Known \cup {Empty}]
    BY <1>1
  <2> QED
    BY <1>1, <2>1 DEF Typed, Breadth!Control
<1>4. Common
  BY <1>1, <1>3 DEF Common, Fresh, NoPathYet, Grown, Searching, Traced, Shown
<1>5. Call = [alg |-> alg, list |-> list, start |-> start, end |-> end, phase |-> "called",
              visited |-> << >>, route |-> << >>, shown |-> 0]
  <2>1. Breadth!AbstractPhase = "called" /\ Len(subPath) = 0
    BY <1>1 DEF Breadth!AbstractPhase
  <2> QED
    BY <1>1, <1>2, <2>1, CallFields
<1>6. Call \in Calls
  BY <1>1, <1>5 DEF Calls
<1>7. Search!Init
  BY <1>1, <1>6 DEF Search!Init, Call
<1> QED
  BY <1>4, <1>7, InitOwn DEF IInv

(* The invariant holds throughout. *)
LEMMA Invariant == EmptyIsNoName => (Spec => []IInv)
<1>1. EmptyIsNoName /\ Init => IInv
  BY InitInvariant
<1>2. IInv /\ [Next]_vars => IInv'
  BY StepKeeps
<1>3. EmptyIsNoName /\ Spec => []IInv
  BY <1>1, <1>2, PTL DEF Spec
<1> QED
  BY <1>3

(* Whatever the graph and whichever member searches it, every step is a     *)
(* step of the abstract search or none of its concern: what is sent, in     *)
(* which order, and what a return means are the same for all four.          *)
THEOREM AllImplementSearch == EmptyIsNoName => (Spec => ImplementsSearch)
<1>1. EmptyIsNoName /\ Init => Search!Init
  BY InitInvariant
<1>2. IInv /\ [Next]_vars => [Search!Next]_(Search!vars)
  BY StepKeeps
<1>3. EmptyIsNoName /\ Spec => Search!Spec
  BY <1>1, <1>2, Invariant, PTL DEF Spec, Search!Spec
<1> QED
  BY <1>3 DEF ImplementsSearch

-----------------------------------------------------------------------------
(* What was proved of the abstract search holds of each of the four.        *)

Promised == INSTANCE SearchProofs WITH
  run <- Breadth!AbstractRun(alg, Reported), Nodes <- DOMAIN Numbers \cup Names

(* The calls of the members have what SearchSpec assumes of calls. *)
LEMMA CallsAreCalls == Promised!CallsAssumption
<1> DEFINE names == DOMAIN Numbers \cup Names
           call(x, l, from, to) == [alg |-> x, list |-> l, start |-> from, end |-> to, phase |-> "called",
                                    visited |-> << >>, route |-> << >>, shown |-> 0]
<1>1. ASSUME NEW l \in Lists \cup PointLists PROVE l \in Promised!AdjacencyList
  <2>1. l \in [DOMAIN l -> SUBSET names] /\ DOMAIN l \in SUBSET names
    BY InputAssumption DEF Inputs
  <2>2. l \in UNION {[K -> SUBSET names] : K \in SUBSET names}
    BY ONLY <2>1
  <2> QED
    BY <2>2 DEF Promised!AdjacencyList
<1>2. Starts \cup Ends \cup PointStarts \cup PointEnds \subseteq names \cup {Empty}
  BY InputAssumption DEF Inputs
<1>3. ASSUME NEW x \in Promised!Algorithm, NEW l \in Lists \cup PointLists,
             NEW from \in names \cup {Empty}, NEW to \in names \cup {Empty}
      PROVE  /\ call(x, l, from, to).list \in Promised!AdjacencyList
             /\ \E y \in Promised!Algorithm, start_, end_ \in names \cup {Empty} :
                  call(x, l, from, to) = Promised!Call(y, call(x, l, from, to).list, start_, end_)
  <2>1. call(x, l, from, to).list = l
    OBVIOUS
  <2>2. call(x, l, from, to) = Promised!Call(x, l, from, to)
    BY DEF Promised!Call
  <2> QED
    BY <1>1, <2>1, <2>2
<1>4. ASSUME NEW r \in Calls
      PROVE  \E x \in Promised!Algorithm, l \in Lists \cup PointLists, from, to \in names \cup {Empty} :
               r = call(x, l, from, to)
  <2>1. CASE \E x \in {"BFS", "DIJKSTRA", "DFS"}, l \in Lists, from \in Starts, to \in Ends :
               r = call(x, l, from, to)
    BY <1>2, <2>1 DEF Promised!Algorithm
  <2>2. CASE \E l \in PointLists, from \in PointStarts, to \in PointEnds : r = call("A_STAR", l, from, to)
    BY <1>2, <2>2 DEF Promised!Algorithm
  <2> QED
    BY <2>1, <2>2 DEF Calls
<1> HIDE DEF call, names
<1>5. \A r \in Calls : /\ r.list \in Promised!AdjacencyList
                       /\ \E y \in Promised!Algorithm, start_, end_ \in names \cup {Empty} :
                            r = Promised!Call(y, r.list, start_, end_)
  <2> SUFFICES ASSUME NEW r \in Calls
               PROVE  /\ r.list \in Promised!AdjacencyList
                      /\ \E y \in Promised!Algorithm, start_, end_ \in names \cup {Empty} :
                           r = Promised!Call(y, r.list, start_, end_)
    OBVIOUS
  <2>1. PICK x \in Promised!Algorithm, l \in Lists \cup PointLists, from, to \in names \cup {Empty} :
          r = call(x, l, from, to)
    BY <1>4
  <2> DEFINE c == call(x, l, from, to)
  <2>2. /\ c.list \in Promised!AdjacencyList
        /\ \E y \in Promised!Algorithm, start_, end_ \in names \cup {Empty} :
             c = Promised!Call(y, c.list, start_, end_)
    BY <1>3
  <2>3. r = c
    BY <2>1
  <2> HIDE DEF c
  <2> QED
    BY ONLY <2>2, <2>3
<1> QED
  BY <1>5 DEF Promised!CallsAssumption, names

(* One search, under either name. *)
LEMMA SameSearch == ImplementsSearch => Promised!Spec
<1>1. \A r : Search!Moves(r) = Promised!Moves(r)
  BY DEF Search!Moves, Promised!Moves, Search!Quietly, Promised!Quietly, Search!Refused,
    Promised!Refused, Search!Misnamed, Promised!Misnamed, Search!Frontier, Promised!Frontier,
    Search!Successors, Promised!Successors, Search!Say, Promised!Say, Search!Routes,
    Promised!Routes, Search!Range, Promised!Range, Search!IsRoute, Promised!IsRoute,
    Search!Take, Promised!Take, Search!SearchMoves, Promised!SearchMoves, Search!RouteMoves,
    Promised!RouteMoves, Search!Rebuild, Promised!Rebuild, Search!Move, Promised!Move
<1>2. Search!Init => Promised!Init
  BY DEF Search!Init, Promised!Init
<1>3. [Search!Next]_(Search!vars) => [Promised!Next]_(Promised!vars)
  BY <1>1 DEF Search!Next, Promised!Next, Search!Advance, Promised!Advance, Search!HangUp,
    Promised!HangUp, Search!vars, Promised!vars
<1> QED
  BY <1>2, <1>3, PTL DEF ImplementsSearch, Search!Spec, Promised!Spec

(* Whichever member is called: a call that was not refused and returns has  *)
(* shown a path from start to end exactly if there is one, and otherwise    *)
(* visited all that can be reached.                                         *)
THEOREM AllVerdictsAreRight == EmptyIsNoName => (Spec => []Search!Verdict)
<1>1. Promised!Verdict => Search!Verdict
  BY DEF Promised!Verdict, Search!Verdict, Search!Refused, Promised!Refused, Search!Reachable,
    Promised!Reachable, Search!IsRoute, Promised!IsRoute, Search!Range, Promised!Range,
    Search!Closed, Promised!Closed, Search!Successors, Promised!Successors
<1>2. Promised!Spec => []Promised!Verdict
  BY CallsAreCalls, Promised!VerdictIsRight, PTL
<1> QED
  BY <1>1, <1>2, SameSearch, AllImplementSearch, PTL

(* No member reports a node that cannot be reached, none twice, and never   *)
(* the end.                                                                 *)
THEOREM AllVisitsCanBeReached == EmptyIsNoName => (Spec => []Search!VisitsAreReachable)
<1>1. Promised!VisitsAreReachable => Search!VisitsAreReachable
  BY DEF Promised!VisitsAreReachable, Search!VisitsAreReachable, Search!Reachable,
    Promised!Reachable, Search!Range, Promised!Range, Search!Closed, Promised!Closed,
    Search!Successors, Promised!Successors
<1>2. Promised!Spec => []Promised!VisitsAreReachable
  BY CallsAreCalls, Promised!VisitsCanBeReached, PTL
<1> QED
  BY <1>1, <1>2, SameSearch, AllImplementSearch, PTL

(* Whichever member is called, a client that stays until it returns has     *)
(* been sent the whole transcript of the search, every message once and in  *)
(* order; one that left has been sent a beginning of it.                    *)
THEOREM AllStreamsAreWhole == EmptyIsNoName => (Spec => []Search!StreamIsTranscript)
<1>1. Promised!StreamIsTranscript => Search!StreamIsTranscript
  BY DEF Promised!StreamIsTranscript, Search!StreamIsTranscript, Search!Transcript,
    Promised!Transcript, Search!Refused, Promised!Refused
<1>2. Promised!Spec => []Promised!StreamIsTranscript
  BY CallsAreCalls, Promised!StreamIsWhole, PTL
<1> QED
  BY <1>1, <1>2, SameSearch, AllImplementSearch, PTL

-----------------------------------------------------------------------------
(* a_star. *)

(* open_set and open_set_lookup, which the code keeps in step by hand, hold *)
(* the same nodes, none twice.                                              *)
THEOREM HeapIsLookup == EmptyIsNoName => (Spec => []LookupAgrees)
<1>1. IInv => LookupAgrees
  BY StarFacts DEF IInv, Heaped, LookupAgrees, Best!LookupAgrees
<1> QED
  BY <1>1, Invariant, PTL

(* The key by which the heap orders a node does not change while the node   *)
(* is in it: a node in the heap was met, and only nodes that were not met   *)
(* get a new score.                                                         *)
THEOREM HeapKeysStay == EmptyIsNoName => (Spec => HeapKeysStable)
<1> DEFINE Stable == alg = "A_STAR" => \A n \in DOMAIN Numbers : open_set[n] > 0 => f_score'[n] = f_score[n]
<1>1. IInv /\ [Next]_vars => [Stable]_vars
  <2> SUFFICES ASSUME IInv, [Next]_vars, alg = "A_STAR", NEW n \in DOMAIN Numbers, open_set[n] > 0
               PROVE  f_score'[n] = f_score[n] \/ UNCHANGED vars
    OBVIOUS
  <2>1. n \in open_set_lookup /\ n \in Known /\ f_score \in [Known -> 0..Best!Infinity]
    BY StarFacts DEF IInv, Heaped
  <2>2. CASE UNCHANGED vars
    BY <2>2
  <2>3. CASE Best!Begin
    BY <2>1, <2>3 DEF Best!Begin, IInv, Heaped
  <2>4. CASE Best!Relax
    <3>1. pc = "relax"
      BY <2>4 DEF Best!Relax
    <3>2. n \notin Best!Better
      BY <2>1, <3>1, BetterIsNew
    <3> QED
      BY <2>4, <3>2 DEF Best!Relax
  <2>5. CASE \/ Best!Refuse \/ Best!Visit \/ Best!Found \/ Best!BuildPath \/ Best!ShowPath
             \/ Best!ShowPastPath \/ Best!LeaveFound \/ Best!LeaveExhausted \/ HangUp
    BY <2>5 DEF Best!Refuse, Best!Visit, Best!Found, Best!BuildPath, Best!ShowPath,
      Best!ShowPastPath, Best!LeaveFound, Best!LeaveExhausted, Best!searchVars, HangUp, scores
  <2> QED
    BY <2>2, <2>3, <2>4, <2>5 DEF Next, Step, Best!Step
<1>2. EmptyIsNoName /\ Spec => [][Stable]_vars
  BY <1>1, Invariant, PTL DEF Spec
<1> QED
  BY <1>2 DEF HeapKeysStable

(* On keys that are points, between two that differ, a_star returns: the    *)
(* heuristic is only taken of keys, and a path of one node has one end.     *)
THEOREM PointsAreSafe == EmptyIsNoName => (Spec => []SafeOnPoints)
<1>1. Init => SafeOnPoints
  BY InitCall DEF SafeOnPoints, Best!SafeOnPoints
<1>2. IInv /\ SafeOnPoints /\ [Next]_vars => SafeOnPoints'
  <2> SUFFICES ASSUME IInv, SafeOnPoints, [Next]_vars, alg' = "A_STAR",
                      \A n \in DOMAIN list' : Best!IsPoint(n), start' # end'
               PROVE  pc' \notin {"raised", "undefined"}
    BY DEF SafeOnPoints, Best!SafeOnPoints, Best!IsPoint
  <2>1. alg = "A_STAR" /\ UNCHANGED <<list, start, end>>
    BY DEF Next, Step, HangUp, vars, common, Best!Step, Best!Refuse, Best!Begin, Best!Visit,
      Best!Relax, Best!Found, Best!BuildPath, Best!ShowPath, Best!ShowPastPath, Best!LeaveFound,
      Best!LeaveExhausted, Best!Return, Best!ConfirmPath, Best!PrependToPath, Best!ShowNextInner,
      Best!LeaveAfterPath, Best!inputs
  <2>2. pc \notin {"raised", "undefined"}
    BY <2>1 DEF SafeOnPoints, Best!SafeOnPoints
  <2>3. DOMAIN list \subseteq DOMAIN Numbers
    BY <2>1, StarFacts
  <2>4. ASSUME NEW n \in DOMAIN list, end \in DOMAIN list
        PROVE  ~Best!Throws(n, end) /\ ~Best!Overruns(n, end)
    <3>1. /\ Numbers[n] # Unparsable /\ Len(Numbers[n]) = 2
          /\ Numbers[end] # Unparsable /\ Len(Numbers[end]) = 2
      BY <2>1, <2>4 DEF Best!IsPoint
    <3>2. Numbers[n] \in Seq(Int) /\ Numbers[end] \in Seq(Int)
      BY <2>3, <2>4, <3>1, InputAssumption
    <3>3. Len(Numbers[n] \o Numbers[end]) = 4
      <4>1. \A p, q \in Seq(Int) : Len(p \o q) = Len(p) + Len(q)
        OBVIOUS
      <4>2. Len(Numbers[n] \o Numbers[end]) = Len(Numbers[n]) + Len(Numbers[end])
        BY ONLY <3>2, <4>1
      <4> QED
        BY ONLY <3>1, <4>2
    <3> QED
      BY <3>1, <3>3 DEF Best!Throws, Best!Overruns
  <2>5. CASE Best!Begin
    <3>1. start \in DOMAIN list /\ end \in DOMAIN list /\ pc' \in Best!Outcomes({start})
      BY <2>5 DEF Best!Begin, Best!Refused
    <3> QED
      BY <2>4, <3>1, OutcomeFacts
  <2>6. CASE Best!Relax
    <3>1. pc = "relax" /\ pc' \in Best!Outcomes(Best!Better)
      BY <2>6 DEF Best!Relax
    <3>2. end \in DOMAIN list /\ Best!Better \subseteq DOMAIN list
      BY <2>1, <3>1, BetterIsNew DEF Succ, IInv, Heaped, Searching
    <3> QED
      BY <2>4, <3>1, <3>2, OutcomeFacts
  <2>7. CASE Best!ShowPastPath
    <3>1. pc = "build" /\ tmp = Empty /\ Len(path) = 1
      BY <2>7 DEF Best!ShowPastPath, Best!PassesItsBound
    <3>2. path[1] = start /\ path[Len(path)] = end
      BY <3>1, PathIsWhole DEF IInv, Common, Whole
    <3> QED
      BY <2>1, <3>1, <3>2
  <2>8. CASE \/ Best!Refuse \/ Best!Visit \/ Best!Found \/ Best!BuildPath \/ Best!ShowPath
             \/ Best!LeaveFound \/ Best!LeaveExhausted \/ HangUp \/ UNCHANGED vars
    BY <2>2, <2>8 DEF Best!Refuse, Best!Visit, Best!Found, Best!BuildPath, Best!ShowPath,
      Best!LeaveFound, Best!LeaveExhausted, Best!Return, Best!ConfirmPath, Best!PrependToPath,
      Best!ShowNextInner, Best!LeaveAfterPath, HangUp, Breadth!SessionEnds, vars, common
  <2> QED
    BY <2>1, <2>5, <2>6, <2>7, <2>8 DEF Next, Step, Best!Step
<1> QED
  BY <1>1, <1>2, Invariant, PTL DEF Spec

-----------------------------------------------------------------------------
(* dfs. *)

(* The pairs of nodes of which the first was met in no earlier visit than   *)
(* the second.                                                              *)
Later ==
  {p \in Names \X Names :
     parent[p[2]] # Empty =>
       \E i, j \in 1..Len(visitedNodes) :
         visitedNodes[i] = parent[p[1]] /\ visitedNodes[j] = parent[p[2]] /\ j <= i}

StackSorted == alg = "DFS" /\ pc = "loop" => Sorted(Stack, Later)

(* Every step keeps the stack in this order. *)
LEMMA StackStaysSorted ==
  IInv /\ StackSorted /\ [Next]_vars => StackSorted'
<1> SUFFICES ASSUME IInv, StackSorted, [Next]_vars, alg' = "DFS", pc' = "loop"
             PROVE  Sorted(Stack, Later)'
  BY DEF StackSorted
<1>1. alg = "DFS"
  BY DEF Next, Step, HangUp, vars, common
<1>2. CASE Depth!Visit
  <2>1. PICK order : VisitColours(order) /\ Stack' = order \o Tail(Stack)
    BY <1>1, <1>2, DfsVisits DEF Next, Step, HangUp, vars, common
  <2> DEFINE node == Head(Stack)
             rest == Tail(Stack)
             white == White(node)
             v == visitedNodes
  <2>2. Waiting = Stack /\ pc = "loop" /\ Waiting # << >>
    BY <1>1, <2>1 DEF Waiting, VisitColours
  <2>3. /\ node \in Met \ Range(Reported) /\ node \in Names
        /\ rest \in Seq(Names) /\ Range(rest) = Range(Stack) \ {node}
        /\ white \subseteq Names /\ Range(Stack) \cap white = {}
    BY <1>1, <2>2, HeadFacts
  <2>4. /\ order \in Seq(Names) /\ Range(order) = white
        /\ parent' = [n \in Names |-> IF n \in white THEN node ELSE parent[n]]
        /\ v' = Append(v, node) /\ start' = start
    BY <2>1, <2>2, WaitingAfter DEF VisitColours
  <2>5. /\ Stack \in Seq(Names) /\ Stack # << >> /\ Sorted(Stack, Later)
        /\ v \in Seq(Names) /\ Reported = v
        /\ Range(Stack) = Met \ Range(v)
    BY <1>1, <2>2, WaitingIsMet, ReportedIsVisited DEF IInv, Common, Typed, Known, Coloured, StackSorted
  <2>6. Sorted(rest, Later)
    BY <2>5, SortedTail
  <2>7. /\ Len(v') = Len(v) + 1 /\ Len(v) \in Nat /\ v'[Len(v) + 1] = node
        /\ \A i \in 1..Len(v) : v'[i] = v[i]
    BY <2>3, <2>4, <2>5
  <2> HIDE DEF node, rest, white, v
  <2>8. \A n \in Range(rest) : parent'[n] = parent[n] /\ n \in Names /\ n \in Met \ Range(v)
    <3>1. Range(rest) \subseteq Names
      BY <2>3 DEF Range
    <3> QED
      BY <2>3, <2>4, <2>5, <3>1
  <2>9. \A n \in Range(order) : parent'[n] = node /\ n \in Names
    BY <2>3, <2>4
  <2>10. Sorted(rest, Later')
    <3>1. ASSUME NEW x \in Range(rest), NEW y \in Range(rest), <<x, y>> \in Later
          PROVE  <<x, y>> \in Later'
      <4>1. parent[y] # Empty => \E i, j \in 1..Len(v) : v[i] = parent[x] /\ v[j] = parent[y] /\ j <= i
        BY <3>1 DEF Later, v
      <4>2. parent'[y] # Empty => \E i, j \in 1..Len(v') : v'[i] = parent'[x] /\ v'[j] = parent'[y] /\ j <= i
        BY <2>7, <2>8, <4>1
      <4> QED
        BY <2>8, <4>2 DEF Later, v
    <3> QED
      BY <2>3, <2>6, <3>1, SortedStays
  <2>11. Sorted(order, Later')
    <3>1. ASSUME NEW x \in Range(order), NEW y \in Range(order) PROVE <<x, y>> \in Later'
      <4>1. \E i, j \in 1..Len(v') : v'[i] = parent'[x] /\ v'[j] = parent'[y] /\ j <= i
        BY <2>7, <2>9
      <4> QED
        BY <2>9, <4>1 DEF Later, v
    <3>2. \A i \in 1..Len(order) : order[i] \in Range(order)
      BY <2>4 DEF Range
    <3> QED
      BY <3>1, <3>2 DEF Sorted
  <2>12. ASSUME NEW x \in Range(order), NEW y \in Range(rest) PROVE <<x, y>> \in Later'
    <3>1. parent'[y] # Empty => parent[y] \in Range(v)
      <4>1. y \in Met /\ parent'[y] = parent[y]
        BY <2>8
      <4> QED
        BY <2>2, <2>5, <4>1 DEF IInv, Common, Grown, Searching
    <3>2. parent'[y] # Empty => \E j \in 1..Len(v) : v[j] = parent[y]
      BY <2>5, <3>1 DEF Range
    <3>3. parent'[y] # Empty => \E i, j \in 1..Len(v') : v'[i] = parent'[x] /\ v'[j] = parent'[y] /\ j <= i
      BY <2>7, <2>8, <2>9, <3>2
    <3> QED
      BY <2>8, <2>9, <3>3 DEF Later, v
  <2>13. Sorted(order \o rest, Later')
    BY <2>3, <2>4, <2>10, <2>11, <2>12, SortedConcat
  <2>14. Stack' = order \o rest
    BY <2>1 DEF rest
  <2> QED
    BY <2>13, <2>14 DEF Sorted
<1>3. CASE Depth!Begin
  <2>1. Stack' = <<start>>
    BY <1>3 DEF Depth!Begin
  <2>2. Len(Stack') = 1
    BY <2>1
  <2> QED
    BY <2>2 DEF Sorted
<1>4. CASE Depth!Refuse \/ Depth!Found \/ Depth!BuildPath \/ Depth!ShowPath \/ Depth!LeaveFound \/ Depth!LeaveExhausted
  <2>1. pc' # "loop"
    BY <1>4 DEF Depth!Refuse, Depth!Found, Depth!BuildPath, Depth!ShowPath, Depth!LeaveFound,
      Depth!LeaveExhausted, Depth!Return, Depth!ConfirmPath, Depth!PrependToPath,
      Depth!ShowNextInner, Depth!LeaveAfterPath
  <2> QED
    BY <2>1
<1>5. CASE HangUp \/ UNCHANGED vars
  <2>1. UNCHANGED <<Stack, parent, visitedNodes, pc>>
    BY <1>5 DEF HangUp, Breadth!SessionEnds, vars, common
  <2> QED
    BY <1>1, <2>1 DEF StackSorted, Sorted, Later
<1> QED
  BY <1>1, <1>2, <1>3, <1>4, <1>5 DEF Next, Step, Depth!Step

(* The stack holds exactly the grey nodes, once each, and the nodes that    *)
(* one visit pushed lie above those of earlier visits.                      *)
THEOREM StackHoldsFrontier == EmptyIsNoName => (Spec => []StackIsFrontier)
<1>1. Init => StackSorted
  BY InitCall DEF StackSorted
<1>2. IInv /\ StackSorted => StackIsFrontier
  <2> SUFFICES ASSUME IInv, StackSorted, alg = "DFS", pc = "loop"
               PROVE  Depth!StackIsFrontier
    BY DEF StackIsFrontier, Depth!StackIsFrontier
  <2>1. Stack \in Seq(Names) /\ Range(Stack) = {n \in Names : colors[n] = "gris"} /\ Distinct(Stack)
    BY DEF IInv, Coloured, Waiting
  <2>2. \A i, j \in 1..Len(visitedNodes) : visitedNodes[i] = visitedNodes[j] => i = j
    BY ReportedIsVisited DEF IInv, Common, Grown, Searching
  <2>3. visitedNodes \in Seq(Names)
    BY DEF IInv, Common, Typed, Known
  <2> DEFINE visitedAt(n) == CHOOSE i \in 1..Len(visitedNodes) : visitedNodes[i] = n
  <2>4. \A i \in 1..Len(visitedNodes) : visitedAt(visitedNodes[i]) = i
    BY <2>2
  <2> HIDE DEF visitedAt
  <2>5. ASSUME NEW i \in 1..Len(Stack), NEW j \in 1..Len(Stack), i < j
        PROVE  /\ Stack[i] # Stack[j]
               /\ parent[Stack[j]] # Empty => visitedAt(parent[Stack[i]]) >= visitedAt(parent[Stack[j]])
    <3>1. Stack[i] # Stack[j]
      BY <2>1, <2>5 DEF Distinct
    <3>2. <<Stack[i], Stack[j]>> \in Later
      BY <2>5 DEF StackSorted, Sorted
    <3>3. parent[Stack[j]] # Empty =>
            \E a, b \in 1..Len(visitedNodes) :
              visitedNodes[a] = parent[Stack[i]] /\ visitedNodes[b] = parent[Stack[j]] /\ b <= a
      BY <3>2 DEF Later
    <3> QED
      BY <2>3, <2>4, <3>1, <3>3
  <2> QED
    BY <2>1, <2>5 DEF Depth!StackIsFrontier, Depth!Range, Range, visitedAt
<1> QED
  BY <1>1, <1>2, Invariant, StackStaysSorted, PTL DEF Spec

-----------------------------------------------------------------------------
(* The numbers of hops that bfs and dijkstra are measured against. *)

(* What can be reached in at most so many hops. *)
Ball == Breadth!Ball

(* bfs and dijkstra are measured against the same numbers of hops. *)
LEMMA OneBall == Nearest!Ball = Ball /\ \A n : Nearest!Hops(n) = Breadth!Hops(n)
<1>1. Nearest!Ball = Ball
  BY DEF Ball, Breadth!Ball, Nearest!Ball, Breadth!Successors, Nearest!Successors
<1>2. \A S : Nearest!Cardinality(S) = Breadth!Cardinality(S)
  BY DEF Nearest!Cardinality, Breadth!Cardinality
<1> QED
  BY <1>1, <1>2 DEF Nearest!Hops, Breadth!Hops, Ball

(* What can be reached in at most k hops, one hop further each time. *)
LEMMA BallGrows ==
  /\ Ball[0] = {start}
  /\ \A k \in Nat : Ball[k + 1] = Ball[k] \cup UNION {Succ(n) : n \in Ball[k]}
<1> DEFINE D == {start} \cup DOMAIN list
           F == [S \in SUBSET D |-> S \cup UNION {Succ(n) : n \in S}]
           Is(b) == b = [k \in Nat |-> IF k = 0 THEN {start}
                                       ELSE b[k - 1] \cup UNION {Succ(n) : n \in b[k - 1]}]
<1>1. F \in [SUBSET D -> SUBSET D]
  BY DEF Succ
<1>2. PICK b \in [Nat -> SUBSET D] : b[0] = {start} /\ \A k \in Nat : b[k + 1] = F[b[k]]
  <2> HIDE DEF F
  <2>1. {start} \in SUBSET D
    OBVIOUS
  <2> DEFINE T == SUBSET D
  <2>2. {start} \in T /\ F \in [T -> T]
    BY <1>1, <2>1
  <2> HIDE DEF T
  <2>3. \E b \in [Nat -> T] : b[0] = {start} /\ \A k \in Nat : b[k + 1] = F[b[k]]
    BY ONLY <2>2, RecursionExists
  <2> QED
    BY <2>3 DEF T
<1>3. \A k \in Nat \ {0} : b[k] = b[k - 1] \cup UNION {Succ(n) : n \in b[k - 1]}
  <2> SUFFICES ASSUME NEW k \in Nat \ {0} PROVE b[k] = b[k - 1] \cup UNION {Succ(n) : n \in b[k - 1]}
    OBVIOUS
  <2>1. k - 1 \in Nat /\ k - 1 + 1 = k
    OBVIOUS
  <2>2. b[k] = F[b[k - 1]] /\ b[k - 1] \in SUBSET D
    BY <1>2, <2>1
  <2> QED
    BY <2>2
<1>4. Is(b)
  <2> DEFINE c == [k \in Nat |-> IF k = 0 THEN {start}
                                 ELSE b[k - 1] \cup UNION {Succ(n) : n \in b[k - 1]}]
  <2>1. \A k \in Nat : c[k] = b[k]
    BY <1>2, <1>3
  <2>2. b \in [Nat -> SUBSET D] /\ DOMAIN c = Nat
    BY <1>2
  <2>3. c = [k \in Nat |-> c[k]]
    OBVIOUS
  <2> HIDE DEF c
  <2>4. b = c
    BY <2>1, <2>2, <2>3
  <2> QED
    BY <2>4 DEF c
<1>5. Ball = CHOOSE x : Is(x)
  BY DEF Ball, Breadth!Ball, Breadth!Successors, Succ
<1>6. Is(Ball)
  <2> HIDE DEF Is
  <2> QED
    BY <1>4, <1>5
<1>7. Ball[0] = {start}
  BY <1>6
<1>8. ASSUME NEW k \in Nat PROVE Ball[k + 1] = Ball[k] \cup UNION {Succ(n) : n \in Ball[k]}
  <2>1. k + 1 \in Nat /\ k + 1 # 0 /\ k + 1 - 1 = k
    OBVIOUS
  <2> QED
    BY <1>6, <2>1
<1> QED
  BY <1>7, <1>8

(* A ball holds the smaller ones. *)
LEMMA BallsNest == \A j, k \in Nat : j <= k => Ball[j] \subseteq Ball[k]
<1> SUFFICES ASSUME NEW j \in Nat PROVE \A k \in Nat : j <= k => Ball[j] \subseteq Ball[k]
  OBVIOUS
<1> DEFINE S == {k \in Nat : j <= k => Ball[j] \subseteq Ball[k]}
<1>1. 0 \in S
  OBVIOUS
<1>2. ASSUME NEW k \in S PROVE k + 1 \in S
  <2>1. k \in Nat /\ k + 1 \in Nat /\ Ball[k] \subseteq Ball[k + 1]
    BY BallGrows
  <2>2. CASE j <= k
    BY <2>1, <2>2
  <2>3. CASE j = k + 1
    BY <2>1, <2>3
  <2> QED
    BY <2>1, <2>2, <2>3
<1> HIDE DEF S
<1>3. S = Nat
  <2>1. S \in SUBSET Nat
    BY DEF S
  <2> QED
    BY <1>1, <1>2, <2>1, SetInduction
<1> QED
  BY <1>3 DEF S

(* The distance of a node is its number of hops from start. *)
Level(n) ==
  /\ distances[n] \in 0..Cardinality(DOMAIN list)
  /\ n \in Ball[distances[n]]
  /\ distances[n] > 0 => n \notin Ball[distances[n] - 1]

(* There is one such number, the one the properties speak of. *)
LEMMA LevelIsHops ==
  ASSUME NEW n, Level(n), IsFiniteSet(DOMAIN list)
  PROVE  /\ Breadth!Reached(n) /\ Nearest!Reached(n)
         /\ Breadth!Hops(n) = distances[n] /\ Nearest!Hops(n) = distances[n]
<1> DEFINE c == Cardinality(DOMAIN list)
           Is(k) == n \in Ball[k] /\ (k > 0 => n \notin Ball[k - 1])
<1>1. c \in Nat
  BY FS_CardinalityType
<1>2. \A S : Breadth!Cardinality(S) = Cardinality(S) /\ Nearest!Cardinality(S) = Cardinality(S)
  BY DEF Breadth!Cardinality, Nearest!Cardinality, Cardinality
<1>3. distances[n] \in 0..c /\ Is(distances[n])
  BY DEF Level
<1> HIDE DEF c
<1>4. ASSUME NEW j \in 0..c, NEW k \in 0..c, Is(j), Is(k) PROVE ~(j < k)
  <2> SUFFICES ASSUME j < k PROVE FALSE
    OBVIOUS
  <2>1. j \in Nat /\ k - 1 \in Nat /\ j <= k - 1 /\ k > 0
    BY <1>1
  <2>2. Ball[j] \subseteq Ball[k - 1]
    BY <2>1, BallsNest
  <2> QED
    BY <1>4, <2>1, <2>2
<1>5. \A k \in 0..c : Is(k) => k = distances[n]
  <2> HIDE DEF Is
  <2> QED
    BY <1>1, <1>3, <1>4
<1>6. (CHOOSE k \in 0..c : Is(k)) = distances[n]
  <2> HIDE DEF Is
  <2> QED
    BY <1>3, <1>5
<1>7. Breadth!Hops(n) = CHOOSE k \in 0..c : Is(k)
  BY <1>2 DEF Breadth!Hops, Ball, c
<1>8. n \in Ball[c]
  <2>1. distances[n] \in Nat /\ distances[n] <= c
    BY <1>1, <1>3
  <2> QED
    BY <1>1, <1>3, <2>1, BallsNest
<1>9. Breadth!Reached(n) /\ Nearest!Reached(n)
  BY <1>2, <1>8, OneBall DEF Breadth!Reached, Nearest!Reached, Ball, c
<1> QED
  BY <1>6, <1>7, <1>9, OneBall

-----------------------------------------------------------------------------
(* bfs and dijkstra. *)

(* The pairs of nodes that may follow one another in the queue. *)
InTurn ==
  {p \in Names \X Names : distances[p[1]] <= distances[p[2]] /\ distances[p[2]] <= distances[p[1]] + 1}

(* What was visited, nearest first. *)
Visits ==
  /\ \A x \in Range(visitedNodes) : Level(x)
  /\ \A i, j \in 1..Len(visitedNodes) :
       i < j => distances[visitedNodes[i]] <= distances[visitedNodes[j]]
  /\ alg = "DIJKSTRA" => \A n \in Names : visited[n] => n \in Range(visitedNodes)

(* What was met: every distance is right, and one more than that of the     *)
(* predecessor.                                                             *)
Layers ==
  pc \in {"loop", "build"} =>
    /\ distances[start] = 0
    /\ \A n \in Met : Level(n)
    /\ \A n \in Met \ {start} : distances[n] = distances[parent[n]] + 1

(* What is still to be taken is no nearer than what was taken. *)
Frontier ==
  pc = "loop" =>
    /\ \A n \in Met : distances[n] <= Len(visitedNodes)
    /\ \A x \in Range(visitedNodes), y \in Met \ Range(visitedNodes) : distances[x] <= distances[y]
    /\ alg = "BFS" =>
         /\ Sorted(Queue, InTurn)
         /\ \A n \in DOMAIN list \ Met : distances[n] = Breadth!INT_MAX

(* The part of the path rebuilt so far has the length its distances say.    *)
Measured ==
  pc = "build" /\ path # << >> => distances[path[1]] + Len(path) - 1 = distances[end]

HInv ==
  alg \in {"BFS", "DIJKSTRA"} =>
    /\ distances \in [Names -> 0..Breadth!INT_MAX]
    /\ Visits /\ Layers /\ Frontier /\ Measured /\ Breadth!RouteIsShortest

(* The limit of both is that of an int. *)
LEMMA OneLimit == Breadth!INT_MAX = Nearest!INT_MAX /\ Breadth!INT_MAX \in Nat
<1>1. Breadth!INT_MAX = Nearest!INT_MAX
  BY DEF Breadth!INT_MAX, Nearest!INT_MAX
<1> QED
  BY <1>1, Limits

(* Where both stand at the head of their loop. *)
LEMMA LoopFacts ==
  ASSUME IInv, HInv, alg \in {"BFS", "DIJKSTRA"}, pc = "loop"
  PROVE  /\ Reported = visitedNodes /\ Known = Names
         /\ visitedNodes \in Seq(Names) /\ Len(visitedNodes) \in Nat
         /\ Met \subseteq DOMAIN list /\ DOMAIN list \subseteq Names
         /\ IsFiniteSet(DOMAIN list) /\ Cardinality(DOMAIN list) \in Nat
         /\ Cardinality(DOMAIN list) < Breadth!INT_MAX
         /\ start \in Met /\ Range(visitedNodes) \subseteq Met
         /\ Met = {start} \cup UNION {Succ(n) : n \in Range(visitedNodes)}
         /\ \A i, j \in 1..Len(visitedNodes) : visitedNodes[i] = visitedNodes[j] => i = j
         /\ \A n \in Met \ {start} : parent[n] \in Range(visitedNodes)
         /\ parent \in [Names -> Names \cup {Empty}]
         /\ distances \in [Names -> 0..Breadth!INT_MAX]
         /\ \A n \in Met : distances[n] \in Nat
<1>1. Reported = visitedNodes
  BY DijkstraReports, ReportedIsVisited
<1>2. Known = Names
  BY DEF Known
<1>3. /\ visitedNodes \in Seq(Names) /\ parent \in [Names -> Names \cup {Empty}] /\ list \in Lists
      /\ DOMAIN list \subseteq Names /\ IsFiniteSet(DOMAIN list)
  BY <1>2, InputFacts DEF IInv, Common, Typed
<1>4. Cardinality(DOMAIN list) < Breadth!INT_MAX /\ Cardinality(DOMAIN list) \in Nat
  BY <1>3, OneLimit, SizeAssumption, FS_CardinalityType
<1>5. Expanded = Range(visitedNodes)
  BY <1>1 DEF Expanded
<1>6. /\ Range(visitedNodes) \subseteq Met
      /\ Met = {start} \cup UNION {Succ(n) : n \in Range(visitedNodes)}
      /\ \A i, j \in 1..Len(visitedNodes) : visitedNodes[i] = visitedNodes[j] => i = j
      /\ \A n \in Met \ {start} : parent[n] \in Range(visitedNodes)
  BY <1>1, <1>5 DEF IInv, Common, Grown, Searching
<1>7. Met \subseteq DOMAIN list /\ start \in Met
  <2>1. start \in Met
    BY <1>6
  <2> QED
    BY <2>1 DEF Met
<1>8. distances \in [Names -> 0..Breadth!INT_MAX] /\ \A n \in Met : distances[n] \in Nat
  BY <1>3, <1>7, OneLimit DEF HInv
<1> QED
  BY <1>1, <1>2, <1>3, <1>4, <1>6, <1>7, <1>8

(* All that is as near as the nearest node still to be taken was met: what  *)
(* is nearer than that node was taken, and so its neighbours were met.      *)
LEMMA NearerIsMet ==
  ASSUME IInv, HInv, alg \in {"BFS", "DIJKSTRA"}, pc = "loop",
         NEW c \in Met \ Range(visitedNodes),
         \A y \in Met \ Range(visitedNodes) : distances[c] <= distances[y]
  PROVE  Ball[distances[c]] \subseteq Met
<1> DEFINE S == {k \in Nat : k <= distances[c] => Ball[k] \subseteq Met}
<1>1. distances[c] \in Nat /\ start \in Met
  BY LoopFacts
<1>2. 0 \in S
  BY <1>1, BallGrows
<1>3. ASSUME NEW k \in S PROVE k + 1 \in S
  <2> SUFFICES ASSUME k + 1 <= distances[c], NEW n \in Ball[k + 1] PROVE n \in Met
    BY <1>3
  <2>1. k \in Nat /\ k < distances[c] /\ Ball[k] \subseteq Met
    BY <1>1, <1>3
  <2>2. CASE n \in Ball[k]
    BY <2>1, <2>2
  <2>3. ASSUME NEW m \in Ball[k], n \in Succ(m) PROVE n \in Met
    <3>1. m \in Met /\ Level(m) /\ distances[m] \in Nat
      BY <2>1, <2>3, LoopFacts DEF HInv, Layers
    <3>2. distances[m] <= k
      <4> SUFFICES ASSUME k < distances[m] PROVE FALSE
        BY <2>1, <3>1
      <4>1. k <= distances[m] - 1 /\ distances[m] - 1 \in Nat /\ distances[m] > 0
        BY <2>1, <3>1
      <4>2. Ball[k] \subseteq Ball[distances[m] - 1]
        BY <2>1, <4>1, BallsNest
      <4> QED
        BY <2>3, <3>1, <4>1, <4>2 DEF Level
    <3>3. m \in Range(visitedNodes)
      BY <1>1, <2>1, <3>1, <3>2
    <3> QED
      BY <2>3, <3>3, LoopFacts
  <2> QED
    BY <2>1, <2>2, <2>3, BallGrows
<1> HIDE DEF S
<1>4. S = Nat
  <2>1. S \in SUBSET Nat
    BY DEF S
  <2> QED
    BY <1>2, <1>3, <2>1, SetInduction
<1> QED
  BY <1>1, <1>4 DEF S

(* The graph and the start of a call do not change. *)
LEMMA BallStays ==
  list' = list /\ start' = start => Ball' = Ball /\ \A n : Succ(n)' = Succ(n)
BY DEF Ball, Breadth!Ball, Breadth!Successors, Succ

(* One iteration of either: the nearest node is taken, and its neighbours   *)
(* that were not met are one hop further.                                   *)
Nearby(c) ==
  /\ pc = "loop" /\ pc' = "loop"
  /\ c \in Met \ Range(visitedNodes)
  /\ \A y \in Met \ Range(visitedNodes) : distances[c] <= distances[y]
  /\ distances' = [m \in Names |-> IF m \in Succ(c) \ Met THEN distances[c] + 1 ELSE distances[m]]
  /\ parent' = [m \in Names |-> IF m \in Succ(c) \ Met THEN c ELSE parent[m]]
  /\ visitedNodes' = Append(visitedNodes, c)
  /\ Met' = Met \cup Succ(c)
  /\ UNCHANGED <<alg, list, start, end, path>>

(* It takes a node that was not taken: there are more keys than were taken. *)
LEMMA TakenAreFewer ==
  ASSUME IInv, HInv, alg \in {"BFS", "DIJKSTRA"}, pc = "loop", NEW c \in Met \ Range(visitedNodes)
  PROVE  /\ Append(visitedNodes, c) \in Seq(Names)
         /\ Len(Append(visitedNodes, c)) = Len(visitedNodes) + 1
         /\ Range(Append(visitedNodes, c)) = Range(visitedNodes) \cup {c}
         /\ \A i \in 1..Len(visitedNodes) :
              Append(visitedNodes, c)[i] = visitedNodes[i] /\ visitedNodes[i] \in Range(visitedNodes)
         /\ Append(visitedNodes, c)[Len(visitedNodes) + 1] = c
         /\ Len(visitedNodes) + 1 <= Cardinality(DOMAIN list)
<1>1. /\ visitedNodes \in Seq(Names) /\ Len(visitedNodes) \in Nat
      /\ Met \subseteq DOMAIN list /\ DOMAIN list \subseteq Names /\ IsFiniteSet(DOMAIN list)
      /\ Range(visitedNodes) \subseteq Met
      /\ \A i, j \in 1..Len(visitedNodes) : visitedNodes[i] = visitedNodes[j] => i = j
  BY LoopFacts
<1> DEFINE v == Append(visitedNodes, c)
<1>2. c \in Names
  BY <1>1
<1>3. v \in Seq(Names) /\ Range(v) = Range(visitedNodes) \cup {c}
  BY <1>1, <1>2, RangeOfAppend
<1>4. /\ Len(v) = Len(visitedNodes) + 1 /\ v[Len(visitedNodes) + 1] = c
      /\ \A i \in 1..Len(visitedNodes) : v[i] = visitedNodes[i] /\ visitedNodes[i] \in Range(visitedNodes)
  BY <1>1, <1>2 DEF Range
<1> HIDE DEF v
<1>5. \A i, j \in 1..Len(v) : v[i] = v[j] => i = j
  BY <1>1, <1>4
<1>6. Range(v) \subseteq DOMAIN list
  BY <1>1, <1>3
<1>7. Len(v) <= Cardinality(DOMAIN list)
  BY <1>1, <1>3, <1>5, <1>6, DistinctIsShort
<1> QED
  BY <1>3, <1>4, <1>7 DEF v

(* Distances that are right stay so, and the new ones are right. *)
LEMMA NearbyLevels ==
  ASSUME IInv, HInv, alg \in {"BFS", "DIJKSTRA"}, NEW c, Nearby(c)
  PROVE  /\ \A n \in Met : distances'[n] = distances[n] /\ parent'[n] = parent[n]
         /\ \A n \in Met' \ Met : distances'[n] = distances[c] + 1 /\ parent'[n] = c
         /\ Met' \subseteq Names
         /\ distances' \in [Names -> 0..Breadth!INT_MAX]
         /\ \A n \in Met' : Level(n)'
<1>1. /\ Met \subseteq DOMAIN list /\ DOMAIN list \subseteq Names
      /\ Cardinality(DOMAIN list) \in Nat /\ Cardinality(DOMAIN list) < Breadth!INT_MAX
      /\ distances \in [Names -> 0..Breadth!INT_MAX]
      /\ \A n \in Met : distances[n] \in Nat
      /\ Len(visitedNodes) \in Nat
  BY LoopFacts DEF Nearby
<1>2. /\ distances' = [m \in Names |-> IF m \in Succ(c) \ Met THEN distances[c] + 1 ELSE distances[m]]
      /\ parent' = [m \in Names |-> IF m \in Succ(c) \ Met THEN c ELSE parent[m]]
      /\ Met' = Met \cup Succ(c) /\ c \in Met \ Range(visitedNodes)
  BY DEF Nearby
<1>3. Succ(c) \subseteq DOMAIN list
  BY DEF Succ
<1>4. /\ \A n \in Met : distances'[n] = distances[n] /\ parent'[n] = parent[n]
      /\ \A n \in Met' \ Met : distances'[n] = distances[c] + 1 /\ parent'[n] = c
      /\ Met' \subseteq Names
  BY <1>1, <1>2, <1>3
<1>5. distances[c] + 1 <= Cardinality(DOMAIN list)
  <2>1. distances[c] <= Len(visitedNodes)
    BY <1>2 DEF HInv, Frontier, Nearby
  <2>2. Len(visitedNodes) + 1 <= Cardinality(DOMAIN list)
    BY <1>2, TakenAreFewer DEF Nearby
  <2> QED
    BY <1>1, <1>2, <2>1, <2>2
<1>6. distances' \in [Names -> 0..Breadth!INT_MAX]
  <2>1. distances[c] + 1 \in 0..Breadth!INT_MAX
    BY <1>1, <1>2, <1>5, OneLimit
  <2> QED
    BY <1>1, <1>2, <2>1
<1>7. Ball' = Ball /\ list' = list
  BY BallStays DEF Nearby
<1>8. ASSUME NEW n \in Met PROVE Level(n)'
  <2>1. Level(n)
    BY <1>8 DEF HInv, Layers, Nearby
  <2> QED
    BY <1>4, <1>7, <2>1 DEF Level
<1>9. ASSUME NEW n \in Met' \ Met PROVE Level(n)'
  <2>1. n \in Succ(c) /\ distances'[n] = distances[c] + 1 /\ distances[c] \in Nat
    BY <1>1, <1>2, <1>4, <1>9
  <2>2. c \in Ball[distances[c]]
    BY <1>2 DEF HInv, Layers, Nearby, Level
  <2>3. n \in Ball[distances[c] + 1]
    BY <2>1, <2>2, BallGrows
  <2>4. n \notin Ball[distances[c]]
    BY <1>2, <1>9, NearerIsMet DEF Nearby
  <2>5. distances[c] + 1 \in 0..Cardinality(DOMAIN list) /\ distances[c] + 1 - 1 = distances[c]
    BY <1>1, <1>5, <2>1
  <2> QED
    BY <1>7, <2>1, <2>3, <2>4, <2>5 DEF Level
<1> QED
  BY <1>4, <1>6, <1>8, <1>9

(* The nearest node joins what was visited. *)
LEMMA VisitsGrow ==
  ASSUME IInv, HInv, alg \in {"BFS", "DIJKSTRA"}, pc = "loop",
         NEW c \in Met \ Range(visitedNodes),
         \A y \in Met \ Range(visitedNodes) : distances[c] <= distances[y],
         visitedNodes' = Append(visitedNodes, c), alg' = alg,
         \A n \in Met : distances'[n] = distances[n] /\ Level(n)',
         alg = "DIJKSTRA" => visited' = [visited EXCEPT ![c] = TRUE]
  PROVE  Visits'
<1>1. /\ visitedNodes \in Seq(Names) /\ Len(visitedNodes) \in Nat
      /\ Met \subseteq DOMAIN list /\ DOMAIN list \subseteq Names
      /\ Range(visitedNodes) \subseteq Met
      /\ \A n \in Met : distances[n] \in Nat
  BY LoopFacts
<1>2. /\ Len(visitedNodes') = Len(visitedNodes) + 1
      /\ Range(visitedNodes') = Range(visitedNodes) \cup {c}
      /\ \A i \in 1..Len(visitedNodes) : visitedNodes'[i] = visitedNodes[i] /\ visitedNodes[i] \in Range(visitedNodes)
      /\ visitedNodes'[Len(visitedNodes) + 1] = c
  BY TakenAreFewer
<1>3. ASSUME NEW i \in 1..Len(visitedNodes'), NEW j \in 1..Len(visitedNodes'), i < j
      PROVE  distances'[visitedNodes'[i]] <= distances'[visitedNodes'[j]]
  <2>1. i \in 1..Len(visitedNodes) /\ visitedNodes[i] \in Met
    BY <1>1, <1>2, <1>3
  <2>2. CASE j \in 1..Len(visitedNodes)
    <3>1. distances[visitedNodes[i]] <= distances[visitedNodes[j]] /\ visitedNodes[j] \in Met
      BY <1>1, <1>2, <1>3, <2>1, <2>2 DEF HInv, Visits
    <3> QED
      BY <1>2, <2>1, <2>2, <3>1
  <2>3. CASE j = Len(visitedNodes) + 1
    <3>1. distances[visitedNodes[i]] <= distances[c]
      BY <1>2, <2>1 DEF HInv, Frontier
    <3> QED
      BY <1>2, <2>1, <2>3, <3>1
  <2> QED
    BY <1>1, <1>2, <2>2, <2>3
<1>4. \A x \in Range(visitedNodes') : Level(x)'
  BY <1>1, <1>2
<1>5. ASSUME alg' = "DIJKSTRA", NEW n \in Names, visited'[n] PROVE n \in Range(visitedNodes')
  <2>1. visited' = [visited EXCEPT ![c] = TRUE] /\ visited \in [Names -> BOOLEAN]
    BY <1>5 DEF IInv, Settling
  <2>2. n = c \/ visited[n]
    BY <1>5, <2>1
  <2> QED
    BY <1>2, <1>5, <2>2 DEF HInv, Visits
<1> QED
  BY <1>3, <1>4, <1>5 DEF Visits

(* An iteration keeps everything but the order of the queue. *)
LEMMA NearbyKeeps ==
  ASSUME IInv, HInv, alg \in {"BFS", "DIJKSTRA"}, NEW c, Nearby(c),
         alg = "DIJKSTRA" => visited' = [visited EXCEPT ![c] = TRUE],
         alg = "BFS" => Sorted(Queue, InTurn)'
  PROVE  HInv'
<1>1. /\ \A n \in Met : distances'[n] = distances[n] /\ parent'[n] = parent[n]
      /\ \A n \in Met' \ Met : distances'[n] = distances[c] + 1 /\ parent'[n] = c
      /\ Met' \subseteq Names
      /\ distances' \in [Names -> 0..Breadth!INT_MAX]
      /\ \A n \in Met' : Level(n)'
  BY NearbyLevels
<1>2. /\ pc = "loop" /\ pc' = "loop" /\ Met' = Met \cup Succ(c)
      /\ c \in Met \ Range(visitedNodes)
      /\ \A y \in Met \ Range(visitedNodes) : distances[c] <= distances[y]
      /\ visitedNodes' = Append(visitedNodes, c)
      /\ UNCHANGED <<alg, list, start, end, path>>
  BY DEF Nearby
<1>3. /\ visitedNodes \in Seq(Names) /\ Len(visitedNodes) \in Nat
      /\ Met \subseteq DOMAIN list /\ DOMAIN list \subseteq Names
      /\ start \in Met /\ Range(visitedNodes) \subseteq Met
      /\ \A n \in Met \ {start} : parent[n] \in Range(visitedNodes)
      /\ \A n \in Met : distances[n] \in Nat
      /\ distances \in [Names -> 0..Breadth!INT_MAX]
  BY <1>2, LoopFacts
<1>4. /\ Len(visitedNodes') = Len(visitedNodes) + 1
      /\ Range(visitedNodes') = Range(visitedNodes) \cup {c}
      /\ \A i \in 1..Len(visitedNodes) : visitedNodes'[i] = visitedNodes[i] /\ visitedNodes[i] \in Range(visitedNodes)
      /\ visitedNodes'[Len(visitedNodes) + 1] = c
  BY <1>2, TakenAreFewer
<1>5. Visits'
  BY <1>1, <1>2, VisitsGrow
<1>6. Layers'
  <2>1. distances'[start] = 0
    BY <1>1, <1>2, <1>3 DEF HInv, Layers
  <2>2. ASSUME NEW n \in Met' \ {start} PROVE distances'[n] = distances'[parent'[n]] + 1
    <3>1. CASE n \in Met
      <4>1. distances[n] = distances[parent[n]] + 1 /\ parent[n] \in Met
        BY <1>2, <1>3, <2>2, <3>1 DEF HInv, Layers
      <4> QED
        BY <1>1, <3>1, <4>1
    <3>2. CASE n \notin Met
      BY <1>1, <1>2, <2>2, <3>2
    <3> QED
      BY <3>1, <3>2
  <2> QED
    BY <1>1, <1>2, <2>1, <2>2 DEF Layers
<1>7. Frontier'
  <2>1. distances[c] <= Len(visitedNodes) /\ distances[c] \in Nat
    BY <1>2, <1>3 DEF HInv, Frontier
  <2>2. ASSUME NEW n \in Met' PROVE distances'[n] <= Len(visitedNodes')
    <3>1. CASE n \in Met
      <4>1. distances[n] <= Len(visitedNodes) /\ distances[n] \in Nat
        BY <1>2, <1>3, <3>1 DEF HInv, Frontier
      <4> QED
        BY <1>1, <1>3, <1>4, <3>1, <4>1
    <3>2. CASE n \notin Met
      BY <1>1, <1>3, <1>4, <2>1, <2>2, <3>2
    <3> QED
      BY <3>1, <3>2
  <2>3. ASSUME NEW x \in Range(visitedNodes'), NEW y \in Met' \ Range(visitedNodes')
        PROVE  distances'[x] <= distances'[y]
    <3>1. x \in Met /\ distances'[x] = distances[x] /\ distances[x] \in Nat
      BY <1>1, <1>2, <1>3, <1>4, <2>3
    <3>2. distances[x] <= distances[c]
      BY <1>2, <1>4, <2>1, <2>3 DEF HInv, Frontier
    <3>3. CASE y \in Met
      <4>1. distances'[y] = distances[y] /\ distances[c] <= distances[y] /\ distances[y] \in Nat
        BY <1>1, <1>2, <1>3, <1>4, <2>3, <3>3
      <4> QED
        BY <2>1, <3>1, <3>2, <4>1
    <3>4. CASE y \notin Met
      BY <1>1, <2>1, <2>3, <3>1, <3>2, <3>4
    <3> QED
      BY <3>3, <3>4
  <2>4. ASSUME alg' = "BFS", NEW n \in DOMAIN list' \ Met' PROVE distances'[n] = Breadth!INT_MAX
    <3>1. n \in Names /\ n \in DOMAIN list \ Met /\ n \notin Succ(c)
      BY <1>2, <1>3, <2>4
    <3>2. distances[n] = Breadth!INT_MAX
      BY <1>2, <2>4, <3>1 DEF HInv, Frontier
    <3> QED
      BY <3>1, <3>2 DEF Nearby
  <2> QED
    BY <1>2, <2>2, <2>3, <2>4 DEF Frontier, Breadth!INT_MAX
<1>8. Measured' /\ Breadth!RouteIsShortest'
  BY <1>2 DEF Measured, Breadth!RouteIsShortest, Breadth!PathBuilt
<1> QED
  BY <1>1, <1>5, <1>6, <1>7, <1>8 DEF HInv

(* Where either loops, what was met are start and the neighbours of what    *)
(* was visited.                                                             *)
LEMMA MetInLoop ==
  IInv /\ alg \in {"BFS", "DIJKSTRA"} /\ pc = "loop" =>
    Met = {start} \cup UNION {Succ(n) : n \in Range(visitedNodes)}
<1> SUFFICES ASSUME IInv, alg \in {"BFS", "DIJKSTRA"}, pc = "loop"
             PROVE  Met = {start} \cup UNION {Succ(n) : n \in Range(visitedNodes)}
  OBVIOUS
<1>1. Reported = visitedNodes
  BY DijkstraReports, ReportedIsVisited
<1>2. Expanded = Range(visitedNodes)
  BY <1>1 DEF Expanded
<1> QED
  BY <1>2 DEF IInv, Common, Grown, Searching

(* The neighbours of a node that joins what was visited are met. *)
LEMMA MetAfter ==
  ASSUME IInv, HInv, IInv', alg \in {"BFS", "DIJKSTRA"}, pc = "loop", pc' = "loop",
         NEW c \in Met \ Range(visitedNodes),
         visitedNodes' = Append(visitedNodes, c), UNCHANGED <<alg, list, start>>
  PROVE  Met' = Met \cup Succ(c)
<1>1. (IInv /\ alg \in {"BFS", "DIJKSTRA"} /\ pc = "loop" =>
         Met = {start} \cup UNION {Succ(n) : n \in Range(visitedNodes)})'
  BY MetInLoop, PTL
<1>2. Met' = {start} \cup UNION {Succ(n)' : n \in Range(visitedNodes')}
  BY <1>1
<1>3. Range(visitedNodes') = Range(visitedNodes) \cup {c}
  BY TakenAreFewer
<1>4. \A n : Succ(n)' = Succ(n)
  BY BallStays
<1>5. Met = {start} \cup UNION {Succ(n) : n \in Range(visitedNodes)}
  BY MetInLoop
<1> QED
  BY <1>2, <1>3, <1>4, <1>5

(* bfs takes the head of its queue. *)
LEMMA BfsNearby ==
  ASSUME IInv, HInv, IInv', alg = "BFS", Breadth!Visit, UNCHANGED alg
  PROVE  HInv'
<1> DEFINE c == Head(Queue)
           rest == Tail(Queue)
<1>1. PICK order : VisitColours(order) /\ Queue' = rest \o order
  BY BfsVisits
<1>2. Waiting = Queue /\ pc = "loop" /\ Queue # << >>
  BY <1>1 DEF Waiting, VisitColours
<1>3. Reported = visitedNodes
  BY <1>2, LoopFacts
<1>4. /\ c \in Met \ Range(visitedNodes) /\ c \in Names
      /\ rest \in Seq(Names) /\ Range(rest) = Range(Queue) \ {c}
      /\ Range(Queue) = Met \ Range(visitedNodes)
      /\ White(c) = Succ(c) \ Met /\ White(c) \subseteq Names
  BY <1>2, <1>3, HeadFacts, WaitingIsMet
<1>5. /\ order \in Seq(Names) /\ Range(order) = Succ(c) \ Met
      /\ parent' = [n \in Names |-> IF n \in Succ(c) \ Met THEN c ELSE parent[n]]
      /\ visitedNodes' = Append(visitedNodes, c)
      /\ pc' = "loop" /\ UNCHANGED <<alg, list, start, end, path>>
  <2>1. order \in Seq(Names) /\ Range(order) = White(c)
    BY <1>1, <1>2, WaitingAfter
  <2> QED
    BY <1>1, <1>2, <1>4, <2>1 DEF VisitColours
<1>6. distances' = [n \in Names |-> IF n \in Succ(c) \ Met THEN distances[c] + 1 ELSE distances[n]]
  <2>1. Breadth!White(c) = White(c)
    BY DEF Breadth!White, White
  <2>2. distances' = [n \in Names |-> IF n \in Breadth!White(c) THEN distances[c] + 1 ELSE distances[n]]
    BY DEF Breadth!Visit
  <2> QED
    BY <1>4, <2>1, <2>2
<1>7. Queue \in Seq(Names) /\ Sorted(Queue, InTurn)
  BY <1>2 DEF IInv, Coloured, HInv, Frontier
<1>8. Sorted(rest, InTurn) /\ \A x \in Range(rest) : <<c, x>> \in InTurn
  BY <1>2, <1>7, SortedTail
<1> HIDE DEF c, rest
<1>9. \A y \in Met \ Range(visitedNodes) : distances[c] <= distances[y]
  <2>1. distances[c] \in Nat
    BY <1>2, <1>4, LoopFacts
  <2>2. \A x \in Range(rest) : distances[c] <= distances[x]
    BY <1>8 DEF InTurn
  <2>3. Met \ Range(visitedNodes) \subseteq {c} \cup Range(rest)
    BY <1>4
  <2> QED
    BY <2>1, <2>2, <2>3
<1>10. Met' = Met \cup Succ(c)
  BY <1>2, <1>4, <1>5, MetAfter
<1>11. Nearby(c)
  BY <1>2, <1>4, <1>5, <1>6, <1>9, <1>10 DEF Nearby
<1>12. /\ \A n \in Met : distances'[n] = distances[n]
       /\ \A n \in Met' \ Met : distances'[n] = distances[c] + 1
  BY <1>11, NearbyLevels
<1>13. \A n \in Met : distances[n] \in Nat
  BY <1>2, LoopFacts
<1>14. Range(rest) \subseteq Met \cap Names /\ Range(order) \subseteq (Met' \ Met) \cap Names
  <2>1. Met \subseteq Names /\ Succ(c) \subseteq Names
    BY <1>2, <1>4, LoopFacts DEF Succ
  <2> QED
    BY <1>4, <1>5, <1>10, <2>1
<1>15. Sorted(rest, InTurn')
  <2>1. \A x, y \in Range(rest) : <<x, y>> \in InTurn => <<x, y>> \in InTurn'
    BY <1>12, <1>14 DEF InTurn
  <2> QED
    BY <1>4, <1>8, <2>1, SortedStays
<1>16. Sorted(order, InTurn')
  <2>1. \A x, y \in Range(order) : <<x, y>> \in InTurn'
    BY <1>4, <1>12, <1>13, <1>14 DEF InTurn
  <2>2. \A i \in 1..Len(order) : order[i] \in Range(order)
    BY <1>5 DEF Range
  <2> QED
    BY <2>1, <2>2 DEF Sorted
<1>17. ASSUME NEW x \in Range(rest), NEW y \in Range(order) PROVE <<x, y>> \in InTurn'
  <2>1. distances[c] <= distances[x] /\ distances[x] <= distances[c] + 1
    BY <1>8, <1>17 DEF InTurn
  <2>2. distances[c] \in Nat /\ distances[x] \in Nat
    BY <1>4, <1>13, <1>14
  <2>3. distances'[x] = distances[x] /\ distances'[y] = distances[c] + 1
    BY <1>12, <1>14
  <2> QED
    BY <1>14, <2>1, <2>2, <2>3 DEF InTurn
<1>18. Sorted(rest \o order, InTurn')
  BY <1>4, <1>5, <1>15, <1>16, <1>17, SortedConcat
<1>19. Sorted(Queue, InTurn)'
  BY <1>1, <1>18 DEF Sorted
<1> QED
  BY <1>11, <1>19, NearbyKeeps

(* getMinDistanceNode returns a nearest node of those met and not taken.    *)
LEMMA MinIsNearest ==
  ASSUME IInv, HInv, alg = "DIJKSTRA", pc = "loop", NEW c \in Nearest!getMinDistanceNode \ {Empty}
  PROVE  \A y \in Met \ Range(visitedNodes) : distances[c] <= distances[y]
<1>1. c \in DOMAIN list /\ ~visited[c] /\ distances[c] < Nearest!INT_MAX
  BY DEF Nearest!getMinDistanceNode
<1>2. \A y \in DOMAIN list : ~visited[y] /\ distances[y] < Nearest!INT_MAX => distances[c] <= distances[y]
  BY <1>1 DEF Nearest!getMinDistanceNode
<1>3. Met = {m \in DOMAIN list : distances[m] < Nearest!INT_MAX}
  BY DEF Met
<1>4. \A n \in Names : visited[n] <=> n \in Range(visitedNodes)
  BY DEF IInv, Settling
<1>5. DOMAIN list \subseteq Names
  BY LoopFacts
<1> QED
  BY <1>2, <1>3, <1>4, <1>5

(* dijkstra takes what getMinDistanceNode returns: what it brings nearer    *)
(* was not met, because what was met is at most one hop further than what   *)
(* was taken.                                                               *)
LEMMA DijkstraNearby ==
  ASSUME IInv, HInv, IInv', alg = "DIJKSTRA", Nearest!Visit, UNCHANGED alg
  PROVE  HInv'
<1>1. PICK c \in Nearest!getMinDistanceNode \ {Empty} :
        /\ visited' = [visited EXCEPT ![c] = TRUE]
        /\ visitedNodes' = Append(visitedNodes, c)
        /\ distances' = [m \in Names |-> IF m \in Nearest!Nearer(c) THEN distances[c] + 1 ELSE distances[m]]
        /\ parent' = [m \in Names |-> IF m \in Nearest!Nearer(c) THEN c ELSE parent[m]]
  BY DEF Nearest!Visit
<1>2. pc = "loop" /\ pc' = "loop" /\ UNCHANGED <<alg, list, start, end, path>>
  BY DEF Nearest!Visit, Nearest!inputs
<1>3. /\ Reported = visitedNodes /\ Met \subseteq DOMAIN list /\ DOMAIN list \subseteq Names
      /\ start \in Met /\ Range(visitedNodes) \subseteq Met
      /\ \A n \in Met \ {start} : parent[n] \in Range(visitedNodes)
      /\ \A n \in Met : distances[n] \in Nat
      /\ distances \in [Names -> 0..Breadth!INT_MAX]
      /\ Cardinality(DOMAIN list) < Breadth!INT_MAX /\ Cardinality(DOMAIN list) \in Nat
  BY <1>2, LoopFacts
<1>4. /\ c \in Met \ Range(visitedNodes) /\ c \in DOMAIN list
      /\ \A n \in Names : visited[n] <=> n \in Range(visitedNodes)
      /\ \A n \in Names \ DOMAIN list : distances[n] = 0
      /\ list \in [DOMAIN list -> SUBSET Names]
  <2>1. c \in Met \ Range(visitedNodes) /\ c \in DOMAIN list
    BY <1>2, <1>3, MinIsMet
  <2>2. Known = Names
    BY DEF Known
  <2> QED
    BY <1>2, <2>1, <2>2, InputFacts DEF IInv, Common, Settling
<1>5. Met = {m \in DOMAIN list : distances[m] < Nearest!INT_MAX}
  BY DEF Met
<1>6. \A y \in Met \ Range(visitedNodes) : distances[c] <= distances[y]
  BY <1>2, MinIsNearest
<1>7. Nearest!Nearer(c) = Succ(c) \ Met
  <2>1. Nearest!Nearer(c) = {n \in list[c] \ {c} : ~visited[n] /\ distances[c] + 1 < distances[n]}
    BY DEF Nearest!Nearer
  <2>2. distances[c] \in Nat /\ list[c] \subseteq Names /\ Succ(c) = list[c] \cap DOMAIN list
    BY <1>3, <1>4 DEF Succ
  <2>3. distances[c] + 1 < Nearest!INT_MAX
    <3>1. distances[c] <= Len(visitedNodes) /\ Len(visitedNodes) \in Nat
      BY <1>2, <1>4, LoopFacts DEF HInv, Frontier
    <3>2. Len(visitedNodes) + 1 <= Cardinality(DOMAIN list)
      BY <1>2, <1>4, TakenAreFewer
    <3> QED
      BY <1>3, <2>2, <3>1, <3>2, OneLimit
  <2>4. ASSUME NEW n \in list[c] \ {c}, ~visited[n], distances[c] + 1 < distances[n]
        PROVE  n \in Succ(c) \ Met
    <3>1. n \in Names /\ distances[n] # 0
      BY <2>2, <2>4
    <3>2. n \in DOMAIN list
      BY <1>4, <3>1
    <3>3. ASSUME n \in Met PROVE FALSE
      <4>1. n # start
        BY <1>2, <3>1 DEF HInv, Layers
      <4>2. distances[n] = distances[parent[n]] + 1
        BY <1>2, <3>3, <4>1 DEF HInv, Layers
      <4>3. parent[n] \in Range(visitedNodes)
        BY <1>3, <3>3, <4>1
      <4>4. distances[parent[n]] <= distances[c] /\ distances[parent[n]] \in Nat
        BY <1>2, <1>3, <1>4, <4>3 DEF HInv, Frontier
      <4> QED
        BY <2>2, <2>4, <4>2, <4>4
    <3> QED
      BY <2>2, <2>4, <3>2, <3>3
  <2>5. ASSUME NEW n \in Succ(c) \ Met
        PROVE  n \in list[c] \ {c} /\ ~visited[n] /\ distances[c] + 1 < distances[n]
    <3>1. n \in list[c] /\ n \in DOMAIN list /\ n \in Names /\ n # c
      BY <1>3, <1>4, <2>2, <2>5
    <3>2. ~visited[n]
      BY <1>3, <1>4, <2>5, <3>1
    <3>3. distances[n] \in 0..Breadth!INT_MAX /\ ~(distances[n] < Nearest!INT_MAX)
      BY <1>3, <1>5, <2>5, <3>1
    <3> QED
      BY <2>2, <2>3, <3>1, <3>2, <3>3, OneLimit
  <2> QED
    BY <2>1, <2>4, <2>5
<1>8. Met' = Met \cup Succ(c)
  BY <1>1, <1>2, <1>4, MetAfter
<1>9. Nearby(c)
  BY <1>1, <1>2, <1>4, <1>6, <1>7, <1>8 DEF Nearby
<1> QED
  BY <1>1, <1>9, NearbyKeeps

(* Either passes its guards. *)
LEMMA HopsBegin ==
  ASSUME IInv, HInv, IInv', alg \in {"BFS", "DIJKSTRA"}, pc = "call", pc' = "loop",
         distances' = [n \in Names |-> IF n \in DOMAIN list \ {start} THEN Breadth!INT_MAX ELSE 0],
         alg = "BFS" => Queue' = <<start>>,
         alg = "DIJKSTRA" => visited' = visited,
         UNCHANGED <<alg, list, start, end, path, visitedNodes>>
  PROVE  HInv'
<1>1. visitedNodes' = << >> /\ Range(<< >>) = {} /\ Len(<< >>) = 0 /\ path' = << >>
  BY DEF IInv, Common, Fresh, NoPathYet, Range
<1>2. Met' = {start}
  <2>1. (IInv /\ alg \in {"BFS", "DIJKSTRA"} /\ pc = "loop" =>
           Met = {start} \cup UNION {Succ(n) : n \in Range(visitedNodes)})'
    BY MetInLoop, PTL
  <2> QED
    BY <1>1, <2>1
<1>3. start \in DOMAIN list /\ DOMAIN list \subseteq Names /\ IsFiniteSet(DOMAIN list)
  <2>1. Known = Names
    BY DEF Known
  <2>2. start \in Met'
    BY <1>2
  <2>3. Met' \subseteq DOMAIN list
    BY DEF Met
  <2> QED
    BY <2>1, <2>2, <2>3, InputFacts DEF IInv, Common
<1>4. distances' \in [Names -> 0..Breadth!INT_MAX] /\ distances'[start] = 0
  BY <1>3, OneLimit
<1>5. Level(start)'
  <2>1. Ball' = Ball /\ Ball[0] = {start} /\ Cardinality(DOMAIN list) \in Nat
    BY <1>3, BallStays, BallGrows, FS_CardinalityType
  <2> QED
    BY <1>4, <2>1 DEF Level
<1>6. Visits'
  <2>1. alg = "DIJKSTRA" => \A n \in Names : ~visited[n]
    BY DEF IInv, Settling
  <2> QED
    BY <1>1, <2>1 DEF Visits
<1>7. Layers'
  BY <1>2, <1>4, <1>5 DEF Layers
<1>8. Frontier'
  <2>1. alg = "BFS" => Sorted(Queue, InTurn)'
    <3>1. Len(<<start>>) = 1
      OBVIOUS
    <3> QED
      BY <3>1 DEF Sorted
  <2>2. \A n \in DOMAIN list' \ Met' : distances'[n] = Breadth!INT_MAX
    BY <1>2, <1>3
  <2>3. \A n \in Met' : distances'[n] <= Len(visitedNodes')
    BY <1>1, <1>2, <1>4
  <2> QED
    BY <1>1, <2>1, <2>2, <2>3 DEF Frontier
<1>9. Measured' /\ Breadth!RouteIsShortest'
  BY <1>1 DEF Measured, Breadth!RouteIsShortest, Breadth!PathBuilt
<1> QED
  BY <1>4, <1>6, <1>7, <1>8, <1>9 DEF HInv

(* The whole path has as many hops as the end is away. *)
LEMMA BuiltIsShortest ==
  IInv /\ alg \in {"BFS", "DIJKSTRA"} /\ pc = "build" /\ Layers /\ Measured => Breadth!RouteIsShortest
<1> SUFFICES ASSUME IInv, alg \in {"BFS", "DIJKSTRA"}, pc = "build", Layers, Measured, Breadth!PathBuilt
             PROVE  Len(path) - 1 = Breadth!Hops(end)
  BY DEF Breadth!RouteIsShortest
<1>1. path # << >> /\ path[1] = start
  BY PathIsWhole DEF IInv, Common, Whole, Breadth!PathBuilt
<1>2. end \in Met /\ Len(path) \in Nat /\ IsFiniteSet(DOMAIN list)
  BY InputFacts DEF IInv, Common, Typed, Traced
<1>3. distances[start] = 0 /\ Level(end)
  BY <1>2 DEF Layers
<1>4. Breadth!Hops(end) = distances[end]
  BY <1>2, <1>3, LevelIsHops
<1>5. distances[path[1]] + Len(path) - 1 = distances[end]
  BY <1>1 DEF Measured
<1> QED
  BY <1>1, <1>2, <1>3, <1>4, <1>5

(* The true number of hops to the end does not change. *)
LEMMA HopsStay ==
  list' = list /\ start' = start /\ end' = end => Breadth!Hops(end)' = Breadth!Hops(end)
BY DEF Breadth!Hops, Breadth!Ball, Breadth!Successors

(* A predecessor joins the path. *)
LEMMA HopsBuild ==
  ASSUME IInv, HInv, IInv', alg \in {"BFS", "DIJKSTRA"}, Breadth!PrependToPath(parent),
         UNCHANGED <<alg, colors, distances, visited, parent, Queue>>
  PROVE  HInv'
<1>1. /\ pc = "build" /\ pc' = "build" /\ tmp # Empty
      /\ path' = <<tmp>> \o path /\ tmp' = parent[tmp]
      /\ UNCHANGED <<visitedNodes, list, start, end>>
  BY DEF Breadth!PrependToPath, Breadth!inputs
<1>2. Met' = Met /\ Ball' = Ball
  BY <1>1, BallStays DEF Met
<1>3. Visits' /\ Layers' /\ Frontier'
  BY <1>1, <1>2 DEF HInv, Visits, Layers, Frontier, Level
<1>4. Measured'
  <2>1. tmp \in Names /\ path \in Seq(Names)
    BY <1>1 DEF IInv, Common, Typed, Known
  <2>2. Len(path') = Len(path) + 1 /\ path'[1] = tmp /\ Len(path) \in Nat
    <3>1. /\ <<tmp>> \in Seq(Names) /\ Len(<<tmp>>) = 1 /\ <<tmp>>[1] = tmp
      BY <2>1
    <3> QED
      BY <1>1, <2>1, <3>1
  <2>3. end \in Met /\ Range(path) \subseteq Range(Trail)
    BY <1>1 DEF IInv, Common, Traced
  <2>4. Range(Trail) = Range(Reported) \cup {end} /\ Range(Reported) \subseteq Met
    BY <1>1, <2>3, TrailFacts DEF IInv, Common, Grown, Searching
  <2>5. \A n \in Met : distances[n] \in 0..Cardinality(DOMAIN list)
    BY <1>1 DEF HInv, Layers, Level
  <2>6. Cardinality(DOMAIN list) \in Nat
    BY InputFacts, FS_CardinalityType DEF IInv, Common
  <2>7. CASE path = << >>
    <3>1. tmp = end /\ distances[end] \in Nat
      BY <1>1, <2>3, <2>5, <2>6, <2>7 DEF IInv, Common, Traced
    <3>2. Len(path) = 0
      BY <2>7
    <3> QED
      BY <1>1, <2>2, <3>1, <3>2 DEF Measured
  <2>8. CASE path # << >>
    <3>1. path[1] \in Met
      <4>1. path[1] \in Range(path)
        BY <2>1, <2>8 DEF Range
      <4> QED
        BY <2>3, <2>4, <4>1
    <3>2. tmp = parent[path[1]] /\ path[1] # start
      BY <1>1, <2>8 DEF IInv, Common, Traced, Grown, Searching
    <3>3. distances[path[1]] = distances[tmp] + 1
      BY <1>1, <3>1, <3>2 DEF HInv, Layers
    <3>4. tmp \in Range(Reported)
      BY <1>1, <3>1, <3>2 DEF IInv, Common, Grown, Searching
    <3>5. distances[path[1]] \in Nat /\ distances[tmp] \in Nat /\ distances[end] \in Nat
      BY <2>3, <2>4, <2>5, <2>6, <3>1, <3>4
    <3>6. distances[path[1]] + Len(path) - 1 = distances[end]
      BY <1>1, <2>8 DEF HInv, Measured
    <3>7. distances[tmp] + Len(path') - 1 = distances[end]
      BY <2>2, <3>3, <3>5, <3>6
    <3> QED
      BY <1>1, <2>2, <3>7 DEF Measured
  <2> QED
    BY <2>7, <2>8
<1>5. Breadth!RouteIsShortest'
  <2>1. (IInv /\ alg \in {"BFS", "DIJKSTRA"} /\ pc = "build" /\ Layers /\ Measured => Breadth!RouteIsShortest)'
    BY BuiltIsShortest, PTL
  <2> QED
    BY <1>1, <1>3, <1>4, <2>1
<1> QED
  BY <1>3, <1>4, <1>5 DEF HInv

(* The end is taken. *)
LEMMA HopsFound ==
  ASSUME IInv, HInv, alg \in {"BFS", "DIJKSTRA"}, pc = "loop", pc' = "build", Visits',
         UNCHANGED <<alg, list, start, end, path, colors, distances, parent>>
  PROVE  HInv'
<1>1. Met' = Met /\ Ball' = Ball /\ path = << >>
  BY BallStays DEF Met, IInv, Common, NoPathYet
<1>2. Layers' /\ Frontier' /\ Measured' /\ Breadth!RouteIsShortest'
  BY <1>1 DEF HInv, Layers, Frontier, Level, Measured, Breadth!RouteIsShortest, Breadth!PathBuilt
<1> QED
  BY <1>2 DEF HInv

(* The other steps leave the distances and the path alone. *)
LEMMA HopsPass ==
  ASSUME IInv, HInv, alg \in {"BFS", "DIJKSTRA"},
         pc' = pc \/ (pc \in {"call", "loop", "build"} /\ pc' = "done"),
         UNCHANGED <<alg, list, start, end, tmp, path, visitedNodes, colors, distances, visited,
                     parent, Queue>>
  PROVE  HInv'
<1>1. Met' = Met /\ Ball' = Ball
  BY BallStays DEF Met
<1>2. Visits'
  BY <1>1 DEF HInv, Visits, Level
<1>3. Layers' /\ Frontier' /\ Measured'
  BY <1>1 DEF HInv, Layers, Frontier, Level, Measured, InTurn, Sorted
<1>4. Breadth!RouteIsShortest'
  <2>1. Breadth!Hops(end)' = Breadth!Hops(end)
    BY HopsStay
  <2>2. pc \in {"call", "loop"} => path = << >>
    BY DEF IInv, Common, NoPathYet
  <2> QED
    BY <2>1, <2>2 DEF HInv, Breadth!RouteIsShortest, Breadth!PathBuilt
<1> QED
  BY <1>2, <1>3, <1>4 DEF HInv

(* bfs keeps the invariant. *)
LEMMA BfsHops ==
  ASSUME IInv, HInv, IInv', alg = "BFS", Breadth!Step, UNCHANGED <<alg, visited>>
  PROVE  HInv'
<1>1. CASE Breadth!Begin
  <2>1. /\ pc = "call" /\ pc' = "loop" /\ Queue' = <<start>>
        /\ distances' = [n \in Names |-> IF n \in DOMAIN list \ {start} THEN Breadth!INT_MAX ELSE 0]
        /\ UNCHANGED <<list, start, end, path, visitedNodes>>
    BY <1>1 DEF Breadth!Begin, Breadth!inputs
  <2> QED
    BY <2>1, HopsBegin
<1>2. CASE Breadth!Visit
  BY <1>2, BfsNearby
<1>3. CASE Breadth!Found
  <2>1. /\ pc = "loop" /\ pc' = "build"
        /\ UNCHANGED <<list, start, end, path, colors, distances, parent, visitedNodes>>
    BY <1>3 DEF Breadth!Found, Breadth!ConfirmPath, Breadth!inputs
  <2>2. Visits'
    BY <2>1, BallStays DEF HInv, Visits, Level
  <2> QED
    BY <2>1, <2>2, HopsFound
<1>4. CASE Breadth!BuildPath
  BY <1>4, HopsBuild DEF Breadth!BuildPath, Breadth!searchVars
<1>5. CASE Breadth!Refuse \/ Breadth!ShowPath \/ Breadth!LeaveFound \/ Breadth!LeaveExhausted
  <2>1. /\ pc' = pc \/ (pc \in {"call", "loop", "build"} /\ pc' = "done")
        /\ UNCHANGED <<list, start, end, tmp, path, visitedNodes, colors, distances, parent, Queue>>
    BY <1>5 DEF Breadth!Refuse, Breadth!ShowPath, Breadth!LeaveFound, Breadth!LeaveExhausted,
      Breadth!Return, Breadth!ShowNextInner, Breadth!LeaveAfterPath, Breadth!searchVars, Breadth!inputs
  <2> QED
    BY <2>1, HopsPass
<1> QED
  BY <1>1, <1>2, <1>3, <1>4, <1>5 DEF Breadth!Step

(* dijkstra keeps the invariant. *)
LEMMA DijkstraHops ==
  ASSUME IInv, HInv, IInv', alg = "DIJKSTRA", Nearest!Step, UNCHANGED <<alg, colors, Queue>>
  PROVE  HInv'
<1> USE DEF Nearest!inputs, Nearest!Return, Nearest!searchVars
<1>1. CASE Nearest!Begin
  <2>1. /\ pc = "call" /\ pc' = "loop" /\ visited' = visited
        /\ distances' = [n \in Names |-> IF n \in DOMAIN list \ {start} THEN Nearest!INT_MAX ELSE 0]
        /\ UNCHANGED <<list, start, end, path, visitedNodes>>
    BY <1>1 DEF Nearest!Begin
  <2>2. distances' = [n \in Names |-> IF n \in DOMAIN list \ {start} THEN Breadth!INT_MAX ELSE 0]
    BY <2>1, OneLimit
  <2> QED
    BY <2>1, <2>2, HopsBegin
<1>2. CASE Nearest!Visit
  BY <1>2, DijkstraNearby
<1>3. CASE Nearest!Found
  <2>1. /\ pc = "loop" /\ pc' = "build" /\ end \in Nearest!getMinDistanceNode \ {Empty}
        /\ visited' = [visited EXCEPT ![end] = TRUE]
        /\ visitedNodes' = Append(visitedNodes, end)
        /\ UNCHANGED <<list, start, end, path, distances, parent>>
    BY <1>3 DEF Nearest!Found, Nearest!IsEnd, Nearest!ConfirmPath
  <2>2. end \in Met \ Range(visitedNodes)
    BY <2>1, MinIsMet, LoopFacts
  <2>3. \A y \in Met \ Range(visitedNodes) : distances[end] <= distances[y]
    BY <2>1, MinIsNearest
  <2>4. \A n \in Met : distances'[n] = distances[n] /\ Level(n)'
    BY <2>1, BallStays DEF HInv, Layers, Level
  <2>5. Visits'
    BY <2>1, <2>2, <2>3, <2>4, VisitsGrow
  <2> QED
    BY <2>1, <2>5, HopsFound
<1>4. CASE Nearest!BuildPath
  BY <1>4, HopsBuild DEF Nearest!BuildPath, Nearest!PrependToPath, Breadth!PrependToPath, Breadth!inputs
<1>5. CASE Nearest!Refuse \/ Nearest!ShowPath \/ Nearest!LeaveFound \/ Nearest!LeaveExhausted
  <2>1. /\ pc' = pc \/ (pc \in {"call", "loop", "build"} /\ pc' = "done")
        /\ UNCHANGED <<list, start, end, tmp, path, visitedNodes, distances, visited, parent>>
    BY <1>5 DEF Nearest!Refuse, Nearest!ShowPath, Nearest!LeaveFound, Nearest!LeaveExhausted,
      Nearest!ShowNextInner, Nearest!LeaveAfterPath
  <2> QED
    BY <2>1, HopsPass
<1> QED
  BY <1>1, <1>2, <1>3, <1>4, <1>5 DEF Nearest!Step

(* Every step keeps the invariant. *)
LEMMA StepHops ==
  IInv /\ HInv /\ [Next]_vars => HInv'
<1> SUFFICES ASSUME IInv, HInv, [Next]_vars, alg' \in {"BFS", "DIJKSTRA"} PROVE HInv'
  BY DEF HInv
<1>1. IInv' /\ alg' = alg
  BY StepKeeps DEF Next, Step, HangUp, vars, common
<1>2. CASE Step
  BY <1>1, <1>2, BfsHops, DijkstraHops DEF Step
<1>3. CASE HangUp \/ UNCHANGED vars
  <2>1. UNCHANGED <<alg, list, start, end, pc, tmp, path, visitedNodes, colors, distances, visited,
                    parent, Queue>>
    BY <1>3 DEF HangUp, Breadth!SessionEnds, Breadth!inputs, vars, common
  <2> QED
    BY <1>1, <2>1, HopsPass
<1> QED
  BY <1>2, <1>3 DEF Next

(* The call, as it is made. *)
LEMMA InitHops == EmptyIsNoName /\ Init => HInv
<1> SUFFICES ASSUME EmptyIsNoName, Init, alg \in {"BFS", "DIJKSTRA"} PROVE HInv
  BY DEF HInv
<1>1. pc = "call" /\ visitedNodes = << >> /\ path = << >> /\ Range(<< >>) = {}
  BY InitCall DEF Range
<1>2. distances = [n \in Names |-> 0]
  BY DEF Init, Breadth!Init, Nearest!Init
<1>3. distances \in [Names -> 0..Breadth!INT_MAX]
  BY <1>2, OneLimit
<1>4. alg = "DIJKSTRA" => \A n \in Names : ~visited[n]
  BY DEF Init, Nearest!Init
<1>5. Visits
  BY <1>1, <1>4 DEF Visits
<1> QED
  BY <1>1, <1>3, <1>5 DEF HInv, Layers, Frontier, Measured, Breadth!RouteIsShortest, Breadth!PathBuilt

(* The distances are right throughout. *)
LEMMA HopsInvariant == EmptyIsNoName => (Spec => [](IInv /\ HInv))
<1>1. EmptyIsNoName /\ Spec => []HInv
  BY InitHops, StepHops, Invariant, PTL DEF Spec
<1> QED
  BY <1>1, Invariant, PTL

(* The path shown by bfs and dijkstra has the fewest hops a path from start *)
(* to end can have, and both visit nearest first.                           *)
THEOREM RoutesAreShortest == EmptyIsNoName => (Spec => []RouteIsShortest)
<1>1. IInv /\ HInv => RouteIsShortest
  <2> SUFFICES ASSUME IInv, HInv, alg \in {"BFS", "DIJKSTRA"}
               PROVE  Breadth!RouteIsShortest /\ Breadth!NearestFirst
    BY DEF RouteIsShortest
  <2>1. IsFiniteSet(DOMAIN list)
    BY InputFacts DEF IInv, Common
  <2>2. \A i \in 1..Len(visitedNodes) : visitedNodes[i] \in Range(visitedNodes)
    <3>1. visitedNodes \in Seq(Known)
      BY DEF IInv, Common, Typed
    <3> QED
      BY <3>1 DEF Range
  <2>3. \A i \in 1..Len(visitedNodes) : Breadth!Hops(visitedNodes[i]) = distances[visitedNodes[i]]
    BY <2>1, <2>2, LevelIsHops DEF HInv, Visits
  <2>4. Breadth!NearestFirst
    BY <2>3 DEF HInv, Visits, Breadth!NearestFirst
  <2> QED
    BY <2>4 DEF HInv
<1> QED
  BY <1>1, HopsInvariant, PTL

(* The queue of bfs holds exactly the grey nodes, once each, nearest first  *)
(* and never more than one hop apart; every distance set is a true number   *)
(* of hops.                                                                 *)
THEOREM QueueHoldsFrontier == EmptyIsNoName => (Spec => []QueueIsFrontier)
<1>1. IInv /\ HInv => QueueIsFrontier
  <2> SUFFICES ASSUME IInv, HInv, alg = "BFS", pc = "loop"
               PROVE  Breadth!QueueIsFrontier /\ Breadth!DistancesAreHops
    BY DEF QueueIsFrontier, Breadth!QueueIsFrontier, Breadth!DistancesAreHops
  <2>1. Queue \in Seq(Names) /\ Range(Queue) = {n \in Names : colors[n] = "gris"} /\ Distinct(Queue)
    BY DEF IInv, Coloured, Waiting
  <2>2. Sorted(Queue, InTurn)
    BY DEF HInv, Frontier
  <2>3. ASSUME NEW i \in 1..Len(Queue), NEW j \in 1..Len(Queue), i < j
        PROVE  /\ Queue[i] # Queue[j]
               /\ distances[Queue[i]] <= distances[Queue[j]]
               /\ distances[Queue[j]] <= distances[Queue[i]] + 1
    <3>1. Queue[i] # Queue[j]
      BY <2>1, <2>3 DEF Distinct
    <3>2. <<Queue[i], Queue[j]>> \in InTurn
      BY <2>2, <2>3 DEF Sorted
    <3> QED
      BY <3>1, <3>2 DEF InTurn
  <2>4. Breadth!QueueIsFrontier
    BY <2>1, <2>3 DEF Breadth!QueueIsFrontier, Breadth!Range, Range
  <2>5. ASSUME NEW n \in DOMAIN list
        PROVE  IF colors[n] = "blanc" THEN distances[n] = Breadth!INT_MAX
               ELSE Breadth!Reached(n) /\ distances[n] = Breadth!Hops(n)
    <3>1. colors[n] = "blanc" <=> n \notin Met
      BY WaitingIsMet
    <3>2. CASE n \in Met
      <4>1. Level(n) /\ IsFiniteSet(DOMAIN list)
        BY <3>2, LoopFacts DEF HInv, Layers
      <4> QED
        BY <3>1, <3>2, <4>1, LevelIsHops
    <3>3. CASE n \notin Met
      BY <3>1, <3>3 DEF HInv, Frontier
    <3> QED
      BY <3>2, <3>3
  <2>6. Breadth!DistancesAreHops
    BY <2>5 DEF Breadth!DistancesAreHops
  <2> QED
    BY <2>4, <2>6
<1> QED
  BY <1>1, HopsInvariant, PTL

(* The distance with which dijkstra takes a node is its true number of      *)
(* hops, and following the predecessors leads to start through taken nodes, *)
(* one hop nearer each time.                                                *)
THEOREM TakenAreSettled == EmptyIsNoName => (Spec => []TakenIsSettled)
<1>1. IInv /\ HInv => TakenIsSettled
  <2> SUFFICES ASSUME IInv, HInv, alg = "DIJKSTRA"
               PROVE  Nearest!TakenIsSettled /\ Nearest!PreviousIsNearer
    BY DEF TakenIsSettled
  <2>1. IsFiniteSet(DOMAIN list) /\ DOMAIN list \subseteq Names
    BY InputFacts DEF IInv, Common, Known
  <2>2. ASSUME NEW n \in DOMAIN list, visited[n]
        PROVE  Nearest!Reached(n) /\ distances[n] = Nearest!Hops(n)
    <3>1. Level(n)
      BY <2>1, <2>2 DEF HInv, Visits
    <3> QED
      BY <2>1, <3>1, LevelIsHops
  <2>3. Nearest!TakenIsSettled
    BY <2>2 DEF Nearest!TakenIsSettled
  <2>4. ASSUME pc = "loop", NEW n \in DOMAIN list \ {start}, distances[n] < Nearest!INT_MAX
        PROVE  /\ visited[parent[n]]
               /\ n \in Nearest!Successors(parent[n])
               /\ distances[n] = distances[parent[n]] + 1
    <3>1. n \in Met \ {start} /\ Reported = visitedNodes
      BY <2>4, LoopFacts DEF Met
    <3>2. parent[n] \in Range(visitedNodes) /\ n \in Succ(parent[n])
      BY <2>4, <3>1 DEF IInv, Common, Grown, Searching
    <3>3. parent[n] \in Names /\ visited[parent[n]]
      BY <2>1, <2>4, <3>2, LoopFacts DEF IInv, Settling
    <3>4. distances[n] = distances[parent[n]] + 1
      BY <2>4, <3>1 DEF HInv, Layers
    <3> QED
      BY <3>2, <3>3, <3>4 DEF Nearest!Successors, Succ
  <2>5. Nearest!PreviousIsNearer
    BY <2>4 DEF Nearest!PreviousIsNearer
  <2> QED
    BY <2>3, <2>5
<1> QED
  BY <1>1, HopsInvariant, PTL

(* Every variable of the member that is called has its type; in bfs and     *)
(* dijkstra no distance overflows an int.                                   *)
THEOREM LocalsAreTyped == EmptyIsNoName => (Spec => []TypeOK)
<1>1. IInv /\ HInv => TypeOK
  <2> SUFFICES ASSUME IInv, HInv PROVE TypeOK
    OBVIOUS
  <2>1. CASE alg = "BFS"
    <3>1. Breadth!TraversalTypeOK /\ parent \in [Names -> Names \cup {Empty}]
      BY <2>1 DEF IInv, Common, Typed, Known, Breadth!TraversalTypeOK, Breadth!Message
    <3>2. colors \in [Names -> Breadth!Colors] /\ Queue \in Seq(Names)
      BY <2>1 DEF IInv, Coloured, Waiting
    <3>3. distances \in [Names -> 0..Breadth!INT_MAX]
      BY <2>1 DEF HInv
    <3> QED
      BY <2>1, <3>1, <3>2, <3>3 DEF TypeOK, Breadth!TypeOK
  <2>2. CASE alg = "DIJKSTRA"
    <3>1. Nearest!TraversalTypeOK /\ parent \in [Names -> Names \cup {Empty}]
      BY <2>2 DEF IInv, Common, Typed, Known, Nearest!TraversalTypeOK, Nearest!Message,
        Nearest!Control, Breadth!Control, Nearest!MessageKind, Breadth!MessageKind
    <3>2. distances \in [Names -> 0..Nearest!INT_MAX] /\ visited \in [Names -> BOOLEAN]
      BY <2>2 DEF IInv, Settling
    <3> QED
      BY <2>2, <3>1, <3>2 DEF TypeOK, Nearest!TypeOK
  <2>3. CASE alg = "DFS"
    <3>1. Depth!TraversalTypeOK /\ parent \in [Names -> Names \cup {Empty}]
      BY <2>3 DEF IInv, Common, Typed, Known, Depth!TraversalTypeOK, Depth!Message,
        Depth!Control, Breadth!Control, Depth!MessageKind, Breadth!MessageKind
    <3>2. colors \in [Names -> Depth!Colors] /\ Stack \in Seq(Names)
      BY <2>3 DEF IInv, Coloured, Waiting, Depth!Colors, Breadth!Colors
    <3> QED
      BY <2>3, <3>1, <3>2 DEF TypeOK, Depth!TypeOK
  <2>4. CASE alg = "A_STAR"
    <3> DEFINE N == DOMAIN Numbers
    <3>1. Best!TraversalTypeOK /\ parent \in [N -> N \cup {Empty}] /\ Known = N
      BY <2>4 DEF IInv, Common, Typed, Known, Best!TraversalTypeOK, Best!Message,
        Best!Control, Breadth!Control, Best!MessageKind, Breadth!MessageKind
    <3>2. /\ g_score \in [N -> {0, Best!Infinity}] /\ f_score \in [N -> 0..Best!Infinity]
          /\ current \in N \cup {Empty} /\ open_set_lookup \subseteq N
          /\ open_set = [n \in N |-> IF n \in open_set_lookup THEN 1 ELSE 0]
      BY <2>4, <3>1 DEF IInv, Heaped
    <3> HIDE DEF N
    <3>3. g_score \in [N -> 0..Best!Infinity] /\ open_set \in [N -> Nat]
      BY <3>2, Limits
    <3>4. Best!TypeOK
      BY <3>1, <3>2, <3>3 DEF Best!TypeOK, N
    <3> QED
      BY <2>4, <3>4 DEF TypeOK
  <2>5. alg \in {"BFS", "DIJKSTRA", "DFS", "A_STAR"}
    BY DEF IInv, Common, Typed
  <2> QED
    BY <2>1, <2>2, <2>3, <2>4, <2>5
<1> QED
  BY <1>1, HopsInvariant, PTL
================================================================================
