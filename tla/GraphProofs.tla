----------------------------- MODULE GraphProofs -----------------------------
(***************************************************************************)
(* What class Graph keeps true of its list, proved for every set of nodes, *)
(* weights and uploads and for any number of edges.                        *)
(***************************************************************************)
EXTENDS Graph, RangeLemmas

Pairs == Nodes \X Int

IInv == GraphTypeOK /\ BuiltIsClosed /\ BuiltIsSymmetric

(* A list as the code may hold it. *)
Listing(l) == DOMAIN l \subseteq Nodes /\ \A n \in DOMAIN l : l[n] \in Seq(Pairs)

(* The pairs under n, none if n is no key. *)
Under(l, n) == IF n \in DOMAIN l THEN Range(l[n]) ELSE {}

(* operator[] makes a key and no pair. *)
LEMMA TouchEffect ==
  ASSUME NEW l, Listing(l), NEW n \in Nodes
  PROVE  /\ Listing(Touch(l, n))
         /\ DOMAIN Touch(l, n) = DOMAIN l \cup {n}
         /\ \A k : Under(Touch(l, n), k) = Under(l, k)
<1>1. DOMAIN Touch(l, n) = DOMAIN l \cup {n}
  BY DEF Touch
<1>2. \A k \in DOMAIN l \cup {n} : Touch(l, n)[k] = IF k \in DOMAIN l THEN l[k] ELSE << >>
  BY DEF Touch
<1>3. << >> \in Seq(Pairs) /\ Range(<< >>) = {}
  BY DEF Range
<1>4. Listing(Touch(l, n))
  BY <1>1, <1>2, <1>3 DEF Listing
<1>5. \A k : Under(Touch(l, n), k) = Under(l, k)
  BY <1>1, <1>2, <1>3 DEF Under
<1> QED
  BY <1>1, <1>4, <1>5

(* push_back adds one pair under one key. *)
LEMMA PushEffect ==
  ASSUME NEW l, Listing(l), NEW n \in Nodes, NEW pair \in Pairs
  PROVE  /\ Listing(Push(l, n, pair))
         /\ DOMAIN Push(l, n, pair) = DOMAIN l \cup {n}
         /\ \A k : Under(Push(l, n, pair), k) = Under(l, k) \cup (IF k = n THEN {pair} ELSE {})
<1> DEFINE t == Touch(l, n)
           p == Push(l, n, pair)
<1>1. Listing(t) /\ DOMAIN t = DOMAIN l \cup {n} /\ \A k : Under(t, k) = Under(l, k)
  BY TouchEffect
<1>2. /\ DOMAIN p = DOMAIN t
      /\ p[n] = Append(t[n], pair)
      /\ \A k \in DOMAIN t \ {n} : p[k] = t[k]
  BY <1>1 DEF Push
<1>3. t[n] \in Seq(Pairs)
  BY <1>1 DEF Listing
<1>4. p[n] \in Seq(Pairs) /\ Range(p[n]) = Range(t[n]) \cup {pair}
  BY <1>2, <1>3, RangeOfAppend
<1> HIDE DEF t, p
<1>5. Listing(p)
  BY <1>1, <1>2, <1>4 DEF Listing
<1>6. \A k : Under(p, k) = Under(t, k) \cup (IF k = n THEN {pair} ELSE {})
  BY <1>1, <1>2, <1>4 DEF Under
<1>7. Listing(p) /\ DOMAIN p = DOMAIN l \cup {n}
        /\ \A k : Under(p, k) = Under(l, k) \cup (IF k = n THEN {pair} ELSE {})
  BY <1>1, <1>2, <1>5, <1>6
<1> QED
  BY <1>7 DEF p

(* An edge is added at its start and, undirected, at its end. *)
LEMMA WithEdgeEffect ==
  ASSUME Listing(list), NEW start \in Nodes, NEW end \in Nodes, NEW weight \in Int
  PROVE  LET l == WithEdge(start, end, weight)
         IN  /\ Listing(l)
             /\ DOMAIN l = DOMAIN list \cup {start, end}
             /\ \A k : Under(l, k) =
                  Under(list, k)
                    \cup (IF k = start THEN {<<end, weight>>} ELSE {})
                    \cup (IF k = end /\ ~isDerected THEN {<<start, weight>>} ELSE {})
<1> DEFINE there == <<end, weight>>
           back == <<start, weight>>
           first == Push(list, start, there)
           oneWay == Touch(first, end)
           both == Push(oneWay, end, back)
<1>1. there \in Pairs /\ back \in Pairs
  BY DEF Pairs
<1>2. WithEdge(start, end, weight) = IF isDerected THEN oneWay ELSE both
  BY DEF WithEdge
<1> HIDE DEF there, back
<1>3. /\ Listing(first) /\ DOMAIN first = DOMAIN list \cup {start}
      /\ \A k : Under(first, k) = Under(list, k) \cup (IF k = start THEN {there} ELSE {})
  <2> DEFINE old == list
  <2>1. Listing(old)
    OBVIOUS
  <2> HIDE DEF old
  <2>2. /\ Listing(Push(old, start, there))
        /\ DOMAIN Push(old, start, there) = DOMAIN old \cup {start}
        /\ \A k : Under(Push(old, start, there), k) =
             Under(old, k) \cup (IF k = start THEN {there} ELSE {})
    BY <1>1, <2>1, PushEffect
  <2> QED
    BY <2>2 DEF old
<1> HIDE DEF first
<1>4. /\ Listing(oneWay) /\ DOMAIN oneWay = DOMAIN first \cup {end}
      /\ \A k : Under(oneWay, k) = Under(first, k)
  BY <1>3, TouchEffect
<1> HIDE DEF oneWay
<1>5. /\ Listing(both) /\ DOMAIN both = DOMAIN oneWay \cup {end}
      /\ \A k : Under(both, k) = Under(oneWay, k) \cup (IF k = end THEN {back} ELSE {})
  BY <1>1, <1>4, PushEffect
<1> HIDE DEF both
<1> DEFINE l == WithEdge(start, end, weight)
<1>6. /\ Listing(l)
      /\ DOMAIN l = DOMAIN list \cup {start, end}
      /\ \A k : Under(l, k) =
           Under(list, k)
             \cup (IF k = start THEN {there} ELSE {})
             \cup (IF k = end /\ ~isDerected THEN {back} ELSE {})
  <2>1. CASE isDerected
    BY <1>2, <1>3, <1>4, <2>1
  <2>2. CASE ~isDerected
    BY <1>2, <1>3, <1>4, <1>5, <2>2
  <2> QED
    BY <2>1, <2>2
<1> QED
  BY <1>6 DEF there, back

(* What getList shows of a node are the names in the pairs under it. *)
LEMMA AdjacencyIsUnder ==
  ASSUME NEW l, Listing(l), NEW n \in DOMAIN l
  PROVE  Adjacency(l)[n] = {pair[1] : pair \in Under(l, n)}
<1>1. Adjacency(l)[n] = {l[n][i][1] : i \in 1..Len(l[n])}
  BY DEF Adjacency
<1>2. DOMAIN l[n] = 1..Len(l[n])
  BY DEF Listing
<1>3. Under(l, n) = {l[n][i] : i \in 1..Len(l[n])}
  BY <1>2 DEF Under, Range
<1> QED
  BY <1>1, <1>3

-----------------------------------------------------------------------------

(* An empty list has the types and no edge that could lack its mirror. *)
LEMMA InitIInv == GraphInit => IInv
  BY DEF GraphInit, NoEdges, IInv, GraphTypeOK, BuiltIsClosed, BuiltIsSymmetric

(* An edge is added, or refused and nothing is changed. *)
LEMMA AddEdgeIInv == IInv /\ AddEdge => IInv'
<1> SUFFICES ASSUME IInv, AddEdge PROVE IInv'
  OBVIOUS
<1>1. PICK start \in Nodes, end \in Nodes, weight \in Weights : addEdge(start, end, weight)
  BY DEF AddEdge
<1>2. Listing(list)
  BY DEF IInv, GraphTypeOK, Listing, Pairs
<1>3. weight \in Int /\ isDerected' = isDerected /\ loaded' = loaded
  BY <1>1, GraphAssumption DEF addEdge
<1>4. threw' \in {"no", "exception", "response"} /\ isDerected' \in BOOLEAN /\ loaded' \in BOOLEAN
  BY <1>1, <1>3 DEF addEdge, IInv, GraphTypeOK
<1>5. CASE list' = list
  BY <1>3, <1>4, <1>5 DEF IInv, GraphTypeOK, BuiltIsClosed, BuiltIsSymmetric, Adjacency, HasEdge
<1>6. CASE list' = WithEdge(start, end, weight)
  <2>1. /\ Listing(list')
        /\ DOMAIN list' = DOMAIN list \cup {start, end}
        /\ \A k : Under(list', k) =
             Under(list, k)
               \cup (IF k = start THEN {<<end, weight>>} ELSE {})
               \cup (IF k = end /\ ~isDerected THEN {<<start, weight>>} ELSE {})
    BY <1>2, <1>3, <1>6, WithEdgeEffect
  <2>2. GraphTypeOK'
    BY <1>4, <2>1 DEF GraphTypeOK, Listing, Pairs
  <2>3. BuiltIsClosed'
    <3> SUFFICES ASSUME ~loaded, NEW n \in DOMAIN list', NEW pair \in Under(list', n)
                 PROVE  pair[1] \in DOMAIN list'
      BY <1>3, <2>1, AdjacencyIsUnder DEF BuiltIsClosed
    <3>1. CASE pair \in Under(list, n)
      <4>1. n \in DOMAIN list
        BY <3>1 DEF Under
      <4> QED
        BY <1>2, <2>1, <3>1, <4>1, AdjacencyIsUnder DEF IInv, BuiltIsClosed
    <3>2. CASE pair = <<end, weight>> \/ pair = <<start, weight>>
      BY <2>1, <3>2
    <3> QED
      BY <2>1, <3>1, <3>2
  <2>4. BuiltIsSymmetric'
    <3> SUFFICES ASSUME ~isDerected, ~loaded, NEW u \in DOMAIN list', NEW pair \in Under(list', u)
                 PROVE  <<u, pair[2]>> \in Under(list', pair[1])
      BY <1>3 DEF BuiltIsSymmetric, HasEdge, Under
    <3>1. CASE pair \in Under(list, u)
      <4>1. u \in DOMAIN list
        BY <3>1 DEF Under
      <4>2. <<u, pair[2]>> \in Under(list, pair[1])
        BY <3>1, <4>1 DEF IInv, BuiltIsSymmetric, HasEdge, Under
      <4> QED
        BY <2>1, <4>2
    <3>2. CASE u = start /\ pair = <<end, weight>>
      BY <2>1, <3>2
    <3>3. CASE u = end /\ pair = <<start, weight>>
      BY <2>1, <3>3
    <3> QED
      BY <2>1, <3>1, <3>2, <3>3
  <2> QED
    BY <2>2, <2>3, <2>4 DEF IInv
<1> QED
  BY <1>1, <1>5, <1>6 DEF addEdge

(* What an upload leaves: the list as it was, or one of its names only. *)
LEMMA LoadsListing ==
  ASSUME Listing(list), NEW p \in Uploads, NEW result \in Loads(list, p)
  PROVE  /\ Listing(result.list)
         /\ result.threw \in {"no", "exception", "response"}
         /\ result.threw = "response" => result.list = list
<1>1. IsUpload(p)
  BY GraphAssumption
<1>2. Listing(NoEdges)
  BY DEF NoEdges, Listing
<1>3. ASSUME NEW K \in SUBSET DOMAIN p.list
      PROVE  Listing(Fill(NoEdges, p, K))
  <2>1. DOMAIN Fill(NoEdges, p, K) = K
    BY DEF Fill, NoEdges
  <2>2. ASSUME NEW n \in K
        PROVE  Fill(NoEdges, p, K)[n] \in Seq(Pairs)
    <3>1. Fill(NoEdges, p, K)[n] = [i \in 1..Len(p.list[n]) |-> <<p.list[n][i], UploadWeight>>]
      BY DEF Fill, NoEdges
    <3>2. p.list[n] \in Seq(Nodes)
      BY <1>1 DEF IsUpload
    <3>3. /\ Len(p.list[n]) \in Nat
          /\ \A i \in 1..Len(p.list[n]) : <<p.list[n][i], UploadWeight>> \in Pairs
      BY <3>2 DEF Pairs, UploadWeight
    <3> QED
      BY <3>1, <3>3
  <2> QED
    BY <1>1, <2>1, <2>2 DEF Listing, IsUpload
<1>4. CASE ~p.valid
  BY <1>4 DEF Loads
<1>5. CASE p.valid /\ ~p.object
  BY <1>2, <1>5 DEF Loads, Reset
<1>6. CASE p.valid /\ p.object /\ p.bad = {}
  BY <1>3, <1>6 DEF Loads, Reset
<1>7. CASE p.valid /\ p.object /\ p.bad # {}
  <2>1. PICK K \in SUBSET (DOMAIN p.list \ p.bad) :
          result = [list |-> Fill(NoEdges, p, K), threw |-> "exception"]
    BY <1>7 DEF Loads, Reset
  <2> QED
    BY <1>3, <2>1
<1> QED
  BY <1>1, <1>4, <1>5, <1>6, <1>7 DEF IsUpload

(* After an upload the two properties say nothing any more. *)
LEMMA LoadIInv == IInv /\ Load => IInv'
<1> SUFFICES ASSUME IInv, Load PROVE IInv'
  OBVIOUS
<1>1. PICK p \in Uploads : extractGraphData(p)
  BY DEF Load
<1>2. PICK result \in Loads(list, p) : list' = result.list /\ threw' = result.threw
  BY <1>1 DEF extractGraphData
<1>3. isDerected' = isDerected /\ loaded' = (loaded \/ threw' # "response")
  BY <1>1 DEF extractGraphData
<1>4. Listing(list)
  BY DEF IInv, GraphTypeOK, Listing, Pairs
<1>5. /\ Listing(list')
      /\ threw' \in {"no", "exception", "response"}
      /\ threw' = "response" => list' = list
  BY <1>2, <1>4, LoadsListing
<1>6. GraphTypeOK'
  BY <1>3, <1>5 DEF IInv, GraphTypeOK, Listing, Pairs
<1>7. BuiltIsClosed' /\ BuiltIsSymmetric'
  <2>1. CASE threw' = "response"
    BY <1>3, <1>5, <2>1 DEF IInv, BuiltIsClosed, BuiltIsSymmetric, Adjacency, HasEdge
  <2>2. CASE threw' # "response"
    BY <1>3, <2>2 DEF BuiltIsClosed, BuiltIsSymmetric
  <2> QED
    BY <2>1, <2>2
<1> QED
  BY <1>6, <1>7 DEF IInv

(* Every step of the graph keeps the invariant. *)
LEMMA NextIInv == IInv /\ [GraphNext]_graphVars => IInv'
<1>1. IInv /\ UNCHANGED graphVars => IInv'
  BY DEF graphVars, IInv, GraphTypeOK, BuiltIsClosed, BuiltIsSymmetric, Adjacency, HasEdge
<1> QED
  BY <1>1, AddEdgeIInv, LoadIInv DEF GraphNext

(* Additions and loads, failing ones included, keep the list a map from     *)
(* names to vectors of names and weights.                                   *)
THEOREM TypeCorrect == GraphSpec => []GraphTypeOK
<1>1. IInv => GraphTypeOK
  BY DEF IInv
<1> QED
  BY <1>1, InitIInv, NextIInv, PTL DEF GraphSpec

(* However many edges addEdge adds or refuses, every node mentioned is a    *)
(* key.                                                                     *)
THEOREM BuiltStaysClosed == GraphSpec => []BuiltIsClosed
<1>1. IInv => BuiltIsClosed
  BY DEF IInv
<1> QED
  BY <1>1, InitIInv, NextIInv, PTL DEF GraphSpec

(* However many edges addEdge adds or refuses, those of an undirected graph *)
(* can be walked both ways, with the same weight.                           *)
THEOREM BuiltStaysSymmetric == GraphSpec => []BuiltIsSymmetric
<1>1. IInv => BuiltIsSymmetric
  BY DEF IInv
<1> QED
  BY <1>1, InitIInv, NextIInv, PTL DEF GraphSpec

===============================================================================
