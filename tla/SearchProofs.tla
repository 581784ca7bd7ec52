----------------------------- MODULE SearchProofs -----------------------------
(***************************************************************************)
(* What SearchSpec promises, proved for every set of nodes and of calls.   *)
(***************************************************************************)
EXTENDS SearchSpec, RangeLemmas

(* What holds of a call at every moment, besides its type. *)
AcceptedIsKnown == run.phase \in {"search", "found", "route"} => ~Refused(run)

VisitedIsReachable == Range(run.visited) \subseteq Reachable \ {run.end}

StartIsFirst == run.visited # << >> => run.start \in Range(run.visited)

FoundIsReachable == run.phase \in {"found", "route"} => run.end \in Reachable

RouteIsRoute ==
  IF run.phase = "route" THEN IsRoute(run, run.route)
  ELSE run.phase \in {"called", "search", "found"} => run.route = << >>

IInv ==
  /\ TypeOK
  /\ AcceptedIsKnown
  /\ VisitedIsReachable
  /\ StartIsFirst
  /\ FoundIsReachable
  /\ RouteIsRoute
  /\ Verdict

-----------------------------------------------------------------------------

(* The frontier lies among the keys, and can be reached if the visited      *)
(* nodes can.                                                               *)
LEMMA FrontierReachable ==
  ASSUME run \in Run, ~Refused(run), VisitedIsReachable
  PROVE  /\ Frontier(run) \subseteq Reachable
         /\ Frontier(run) \subseteq Nodes
<1>1. run.start \in Reachable
  BY DEF Refused, Reachable, Closed
<1>2. ASSUME NEW v \in Range(run.visited), NEW n \in Successors(run.list, v)
      PROVE  n \in Reachable
  <2>1. v \in Reachable
    BY DEF VisitedIsReachable
  <2>2. ASSUME NEW S \in SUBSET DOMAIN run.list, Closed(S)
        PROVE  n \in S
    BY <2>1, <2>2 DEF Reachable, Closed
  <2>3. n \in DOMAIN run.list
    BY DEF Successors
  <2> QED
    BY <2>2, <2>3 DEF Reachable
<1>3. Frontier(run) \subseteq Reachable
  BY <1>1, <1>2 DEF Frontier
<1>4. Reachable \subseteq Nodes
  BY DEF Reachable, Run, AdjacencyList
<1> QED
  BY <1>3, <1>4

(* When nothing is left in the frontier, the visited nodes are all that can *)
(* be reached.                                                              *)
LEMMA ExhaustedIsReachable ==
  ASSUME run \in Run, ~Refused(run), VisitedIsReachable, StartIsFirst, Frontier(run) = {}
  PROVE  Range(run.visited) = Reachable /\ run.end \notin Reachable
<1>1. run.visited # << >>
  BY DEF Frontier, Range
<1>2. run.start \in Range(run.visited)
  BY <1>1 DEF StartIsFirst
<1>3. \A n \in Range(run.visited) : Successors(run.list, n) \subseteq Range(run.visited)
  BY <1>1 DEF Frontier
<1>4. Range(run.visited) \subseteq DOMAIN run.list
  BY DEF VisitedIsReachable, Reachable
<1>5. Closed(Range(run.visited))
  BY <1>2, <1>3 DEF Closed
<1>6. Reachable \subseteq Range(run.visited)
  BY <1>4, <1>5 DEF Reachable
<1> QED
  BY <1>6 DEF VisitedIsReachable

(* No step changes the call's arguments, and what they alone determine      *)
(* stays as it is.                                                          *)
LEMMA ArgumentsStay ==
  ASSUME run'.alg = run.alg, run'.list = run.list, run'.start = run.start, run'.end = run.end
  PROVE  /\ Reachable' = Reachable
         /\ Refused(run)' <=> Refused(run)
  BY DEF Reachable, Closed, Successors, Refused

(* A call that only changes its phase, and not to "found" or "route". *)
LEMMA QuietStep ==
  ASSUME IInv, NEW p \in {"search"} \cup Over,
         run' = [run EXCEPT !.phase = p],
         p = "search" => ~Refused(run) /\ run.phase = "called",
         p = "done" => \/ Refused(run)
                       \/ run.phase = "route"
                       \/ run.phase = "search" /\ Frontier(run) = {},
         open' \in BOOLEAN, sent' \in Seq(Message)
  PROVE  IInv'
<1> USE DEF IInv
<1>1. /\ run' \in Run
      /\ run'.phase = p
      /\ run'.alg = run.alg /\ run'.list = run.list /\ run'.start = run.start /\ run'.end = run.end
      /\ run'.visited = run.visited /\ run'.route = run.route
  BY DEF TypeOK, Run, Phase, Over
<1>2. Reachable' = Reachable /\ (Refused(run)' <=> Refused(run))
  BY <1>1, ArgumentsStay
<1>3. TypeOK'
  BY <1>1 DEF TypeOK
<1>4. AcceptedIsKnown' /\ VisitedIsReachable' /\ StartIsFirst' /\ FoundIsReachable'
  BY <1>1, <1>2 DEF AcceptedIsKnown, VisitedIsReachable, StartIsFirst, FoundIsReachable, Over
<1>5. RouteIsRoute'
  BY <1>1 DEF RouteIsRoute, Over
<1>6. Verdict'
  <2> SUFFICES ASSUME p = "done", ~Refused(run)
               PROVE  IF run.end \in Reachable THEN IsRoute(run', run'.route)
                      ELSE run.route = << >> /\ Range(run.visited) = Reachable
    BY <1>1, <1>2 DEF Verdict
  <2>1. CASE run.phase = "route"
    <3>1. run.end \in Reachable /\ IsRoute(run, run.route)
      BY <2>1 DEF FoundIsReachable, RouteIsRoute
    <3> QED
      BY <3>1, <1>1 DEF IsRoute
  <2>2. CASE run.phase = "search" /\ Frontier(run) = {}
    <3>1. Range(run.visited) = Reachable /\ run.end \notin Reachable
      BY <2>2, ExhaustedIsReachable DEF TypeOK
    <3> QED
      BY <3>1, <2>2 DEF RouteIsRoute
  <2> QED
    BY <2>1, <2>2
<1> QED
  BY <1>3, <1>4, <1>5, <1>6

(* A node of the frontier is taken. *)
LEMMA TakeStep ==
  ASSUME IInv, run.phase = "search", NEW n \in Frontier(run), run' = Take(run, n).next,
         open' \in BOOLEAN, sent' \in Seq(Message)
  PROVE  IInv'
<1> USE DEF IInv
<1>1. n \in Reachable /\ n \in Nodes /\ ~Refused(run) /\ Reachable \subseteq Nodes
  BY FrontierReachable DEF TypeOK, AcceptedIsKnown, Reachable, Run, AdjacencyList
<1>2. CASE n = run.end
  <2>1. run' = [run EXCEPT !.phase = "found"]
    BY <1>2 DEF Take, Move
  <2>2. /\ run' \in Run
        /\ run'.phase = "found"
        /\ run'.alg = run.alg /\ run'.list = run.list /\ run'.start = run.start /\ run'.end = run.end
        /\ run'.visited = run.visited /\ run'.route = run.route
    BY <2>1 DEF TypeOK, Run, Phase
  <2>3. Reachable' = Reachable /\ (Refused(run)' <=> Refused(run))
    BY <2>2, ArgumentsStay
  <2>4. TypeOK'
    BY <2>2 DEF TypeOK
  <2>5. AcceptedIsKnown' /\ VisitedIsReachable' /\ StartIsFirst' /\ FoundIsReachable'
    BY <1>1, <1>2, <2>2, <2>3 DEF AcceptedIsKnown, VisitedIsReachable, StartIsFirst, FoundIsReachable
  <2>6. RouteIsRoute' /\ Verdict'
    BY <2>2 DEF RouteIsRoute, Verdict
  <2> QED
    BY <2>4, <2>5, <2>6
<1>3. CASE n # run.end
  <2>1. run' = [run EXCEPT !.visited = Append(run.visited, n)]
    BY <1>3 DEF Take, Move
  <2>2. run.visited \in Seq(Nodes)
    BY DEF TypeOK, Run
  <2>3. /\ Append(run.visited, n) \in Seq(Nodes)
        /\ Range(Append(run.visited, n)) = Range(run.visited) \cup {n}
    BY <1>1, <2>2, RangeOfAppend
  <2>4. /\ run' \in Run
        /\ run'.phase = "search"
        /\ run'.alg = run.alg /\ run'.list = run.list /\ run'.start = run.start /\ run'.end = run.end
        /\ run'.visited = Append(run.visited, n) /\ run'.route = run.route
    BY <2>1, <2>3 DEF TypeOK, Run
  <2>5. Reachable' = Reachable /\ (Refused(run)' <=> Refused(run))
    BY <2>4, ArgumentsStay
  <2>6. TypeOK'
    BY <2>4 DEF TypeOK
  <2>7. Range(run'.visited) = Range(run.visited) \cup {n}
    BY <2>3, <2>4
  <2>8. AcceptedIsKnown' /\ VisitedIsReachable' /\ FoundIsReachable'
    BY <1>1, <1>3, <2>4, <2>5, <2>7 DEF AcceptedIsKnown, VisitedIsReachable, FoundIsReachable
  <2>9. StartIsFirst'
    <3>1. CASE run.visited = << >>
      BY <3>1, <2>4, <2>7 DEF Frontier, StartIsFirst
    <3>2. CASE run.visited # << >>
      BY <3>2, <2>4, <2>7 DEF StartIsFirst
    <3> QED
      BY <3>1, <3>2
  <2>10. RouteIsRoute' /\ Verdict'
    BY <2>4 DEF RouteIsRoute, Verdict
  <2> QED
    BY <2>6, <2>8, <2>9, <2>10
<1> QED
  BY <1>2, <1>3

(* The path is known. *)
LEMMA RouteStep ==
  ASSUME IInv, run.phase = "found", NEW p \in Routes(run),
         run' = [run EXCEPT !.phase = "route", !.route = p],
         open' \in BOOLEAN, sent' \in Seq(Message)
  PROVE  IInv'
<1> USE DEF IInv
<1>1. run.visited \in Seq(Nodes) /\ Range(run.visited) \subseteq Nodes /\ run.end \in Nodes
  BY DEF TypeOK, Run, VisitedIsReachable, FoundIsReachable, Reachable, AdjacencyList
<1>2. p \in Seq(Nodes) /\ IsRoute(run, p)
  BY <1>1 DEF Routes
<1>3. /\ run' \in Run
      /\ run'.phase = "route"
      /\ run'.alg = run.alg /\ run'.list = run.list /\ run'.start = run.start /\ run'.end = run.end
      /\ run'.visited = run.visited /\ run'.route = p
  BY <1>2 DEF TypeOK, Run, Phase
<1>4. Reachable' = Reachable /\ (Refused(run)' <=> Refused(run))
  BY <1>3, ArgumentsStay
<1>5. TypeOK'
  BY <1>3 DEF TypeOK
<1>6. AcceptedIsKnown' /\ VisitedIsReachable' /\ StartIsFirst' /\ FoundIsReachable'
  BY <1>3, <1>4 DEF AcceptedIsKnown, VisitedIsReachable, StartIsFirst, FoundIsReachable
<1>7. RouteIsRoute' /\ Verdict'
  BY <1>2, <1>3 DEF RouteIsRoute, IsRoute, Verdict
<1> QED
  BY <1>5, <1>6, <1>7

(* An inner node of the path is shown. *)
LEMMA ShowStep ==
  ASSUME IInv, run.phase = "route", NEW shown \in Nat, run' = [run EXCEPT !.shown = shown],
         open' \in BOOLEAN, sent' \in Seq(Message)
  PROVE  IInv'
<1> USE DEF IInv
<1>1. /\ run' \in Run
      /\ run'.phase = "route"
      /\ run'.alg = run.alg /\ run'.list = run.list /\ run'.start = run.start /\ run'.end = run.end
      /\ run'.visited = run.visited /\ run'.route = run.route
  BY DEF TypeOK, Run
<1>2. Reachable' = Reachable /\ (Refused(run)' <=> Refused(run))
  BY <1>1, ArgumentsStay
<1>3. TypeOK'
  BY <1>1 DEF TypeOK
<1>4. AcceptedIsKnown' /\ VisitedIsReachable' /\ StartIsFirst' /\ FoundIsReachable'
  BY <1>1, <1>2 DEF AcceptedIsKnown, VisitedIsReachable, StartIsFirst, FoundIsReachable
<1>5. RouteIsRoute' /\ Verdict'
  BY <1>1 DEF RouteIsRoute, IsRoute, Verdict
<1> QED
  BY <1>3, <1>4, <1>5

(* The messages of a step are messages. *)
LEMMA SaysMessages ==
  ASSUME IInv, NEW m \in Moves(run)
  PROVE  m.says \in Seq(Message)
<1> USE DEF IInv
<1>1. run.visited \in Seq(Nodes) /\ run.route \in Seq(Nodes) /\ run.shown \in Nat
  BY DEF TypeOK, Run
<1>2. ASSUME NEW s \in Seq(Nodes), NEW kind \in {"visitedNodes", "pathFound", "pathNodes"}
      PROVE  Say(kind, s) \in Seq(Message)
  BY <1>2 DEF Say, Message
<1>3. ASSUME NEW phase PROVE Quietly(run, phase).says \in Seq(Message)
  BY DEF Quietly, Move
<1>4. CASE run.phase = "called"
  BY <1>3, <1>4 DEF Moves, Misnamed
<1>5. CASE run.phase = "search"
  <2>1. ASSUME NEW n \in Frontier(run) PROVE Take(run, n).says \in Seq(Message)
    <3>1. n \in Nodes
      BY <1>5, FrontierReachable DEF TypeOK, AcceptedIsKnown
    <3>2. Append(run.visited, n) \in Seq(Nodes) /\ << >> \in Seq(Nodes)
      BY <1>1, <3>1
    <3> QED
      BY <1>2, <3>2 DEF Take, Move
  <2> QED
    BY <1>3, <1>5, <2>1 DEF Moves, SearchMoves, Misnamed
<1>6. CASE run.phase = "found"
  <2>1. PICK p \in Routes(run) : m = Rebuild(run, p)
    BY <1>6 DEF Moves
  <2> QED
    BY <2>1 DEF Rebuild, Move
<1>7. CASE run.phase = "route"
  <2>1. CASE m \in {Quietly(run, "undefined"), Quietly(run, "done")}
    BY <1>3, <2>1
  <2>2. CASE /\ run.shown + 1 < Len(run.route) - 1
             /\ m.says = Say("pathNodes", SubSeq(run.route, 2, run.shown + 2))
    <3>1. SubSeq(run.route, 2, run.shown + 2) \in Seq(Nodes)
      BY <1>1, <2>2
    <3> QED
      BY <1>2, <2>2, <3>1
  <2> QED
    BY <1>1, <1>7, <2>1, <2>2 DEF Moves, RouteMoves, Move
<1> QED
  BY <1>4, <1>5, <1>6, <1>7 DEF Moves

-----------------------------------------------------------------------------

(* A call that was not looked at yet has shown and promised nothing. *)
LEMMA InitIInv == Init => IInv
<1> SUFFICES ASSUME Init PROVE IInv
  OBVIOUS
<1>1. PICK alg \in Algorithm, list \in AdjacencyList,
           start \in Nodes \cup {Empty}, end \in Nodes \cup {Empty} :
        run = Call(alg, list, start, end)
  BY CallsAssumption DEF Init
<1>2. run \in Run /\ run.phase = "called" /\ run.visited = << >> /\ run.route = << >>
  <2>1. << >> \in Seq(Nodes) /\ "called" \in Phase
    BY DEF Phase
  <2> QED
    BY <1>1, <2>1 DEF Call, Run
<1>3. TypeOK
  BY <1>2 DEF Init, TypeOK
<1>4. Range(<< >>) = {}
  BY DEF Range
<1> QED
  BY <1>2, <1>3, <1>4 DEF IInv, AcceptedIsKnown, VisitedIsReachable, StartIsFirst,
                          FoundIsReachable, RouteIsRoute, Verdict

(* Every step of the search and of its client keeps the invariant. *)
LEMMA NextIInv == IInv /\ [Next]_vars => IInv'
<1> SUFFICES ASSUME IInv, [Next]_vars PROVE IInv'
  OBVIOUS
<1>1. CASE Advance
  <2>1. PICK m \in Moves(run) :
          /\ run' = m.next
          /\ sent' = IF open THEN sent \o m.says ELSE sent
          /\ open' = open
    BY <1>1 DEF Advance
  <2>2. open' \in BOOLEAN /\ sent' \in Seq(Message)
    BY <2>1, SaysMessages DEF IInv, TypeOK
  <2>3. CASE run.phase = "called"
    <3>1. PICK p \in {"search"} \cup Over :
            m = Quietly(run, p) /\ (p = "search" => ~Refused(run)) /\ (p = "done" => Refused(run))
      BY <2>3 DEF Moves, Misnamed, Over
    <3> QED
      BY <2>1, <2>2, <2>3, <3>1, QuietStep DEF Quietly, Move
  <2>4. CASE run.phase = "search"
    <3>1. CASE \E n \in Frontier(run) : m = Take(run, n)
      BY <2>1, <2>2, <2>4, <3>1, TakeStep
    <3>2. CASE \E p \in Over : m = Quietly(run, p) /\ (p = "done" => Frontier(run) = {})
      <4>1. PICK p \in Over : m = Quietly(run, p) /\ (p = "done" => Frontier(run) = {})
        BY <3>2
      <4>2. p # "search"
        BY DEF Over
      <4> QED
        BY <2>1, <2>2, <2>4, <4>1, <4>2, QuietStep DEF Quietly, Move
    <3> QED
      BY <2>4, <3>1, <3>2 DEF Moves, SearchMoves, Misnamed, Over
  <2>5. CASE run.phase = "found"
    <3>1. PICK p \in Routes(run) : m = Rebuild(run, p)
      BY <2>5 DEF Moves
    <3> QED
      BY <2>1, <2>2, <2>5, <3>1, RouteStep DEF Rebuild, Move
  <2>6. CASE run.phase = "route"
    <3>1. CASE \E p \in {"done", "undefined"} : m = Quietly(run, p)
      BY <2>1, <2>2, <2>6, <3>1, QuietStep DEF Quietly, Move, Over
    <3>2. CASE m.next = [run EXCEPT !.shown = run.shown + 1]
      <4>1. run.shown + 1 \in Nat
        BY DEF IInv, TypeOK, Run
      <4> QED
        BY <2>1, <2>2, <2>6, <3>2, <4>1, ShowStep
    <3> QED
      BY <2>6, <3>1, <3>2 DEF Moves, RouteMoves, Move
  <2> QED
    BY <2>3, <2>4, <2>5, <2>6 DEF Moves
<1>2. CASE HangUp \/ UNCHANGED vars
  <2>1. run' = run /\ open' \in BOOLEAN /\ sent' \in Seq(Message)
    BY <1>2 DEF HangUp, vars, IInv, TypeOK
  <2>2. Reachable' = Reachable
    BY <2>1 DEF Reachable, Closed
  <2> QED
    BY <2>1, <2>2 DEF IInv, TypeOK, AcceptedIsKnown, VisitedIsReachable, StartIsFirst,
                      FoundIsReachable, RouteIsRoute, Verdict
<1> QED
  BY <1>1, <1>2 DEF Next

(* The state of a call and the stream of its client keep their types. *)
THEOREM TypeCorrect == Spec => []TypeOK
<1>1. IInv => TypeOK
  BY DEF IInv
<1> QED
  BY <1>1, InitIInv, NextIInv, PTL DEF Spec

(* For every graph and every pair of points, a call that was not refused    *)
(* and returns has shown a path from start to end exactly if there is one,  *)
(* and otherwise has visited exactly what can be reached.                   *)
THEOREM VerdictIsRight == Spec => []Verdict
<1>1. IInv => Verdict
  BY DEF IInv
<1> QED
  BY <1>1, InitIInv, NextIInv, PTL DEF Spec

-----------------------------------------------------------------------------

(* What one step does to the visited nodes, the path and the stream, seen   *)
(* from the outside.                                                        *)
LEMMA StepEffect ==
  ASSUME IInv, [Next]_vars
  PROVE  /\ \/ run'.visited = run.visited
            \/ \E n \in Frontier(run) : n \in Nodes /\ run'.visited = Append(run.visited, n)
         /\ run'.route = run.route \/ run.route = << >>
         /\ sent' = sent \/ \E says \in Seq(Message) : sent' = sent \o says
<1> USE DEF IInv
<1>1. CASE Advance
  <2>1. PICK m \in Moves(run) :
          /\ run' = m.next
          /\ sent' = IF open THEN sent \o m.says ELSE sent
    BY <1>1 DEF Advance
  <2>2. sent' = sent \/ \E says \in Seq(Message) : sent' = sent \o says
    BY <2>1, SaysMessages
  <2>3. ASSUME NEW phase, m = Quietly(run, phase)
        PROVE  run'.visited = run.visited /\ run'.route = run.route
    BY <2>1, <2>3 DEF Quietly, Move, TypeOK, Run
  <2>4. CASE run.phase = "called"
    <3>1. \E phase \in Phase : m = Quietly(run, phase)
      BY <2>4 DEF Moves, Misnamed, Phase
    <3> QED
      BY <2>2, <2>3, <3>1
  <2>5. CASE run.phase = "search"
    <3>1. CASE \E phase \in Phase : m = Quietly(run, phase)
      BY <2>2, <2>3, <3>1
    <3>2. CASE \E n \in Frontier(run) : m = Take(run, n)
      <4>1. PICK n \in Frontier(run) : m = Take(run, n)
        BY <3>2
      <4>2. n \in Nodes
        BY <2>5, FrontierReachable DEF TypeOK, AcceptedIsKnown
      <4>3. CASE n = run.end
        <5>1. run' = [run EXCEPT !.phase = "found"]
          BY <2>1, <4>1, <4>3 DEF Take, Move
        <5>2. run'.visited = run.visited /\ run'.route = run.route
          BY <5>1 DEF TypeOK, Run
        <5> QED
          BY <2>2, <5>2
      <4>4. CASE n # run.end
        <5>1. run' = [run EXCEPT !.visited = Append(run.visited, n)]
          BY <2>1, <4>1, <4>4 DEF Take, Move
        <5>2. run'.visited = Append(run.visited, n) /\ run'.route = run.route
          BY <5>1 DEF TypeOK, Run
        <5> QED
          BY <2>2, <4>2, <5>2
      <4> QED
        BY <4>3, <4>4
    <3> QED
      BY <2>5, <3>1, <3>2 DEF Moves, SearchMoves, Misnamed, Phase
  <2>6. CASE run.phase = "found"
    <3>1. PICK p \in Routes(run) : m = Rebuild(run, p)
      BY <2>6 DEF Moves
    <3>2. run' = [run EXCEPT !.phase = "route", !.route = p]
      BY <2>1, <3>1 DEF Rebuild, Move
    <3>3. run'.visited = run.visited /\ run.route = << >>
      BY <2>6, <3>2 DEF TypeOK, Run, RouteIsRoute
    <3> QED
      BY <2>2, <3>3
  <2>7. CASE run.phase = "route"
    <3>1. CASE \E phase \in {"done", "undefined"} : m = Quietly(run, phase)
      BY <2>2, <2>3, <3>1
    <3>2. CASE m.next = [run EXCEPT !.shown = run.shown + 1]
      <4>1. run'.visited = run.visited /\ run'.route = run.route
        BY <2>1, <3>2 DEF TypeOK, Run
      <4> QED
        BY <2>2, <4>1
    <3>3. m \in RouteMoves(run)
      BY <2>7 DEF Moves
    <3>4. (\E phase \in {"done", "undefined"} : m = Quietly(run, phase))
            \/ m.next = [run EXCEPT !.shown = run.shown + 1]
      BY <3>3 DEF RouteMoves, Move
    <3> QED
      BY <3>1, <3>2, <3>4
  <2> QED
    BY <2>4, <2>5, <2>6, <2>7 DEF Moves
<1>2. CASE HangUp \/ UNCHANGED vars
  BY <1>2 DEF HangUp, vars
<1> QED
  BY <1>1, <1>2 DEF Next

NoneTwice ==
  \A i, j \in 1..Len(run.visited) : run.visited[i] = run.visited[j] => i = j

(* A node of the frontier has not been visited. *)
LEMMA NoneTwiceStays == IInv /\ NoneTwice /\ [Next]_vars => NoneTwice'
<1> SUFFICES ASSUME IInv, NoneTwice, [Next]_vars PROVE NoneTwice'
  OBVIOUS
<1>1. CASE run'.visited = run.visited
  BY <1>1 DEF NoneTwice
<1>2. CASE \E n \in Frontier(run) : n \in Nodes /\ run'.visited = Append(run.visited, n)
  <2>1. PICK n \in Frontier(run) : n \in Nodes /\ run'.visited = Append(run.visited, n)
    BY <1>2
  <2>2. run.visited \in Seq(Nodes)
    BY DEF IInv, TypeOK, Run
  <2>3. \A i \in 1..Len(run.visited) : run.visited[i] # n
    BY <2>2 DEF Frontier, Range
  <2>4. /\ Len(run'.visited) = Len(run.visited) + 1
        /\ run'.visited[Len(run.visited) + 1] = n
        /\ \A i \in 1..Len(run.visited) : run'.visited[i] = run.visited[i]
    BY <2>1, <2>2
  <2>5. Len(run.visited) \in Nat
    BY <2>2
  <2> QED
    BY <2>3, <2>4, <2>5 DEF NoneTwice
<1> QED
  BY <1>1, <1>2, StepEffect

(* No call ever reports a node as visited that cannot be reached from its   *)
(* start, none twice, and never its end.                                    *)
THEOREM VisitsCanBeReached == Spec => []VisitsAreReachable
<1>1. Init => NoneTwice
  BY CallsAssumption DEF Init, Call, NoneTwice
<1>2. IInv /\ NoneTwice => VisitsAreReachable
  BY DEF IInv, VisitedIsReachable, NoneTwice, VisitsAreReachable
<1> QED
  BY <1>1, <1>2, InitIInv, NextIInv, NoneTwiceStays, PTL DEF Spec

(* No step of a call takes back a visited node or a message that was sent,  *)
(* and none replaces a path once it is known.                               *)
THEOREM OnlyGrows == Spec => Grows
<1> DEFINE Growing ==
      /\ run.visited = SubSeq(run'.visited, 1, Len(run.visited))
      /\ sent = SubSeq(sent', 1, Len(sent))
      /\ run.route # << >> => run'.route = run.route
<1>1. ASSUME IInv, [Next]_vars PROVE Growing
  <2>1. run.visited \in Seq(Nodes) /\ sent \in Seq(Message)
    BY <1>1 DEF IInv, TypeOK, Run
  <2>2. run.visited = SubSeq(run'.visited, 1, Len(run.visited))
    <3>1. CASE run'.visited = run.visited
      BY <2>1, <3>1, PrefixStays
    <3>2. CASE \E n \in Nodes : run'.visited = Append(run.visited, n)
      BY <2>1, <3>2
    <3> QED
      BY <1>1, <3>1, <3>2, StepEffect
  <2>3. sent = SubSeq(sent', 1, Len(sent))
    BY <1>1, <2>1, StepEffect, PrefixStays
  <2>4. run.route # << >> => run'.route = run.route
    BY <1>1, StepEffect
  <2> QED
    BY <2>2, <2>3, <2>4
<1>2. IInv /\ [Next]_vars => [Growing]_vars
  BY <1>1
<1>3. Spec => [][Growing]_vars
  BY <1>2, InitIInv, NextIInv, PTL DEF Spec
<1> QED
  BY <1>3 DEF Grows

-----------------------------------------------------------------------------
(* The stream of a call. *)

Grow(s) == [k \in 1..Len(s) |-> SubSeq(s, 1, k)]
Tell(kind, arrays) == [k \in 1..Len(arrays) |-> [kind |-> kind, nodes |-> arrays[k]]]

(* What a call has to say that visited v, and of the inner nodes of the     *)
(* path it found showed s.                                                  *)
Visits(v) == Tell("visitedNodes", Grow(v))
Shows(s) == Tell("pathFound", << << >> >>) \o Tell("pathNodes", Grow(s))

(* One more element, one more array. *)
LEMMA GrowAppend ==
  ASSUME NEW T, NEW s \in Seq(T), NEW e \in T
  PROVE  /\ Grow(s) \in Seq(Seq(T))
         /\ Grow(Append(s, e)) = Append(Grow(s), Append(s, e))
<1> DEFINE more == Append(s, e)
<1>1. more \in Seq(T) /\ Len(more) = Len(s) + 1 /\ Len(s) \in Nat
  OBVIOUS
<1>2. \A k \in 1..Len(s) : more[k] = s[k]
  OBVIOUS
<1> HIDE DEF more
<1>3. ASSUME NEW q \in Seq(T), NEW k \in 1..Len(q)
      PROVE  /\ SubSeq(q, 1, k) \in Seq(T) /\ Len(SubSeq(q, 1, k)) = k
             /\ \A i \in 1..k : SubSeq(q, 1, k)[i] = q[i]
  OBVIOUS
<1>4. ASSUME NEW q \in Seq(T)
      PROVE  Grow(q) \in Seq(Seq(T)) /\ Len(Grow(q)) = Len(q)
               /\ \A k \in 1..Len(q) : Grow(q)[k] = SubSeq(q, 1, k)
  BY <1>3 DEF Grow
<1>5. ASSUME NEW k \in 1..Len(s) PROVE SubSeq(more, 1, k) = SubSeq(s, 1, k)
  <2>1. k \in 1..Len(more) /\ k \in Nat
    BY <1>1
  <2>2. /\ SubSeq(more, 1, k) \in Seq(T) /\ SubSeq(s, 1, k) \in Seq(T)
        /\ Len(SubSeq(more, 1, k)) = Len(SubSeq(s, 1, k))
        /\ Len(SubSeq(more, 1, k)) = k
    BY <1>1, <1>3, <2>1
  <2>3. \A i \in 1..k : SubSeq(more, 1, k)[i] = SubSeq(s, 1, k)[i]
    BY <1>1, <1>2, <1>3, <2>1
  <2> QED
    BY <2>2, <2>3, SeqEqual
<1>6. SubSeq(more, 1, Len(more)) = more
  BY <1>1, SubSeqFull
<1>7. Grow(more) = Append(Grow(s), more)
  <2>1. /\ Append(Grow(s), more) \in Seq(Seq(T))
        /\ Len(Append(Grow(s), more)) = Len(more)
        /\ Append(Grow(s), more)[Len(more)] = more
        /\ \A k \in 1..Len(s) : Append(Grow(s), more)[k] = SubSeq(s, 1, k)
    BY <1>1, <1>4
  <2>2. \A k \in 1..Len(more) : Grow(more)[k] = Append(Grow(s), more)[k]
    <3> TAKE k \in 1..Len(more)
    <3>1. Grow(more)[k] = SubSeq(more, 1, k)
      BY <1>1, <1>4
    <3>2. k \in 1..Len(s) \/ k = Len(more)
      BY <1>1
    <3> QED
      BY <1>5, <1>6, <2>1, <3>1, <3>2
  <2>3. Grow(more) \in Seq(Seq(T)) /\ Len(Grow(more)) = Len(more)
    BY <1>1, <1>4
  <2> QED
    BY <2>1, <2>2, <2>3, SeqEqual
<1> QED
  BY <1>4, <1>7 DEF more

(* One more array, one more message. *)
LEMMA TellAppend ==
  ASSUME NEW kind \in {"visitedNodes", "pathFound", "pathNodes"},
         NEW arrays \in Seq(Seq(Nodes)), NEW s \in Seq(Nodes)
  PROVE  /\ Tell(kind, arrays) \in Seq(Message)
         /\ Tell(kind, Append(arrays, s)) = Tell(kind, arrays) \o Say(kind, s)
<1> DEFINE more == Append(arrays, s)
           y == [kind |-> kind, nodes |-> s]
<1>1. /\ more \in Seq(Seq(Nodes)) /\ Len(more) = Len(arrays) + 1 /\ Len(arrays) \in Nat
      /\ more[Len(arrays) + 1] = s
      /\ \A k \in 1..Len(arrays) : more[k] = arrays[k]
  OBVIOUS
<1> HIDE DEF more
<1>2. ASSUME NEW a \in Seq(Seq(Nodes))
      PROVE  /\ Tell(kind, a) \in Seq(Message) /\ Len(Tell(kind, a)) = Len(a)
             /\ \A k \in 1..Len(a) : Tell(kind, a)[k] = [kind |-> kind, nodes |-> a[k]]
  <2>1. \A k \in 1..Len(a) : [kind |-> kind, nodes |-> a[k]] \in Message
    BY DEF Message
  <2> QED
    BY <2>1 DEF Tell
<1>3. y \in Message
  BY DEF Message
<1>4. Tell(kind, more) = Append(Tell(kind, arrays), y)
  <2>1. Tell(kind, arrays) \in Seq(Message) /\ Len(Tell(kind, arrays)) = Len(arrays)
    BY <1>2
  <2>2. /\ Append(Tell(kind, arrays), y) \in Seq(Message)
        /\ Len(Append(Tell(kind, arrays), y)) = Len(more)
        /\ Append(Tell(kind, arrays), y)[Len(arrays) + 1] = y
        /\ \A k \in 1..Len(arrays) : Append(Tell(kind, arrays), y)[k] = Tell(kind, arrays)[k]
    <3> HIDE DEF y
    <3> QED
      BY <1>1, <1>3, <2>1
  <2>3. \A k \in 1..Len(more) : Tell(kind, more)[k] = Append(Tell(kind, arrays), y)[k]
    <3> TAKE k \in 1..Len(more)
    <3>1. Tell(kind, more)[k] = [kind |-> kind, nodes |-> more[k]]
      BY <1>1, <1>2
    <3>2. CASE k = Len(arrays) + 1
      BY <1>1, <2>2, <3>1, <3>2
    <3>3. CASE k \in 1..Len(arrays)
      BY <1>1, <1>2, <2>2, <3>1, <3>3
    <3>4. k = Len(arrays) + 1 \/ k \in 1..Len(arrays)
      BY <1>1
    <3> QED
      BY <3>2, <3>3, <3>4
  <2>4. Tell(kind, more) \in Seq(Message) /\ Len(Tell(kind, more)) = Len(more)
    BY <1>1, <1>2
  <2> QED
    BY <2>2, <2>3, <2>4, SeqEqual
<1>5. Append(Tell(kind, arrays), y) = Tell(kind, arrays) \o <<y>>
  BY <1>2, <1>3, AppendIsConcat
<1> QED
  BY <1>2, <1>4, <1>5 DEF more, Say

(* One more visited node is one more message, with all of them. *)
LEMMA VisitsAppend ==
  ASSUME NEW v \in Seq(Nodes), NEW n \in Nodes
  PROVE  /\ Visits(v) \in Seq(Message)
         /\ Visits(Append(v, n)) = Visits(v) \o Say("visitedNodes", Append(v, n))
<1>1. Append(v, n) \in Seq(Nodes)
  OBVIOUS
<1>2. Grow(v) \in Seq(Seq(Nodes)) /\ Grow(Append(v, n)) = Append(Grow(v), Append(v, n))
  BY GrowAppend
<1> QED
  BY <1>1, <1>2, TellAppend DEF Visits

(* One more shown node of the path is one more message, with all of them. *)
LEMMA ShowsAppend ==
  ASSUME NEW s \in Seq(Nodes), NEW n \in Nodes
  PROVE  /\ Shows(s) \in Seq(Message)
         /\ Shows(Append(s, n)) = Shows(s) \o Say("pathNodes", Append(s, n))
<1> DEFINE found == Tell("pathFound", << << >> >>)
           nodes == Tell("pathNodes", Grow(s))
           y == [kind |-> "pathNodes", nodes |-> Append(s, n)]
<1>1. Append(s, n) \in Seq(Nodes) /\ << >> \in Seq(Nodes)
  OBVIOUS
<1>2. Grow(s) \in Seq(Seq(Nodes)) /\ Grow(Append(s, n)) = Append(Grow(s), Append(s, n))
  BY GrowAppend
<1>3. /\ nodes \in Seq(Message)
      /\ Tell("pathNodes", Grow(Append(s, n))) = nodes \o Say("pathNodes", Append(s, n))
  BY <1>1, <1>2, TellAppend
<1>4. found \in Seq(Message)
  <2>1. << << >> >> \in Seq(Seq(Nodes))
    BY <1>1
  <2> QED
    BY <1>1, <2>1, TellAppend
<1>5. y \in Message
  BY <1>1 DEF Message
<1>6. Say("pathNodes", Append(s, n)) \in Seq(Message)
  <2> HIDE DEF y
  <2>1. <<y>> \in Seq(Message)
    BY <1>5
  <2> QED
    BY <2>1 DEF Say, y
<1> HIDE DEF found, nodes
<1>7. found \o (nodes \o Say("pathNodes", Append(s, n))) = (found \o nodes) \o Say("pathNodes", Append(s, n))
  <2> DEFINE said == Say("pathNodes", Append(s, n))
  <2>1. found \in Seq(Message) /\ nodes \in Seq(Message) /\ said \in Seq(Message)
    BY <1>3, <1>4, <1>6
  <2> HIDE DEF said, y
  <2>2. found \o (nodes \o said) = (found \o nodes) \o said
    BY <2>1, ConcatAssociative
  <2> QED
    BY <2>2 DEF said
<1>8. Shows(s) = found \o nodes
        /\ Shows(Append(s, n)) = found \o (nodes \o Say("pathNodes", Append(s, n)))
  BY <1>3 DEF Shows, found, nodes
<1> QED
  BY <1>3, <1>4, <1>7, <1>8

(* What a call that is under way has said. *)
Heard ==
  Visits(run.visited)
    \o IF run.phase \in {"found", "route"} THEN Shows(SubSeq(run.route, 2, run.shown + 1)) ELSE << >>

ShownIsInner ==
  IF run.phase = "route" THEN run.shown = 0 \/ run.shown + 1 < Len(run.route)
  ELSE run.phase \in {"called", "search", "found"} => run.shown = 0

(* The client has been sent a beginning of it, and all if it is still there.*)
StreamIsHeard ==
  run.phase \notin Over =>
    /\ \E rest \in Seq(Message) : Heard = sent \o rest
    /\ open => sent = Heard

(* While a call is under way, what a client that stays has heard is what was *)
(* visited and what was shown, and it is a sequence of messages.             *)
LEMMA HeardIsStream ==
  ASSUME IInv, run.phase \notin Over
  PROVE  /\ Visits(run.visited) \in Seq(Message)
         /\ SubSeq(run.route, 2, run.shown + 1) \in Seq(Nodes)
              => Shows(SubSeq(run.route, 2, run.shown + 1)) \in Seq(Message) /\ Heard \in Seq(Message)
         /\ run.phase \notin {"found", "route"} => Heard = Visits(run.visited) /\ Heard \in Seq(Message)
<1>1. run.visited \in Seq(Nodes)
  BY DEF IInv, TypeOK, Run
<1>2. Visits(run.visited) \in Seq(Message)
  <2>1. Grow(run.visited) \in Seq(Seq(Nodes))
    <3>1. \A k \in 1..Len(run.visited) : SubSeq(run.visited, 1, k) \in Seq(Nodes)
      BY <1>1
    <3> QED
      BY <1>1, <3>1 DEF Grow
  <2>2. << >> \in Seq(Nodes)
    OBVIOUS
  <2> QED
    BY <2>1, <2>2, TellAppend DEF Visits
<1>3. ASSUME NEW s \in Seq(Nodes) PROVE Shows(s) \in Seq(Message)
  <2>1. Grow(s) \in Seq(Seq(Nodes))
    <3>1. \A k \in 1..Len(s) : SubSeq(s, 1, k) \in Seq(Nodes)
      OBVIOUS
    <3> QED
      BY <3>1 DEF Grow
  <2>2. << >> \in Seq(Nodes) /\ << << >> >> \in Seq(Seq(Nodes))
    OBVIOUS
  <2>3. Tell("pathFound", << << >> >>) \in Seq(Message) /\ Tell("pathNodes", Grow(s)) \in Seq(Message)
    BY <2>1, <2>2, TellAppend
  <2> QED
    BY <2>3 DEF Shows
<1>4. Visits(run.visited) \o << >> = Visits(run.visited)
  BY <1>2, ConcatEmptySeq
<1> DEFINE shown == Shows(SubSeq(run.route, 2, run.shown + 1))
<1>5. Heard = Visits(run.visited) \o IF run.phase \in {"found", "route"} THEN shown ELSE << >>
  BY DEF Heard
<1>6. SubSeq(run.route, 2, run.shown + 1) \in Seq(Nodes) => shown \in Seq(Message)
  BY <1>3
<1> HIDE DEF shown
<1>7. shown \in Seq(Message) => Heard \in Seq(Message)
  BY <1>2, <1>4, <1>5
<1>8. run.phase \notin {"found", "route"} => Heard = Visits(run.visited) /\ Heard \in Seq(Message)
  BY <1>2, <1>4, <1>5
<1> QED
  BY <1>2, <1>6, <1>7, <1>8 DEF shown

(* What a step that does not end the call sends is what is heard more.      *)
LEMMA HeardGrows ==
  ASSUME IInv, ShownIsInner, NEW m \in Moves(run), run' = m.next, run'.phase \notin Over
  PROVE  /\ Heard \in Seq(Message)
         /\ Heard' = Heard \o m.says
         /\ ShownIsInner'
<1>1. /\ run \in Run /\ run.visited \in Seq(Nodes) /\ run.route \in Seq(Nodes) /\ run.shown \in Nat
      /\ Visits(run.visited) \in Seq(Message)
  <2>1. run.phase \notin Over
    BY DEF Moves, Over
  <2> QED
    BY <2>1, HeardIsStream DEF IInv, TypeOK, Run
<1>2. ASSUME NEW p \in Over PROVE m # Quietly(run, p)
  BY <1>1, <1>2 DEF Quietly, Move, Run
<1>3. Misnamed(run) \subseteq {Quietly(run, p) : p \in Over} /\ Quietly(run, "done") \in {Quietly(run, p) : p \in Over}
  BY DEF Misnamed, Over
<1>4. m \notin Misnamed(run) /\ m # Quietly(run, "done") /\ m # Quietly(run, "undefined")
  BY <1>2, <1>3 DEF Over
<1>5. CASE run.phase = "called"
  <2>1. m = Quietly(run, "search")
    BY <1>4, <1>5 DEF Moves
  <2>2. m.says = << >> /\ run'.phase = "search" /\ run'.visited = run.visited /\ run'.shown = run.shown
    BY <1>1, <2>1 DEF Quietly, Move, Run
  <2>3. Heard = Visits(run.visited) /\ Heard \in Seq(Message)
    BY <1>5, HeardIsStream DEF Over
  <2>4. Heard' = Visits(run.visited) \o << >>
    BY <2>2 DEF Heard
  <2> QED
    BY <1>5, <2>2, <2>3, <2>4 DEF ShownIsInner
<1>6. CASE run.phase = "search"
  <2>1. PICK n \in Frontier(run) : m = Take(run, n)
    BY <1>4, <1>6 DEF Moves, SearchMoves
  <2>2. n \in Nodes
    BY <1>6, FrontierReachable DEF IInv, TypeOK, AcceptedIsKnown
  <2>3. Heard = Visits(run.visited) /\ Heard \in Seq(Message)
    BY <1>6, HeardIsStream DEF Over
  <2>4. CASE n = run.end
    <3>1. run' = [run EXCEPT !.phase = "found"] /\ m.says = Say("pathFound", << >>)
      BY <2>1, <2>4 DEF Take, Move
    <3>2. run'.phase = "found" /\ run'.visited = run.visited /\ run'.shown = 0 /\ run'.route = << >>
      BY <1>1, <1>6, <3>1 DEF Run, ShownIsInner, IInv, RouteIsRoute
    <3>3. SubSeq(<< >>, 2, 1) = << >>
      BY SubSeqEmpty
    <3>4. Shows(<< >>) = Say("pathFound", << >>)
      <4>1. Grow(<< >>) = << >>
        BY DEF Grow
      <4>2. Tell("pathNodes", << >>) = << >>
        BY DEF Tell
      <4>3. Tell("pathFound", << << >> >>) = Say("pathFound", << >>)
        BY DEF Tell, Say
      <4>4. Say("pathFound", << >>) \in Seq(Message)
        <5>1. << >> \in Seq(Nodes) /\ Append(<< >>, << >>) = << << >> >>
          OBVIOUS
        <5>2. << << >> >> \in Seq(Seq(Nodes))
          BY <5>1
        <5> QED
          BY <4>3, <5>1, <5>2, TellAppend
      <4> QED
        BY <4>1, <4>2, <4>3, <4>4, ConcatEmptySeq DEF Shows
    <3>5. Heard' = Visits(run.visited) \o Say("pathFound", << >>)
      <4>1. run'.shown + 1 = 1
        BY <3>2
      <4>2. Heard' = Visits(run'.visited) \o Shows(SubSeq(run'.route, 2, run'.shown + 1))
        BY <3>2 DEF Heard
      <4> QED
        BY <3>2, <3>3, <3>4, <4>1, <4>2
    <3> QED
      BY <2>3, <3>1, <3>2, <3>5 DEF ShownIsInner
  <2>5. CASE n # run.end
    <3>1. /\ run' = [run EXCEPT !.visited = Append(run.visited, n)]
          /\ m.says = Say("visitedNodes", Append(run.visited, n))
      BY <2>1, <2>5 DEF Take, Move
    <3>2. run'.phase = "search" /\ run'.visited = Append(run.visited, n) /\ run'.shown = run.shown
      BY <1>1, <1>6, <3>1 DEF Run
    <3>3. /\ Visits(Append(run.visited, n)) = Visits(run.visited) \o m.says
          /\ Visits(Append(run.visited, n)) \in Seq(Message)
      <4>1. Append(run.visited, n) \in Seq(Nodes)
        BY <1>1, <2>2
      <4> QED
        BY <1>1, <2>2, <3>1, <4>1, VisitsAppend
    <3>4. Heard' = Visits(Append(run.visited, n))
      BY <3>2, <3>3, ConcatEmptySeq DEF Heard
    <3> QED
      BY <1>6, <2>3, <3>2, <3>3, <3>4 DEF ShownIsInner
  <2> QED
    BY <2>4, <2>5
<1>7. CASE run.phase = "found"
  <2>1. PICK p \in Routes(run) : m = Rebuild(run, p)
    BY <1>7 DEF Moves
  <2>2. /\ m.says = << >>
        /\ run'.phase = "route" /\ run'.visited = run.visited /\ run'.shown = 0 /\ run'.route = p
    BY <1>1, <1>7, <2>1 DEF Rebuild, Move, Run, ShownIsInner
  <2>3. run.shown = 0 /\ run.route = << >>
    BY <1>7 DEF ShownIsInner, IInv, RouteIsRoute
  <2>4. SubSeq(run.route, 2, run.shown + 1) = << >> /\ SubSeq(p, 2, 0 + 1) = << >>
    BY <2>3, SubSeqEmpty
  <2>5. Heard \in Seq(Message) /\ Heard' = Heard
    <3>1. << >> \in Seq(Nodes)
      OBVIOUS
    <3> QED
      BY <1>7, <2>2, <2>4, <3>1, HeardIsStream DEF Heard, Over
  <2> QED
    BY <2>2, <2>5, ConcatEmptySeq DEF ShownIsInner
<1>8. CASE run.phase = "route"
  <2> DEFINE k == run.shown
             says == Say("pathNodes", SubSeq(run.route, 2, k + 2))
  <2>1. m \in RouteMoves(run)
    BY <1>8 DEF Moves
  <2>2. (k + 1) + 1 = k + 2 /\ k \in Nat /\ k + 1 \in Nat
    BY <1>1
  <2>3. k + 1 < Len(run.route) - 1 /\ m = Move([run EXCEPT !.shown = k + 1], says)
    BY <1>4, <2>1, <2>2 DEF RouteMoves
  <2>4. /\ run'.phase = "route" /\ run'.visited = run.visited /\ run'.route = run.route
        /\ run'.shown = k + 1
        /\ m.says = says
    BY <1>1, <1>8, <2>3 DEF Move, Run
  <2>5. /\ SubSeq(run.route, 2, k + 1) \in Seq(Nodes)
        /\ run.route[k + 2] \in Nodes
        /\ SubSeq(run.route, 2, k + 2) = SubSeq(run.route, 2, k + 1) \o <<run.route[k + 2]>>
    <3>1. k + 2 <= Len(run.route)
      BY <1>1, <2>3
    <3> QED
      BY <1>1, <3>1, InnerGrows
  <2>6. SubSeq(run.route, 2, k + 2) = Append(SubSeq(run.route, 2, k + 1), run.route[k + 2])
    BY <2>5, AppendIsConcat
  <2>7. Shows(SubSeq(run.route, 2, k + 2)) = Shows(SubSeq(run.route, 2, k + 1)) \o says
    BY <2>5, <2>6, ShowsAppend
  <2>8. says \in Seq(Message)
    BY <2>4, SaysMessages
  <2>9. Heard \in Seq(Message) /\ Shows(SubSeq(run.route, 2, k + 1)) \in Seq(Message)
    BY <1>8, <2>5, HeardIsStream DEF Over
  <2>10. Heard = Visits(run.visited) \o Shows(SubSeq(run.route, 2, k + 1))
    BY <1>8 DEF Heard
  <2>11. Heard' = Visits(run.visited) \o (Shows(SubSeq(run.route, 2, k + 1)) \o says)
    <3>1. Heard' = Visits(run.visited) \o Shows(SubSeq(run.route, 2, (k + 1) + 1))
      BY <2>4 DEF Heard
    <3> QED
      BY <2>2, <2>7, <3>1
  <2>12. Heard' = Heard \o says
    <3> DEFINE v == Visits(run.visited)
               shown == Shows(SubSeq(run.route, 2, k + 1))
    <3>1. v \in Seq(Message) /\ shown \in Seq(Message) /\ says \in Seq(Message)
      BY <1>1, <2>8, <2>9
    <3>2. Heard = v \o shown /\ Heard' = v \o (shown \o says)
      BY <2>10, <2>11
    <3> HIDE DEF says, v, shown
    <3>3. v \o (shown \o says) = (v \o shown) \o says
      BY <3>1, ConcatAssociative
    <3> QED
      BY <3>2, <3>3
  <2>13. ShownIsInner'
    BY <1>1, <2>2, <2>3, <2>4 DEF ShownIsInner
  <2> QED
    BY <2>4, <2>9, <2>12, <2>13
<1> QED
  BY <1>5, <1>6, <1>7, <1>8 DEF Moves

(* A call that is about to return has said its whole transcript. *)
LEMMA AllIsHeard ==
  ASSUME IInv, ShownIsInner, NEW m \in Moves(run), run' = m.next, run'.phase = "done", ~Refused(run)
  PROVE  /\ Heard \in Seq(Message)
         /\ Transcript' = Heard
         /\ m.says = << >>
<1>1. /\ run \in Run /\ run.visited \in Seq(Nodes) /\ run.route \in Seq(Nodes) /\ run.shown \in Nat
      /\ run.phase \notin Over
      /\ Visits(run.visited) \in Seq(Message)
  <2>1. run.phase \notin Over
    BY DEF Moves, Over
  <2> QED
    BY <2>1, HeardIsStream DEF IInv, TypeOK, Run
<1>2. m = Quietly(run, "done") /\ run.phase \in {"search", "route"}
  <2>1. run' \in Run \/ run'.phase = "done"
    OBVIOUS
  <2>2. CASE run.phase = "called"
    <3>1. \A p \in {"search", "raised", "undefined"} : Quietly(run, p).next.phase = p
      BY <1>1 DEF Quietly, Move, Run
    <3>2. \E p \in {"search", "raised", "undefined"} : m = Quietly(run, p)
      BY <2>2 DEF Moves, Misnamed
    <3> QED
      BY <3>1, <3>2
  <2>3. CASE run.phase = "search"
    <3>1. \A p \in {"raised", "undefined"} : Quietly(run, p).next.phase = p
      BY <1>1 DEF Quietly, Move, Run
    <3>2. \A n : Take(run, n).next.phase \in {"search", "found"}
      BY <1>1, <2>3 DEF Take, Move, Run
    <3> QED
      BY <2>3, <3>1, <3>2 DEF Moves, SearchMoves, Misnamed
  <2>4. CASE run.phase = "found"
    <3>1. \A p : Rebuild(run, p).next.phase = "route"
      BY <1>1 DEF Rebuild, Move, Run
    <3> QED
      BY <2>4, <3>1 DEF Moves
  <2>5. CASE run.phase = "route"
    <3>1. Quietly(run, "undefined").next.phase = "undefined"
      BY <1>1 DEF Quietly, Move, Run
    <3>2. \A says : Move([run EXCEPT !.shown = run.shown + 1], says).next.phase = "route"
      BY <1>1, <2>5 DEF Move, Run
    <3> QED
      BY <2>5, <3>1, <3>2 DEF Moves, RouteMoves
  <2> QED
    BY <1>1, <2>2, <2>3, <2>4, <2>5 DEF Moves
<1>3. m.says = << >> /\ run'.visited = run.visited /\ run'.route = run.route
  BY <1>1, <1>2 DEF Quietly, Move, Run
<1>4. Transcript' = Visits(run.visited)
                      \o IF run.route = << >> THEN << >>
                         ELSE Shows(SubSeq(run.route, 2, Len(run.route) - 1))
  BY <1>3 DEF Transcript, Visits, Shows, Tell, Grow
<1>5. CASE run.phase = "search"
  BY <1>3, <1>4, <1>5, HeardIsStream DEF IInv, RouteIsRoute, Heard, Over
<1>6. CASE run.phase = "route"
  <2>1. run.route # << >> /\ Len(run.route) \in Nat /\ Len(run.route) >= 1
    BY <1>1, <1>6 DEF IInv, RouteIsRoute, IsRoute
  <2>2. ~(run.shown + 1 < Len(run.route) - 1)
    <3>1. \A says : Quietly(run, "done") # Move([run EXCEPT !.shown = run.shown + 1], says)
      <4>1. \A says : Move([run EXCEPT !.shown = run.shown + 1], says).next.phase = "route"
        BY <1>1, <1>6 DEF Move, Run
      <4> QED
        BY <1>2, <4>1
    <3>2. Quietly(run, "done") # Quietly(run, "undefined")
      BY <1>1 DEF Quietly, Move, Run
    <3> QED
      BY <1>2, <1>6, <3>1, <3>2 DEF Moves, RouteMoves
  <2>3. SubSeq(run.route, 2, run.shown + 1) = SubSeq(run.route, 2, Len(run.route) - 1)
    <3>1. CASE run.shown # 0
      <4>1. run.shown + 1 = Len(run.route) - 1
        BY <1>1, <1>6, <2>1, <2>2, <3>1 DEF ShownIsInner
      <4> QED
        BY <4>1
    <3>2. CASE run.shown = 0
      <4>1. run.shown + 1 < 2 /\ Len(run.route) - 1 < 2
        BY <2>1, <2>2, <3>2
      <4>2. run.shown + 1 \in Int /\ Len(run.route) - 1 \in Int
        BY <1>1, <2>1
      <4> QED
        BY <4>1, <4>2, SubSeqEmpty
    <3> QED
      BY <3>1, <3>2
  <2>4. SubSeq(run.route, 2, Len(run.route) - 1) \in Seq(Nodes)
    BY <1>1, <2>1
  <2>5. Heard = Visits(run.visited) \o Shows(SubSeq(run.route, 2, Len(run.route) - 1))
    BY <1>6, <2>3 DEF Heard
  <2>6. Heard \in Seq(Message)
    BY <1>6, <2>3, <2>4, HeardIsStream DEF Over
  <2> QED
    BY <1>3, <1>4, <2>1, <2>5, <2>6
<1> QED
  BY <1>2, <1>3, <1>5, <1>6

(* No step changes what the call was made with. *)
LEMMA SameCall ==
  ASSUME run \in Run, NEW m \in Moves(run)
  PROVE  /\ m.next.alg = run.alg /\ m.next.list = run.list
         /\ m.next.start = run.start /\ m.next.end = run.end
<1> DEFINE Same(r) == r.alg = run.alg /\ r.list = run.list /\ r.start = run.start /\ r.end = run.end
<1>1. \A p : Same(Quietly(run, p).next)
  BY DEF Quietly, Move, Run
<1>2. \A n : Same(Take(run, n).next)
  BY DEF Take, Move, Run
<1>3. \A p : Same(Rebuild(run, p).next)
  BY DEF Rebuild, Move, Run
<1>4. \A k, says : Same(Move([run EXCEPT !.shown = k], says).next)
  BY DEF Move, Run
<1>5. \/ \E p : m = Quietly(run, p)
      \/ \E n : m = Take(run, n)
      \/ \E p : m = Rebuild(run, p)
      \/ \E k, says : m = Move([run EXCEPT !.shown = k], says)
  <2>1. CASE run.phase = "called"
    <3>1. \E p \in {"done", "search", "raised", "undefined"} : m = Quietly(run, p)
      BY <2>1 DEF Moves, Misnamed
    <3> QED
      BY <3>1
  <2>2. CASE run.phase = "search"
    <3>1. \/ \E p \in {"done", "raised", "undefined"} : m = Quietly(run, p)
          \/ \E n \in Frontier(run) : m = Take(run, n)
      BY <2>2 DEF Moves, SearchMoves, Misnamed
    <3> QED
      BY <3>1
  <2>3. CASE run.phase = "found"
    <3>1. \E p \in Routes(run) : m = Rebuild(run, p)
      BY <2>3 DEF Moves
    <3> QED
      BY <3>1
  <2>4. CASE run.phase = "route"
    <3>1. \/ m = Quietly(run, "undefined")
          \/ m = Move([run EXCEPT !.shown = run.shown + 1],
                      Say("pathNodes", SubSeq(run.route, 2, run.shown + 1 + 1)))
          \/ m = Quietly(run, "done")
      BY <2>4 DEF Moves, RouteMoves
    <3> QED
      BY <3>1
  <2> QED
    BY <2>1, <2>2, <2>3, <2>4 DEF Moves
<1>6. \/ \E p : m.next = Quietly(run, p).next
      \/ \E n : m.next = Take(run, n).next
      \/ \E p : m.next = Rebuild(run, p).next
      \/ \E k, says : m.next = Move([run EXCEPT !.shown = k], says).next
  BY <1>5
<1> HIDE DEF Same
<1>7. Same(m.next)
  BY <1>1, <1>2, <1>3, <1>4, <1>6
<1> QED
  BY <1>7 DEF Same

(* What the client has, stays a beginning of what the call has said. *)
LEMMA StreamStays ==
  IInv /\ ShownIsInner /\ StreamIsHeard /\ StreamIsTranscript /\ [Next]_vars
    => ShownIsInner' /\ StreamIsHeard' /\ StreamIsTranscript'
<1> SUFFICES ASSUME IInv, ShownIsInner, StreamIsHeard, StreamIsTranscript, [Next]_vars
             PROVE  ShownIsInner' /\ StreamIsHeard' /\ StreamIsTranscript'
  OBVIOUS
<1>1. CASE Advance
  <2>1. PICK m \in Moves(run) :
          /\ run' = m.next
          /\ sent' = IF open THEN sent \o m.says ELSE sent
          /\ open' = open
    BY <1>1 DEF Advance
  <2>2. run.phase \notin Over
    BY DEF Moves, Over
  <2>3. /\ sent \in Seq(Message) /\ m.says \in Seq(Message)
        /\ open => sent = Heard
    BY <2>2, SaysMessages DEF IInv, TypeOK, StreamIsHeard
  <2>4. PICK rest \in Seq(Message) : Heard = sent \o rest
    BY <2>2 DEF StreamIsHeard
  <2>5. CASE run'.phase \notin Over
    <3>1. Heard \in Seq(Message) /\ Heard' = Heard \o m.says /\ ShownIsInner'
      BY <2>1, <2>5, HeardGrows
    <3>2. StreamIsHeard'
      <4>1. CASE open
        <5>1. sent' = Heard' /\ Heard' \in Seq(Message)
          BY <2>1, <2>3, <3>1, <4>1
        <5>2. Heard' = sent' \o << >> /\ << >> \in Seq(Message)
          BY <5>1, ConcatEmptySeq
        <5> QED
          BY <5>1, <5>2 DEF StreamIsHeard
      <4>2. CASE ~open
        <5>1. sent' = sent /\ ~open'
          BY <2>1, <4>2
        <5>2. Heard' = sent \o (rest \o m.says)
          <6>1. Heard' = (sent \o rest) \o m.says
            BY <2>4, <3>1
          <6>2. (sent \o rest) \o m.says = sent \o (rest \o m.says)
            <7> DEFINE says == m.says
            <7>1. sent \in Seq(Message) /\ rest \in Seq(Message) /\ says \in Seq(Message)
              BY <2>3
            <7> HIDE DEF says
            <7>2. (sent \o rest) \o says = sent \o (rest \o says)
              BY <7>1, ConcatAssociative
            <7> QED
              BY <7>2 DEF says
          <6> QED
            BY <6>1, <6>2
        <5>3. rest \o m.says \in Seq(Message)
          BY <2>3
        <5> QED
          BY <5>1, <5>2, <5>3 DEF StreamIsHeard
      <4> QED
        BY <4>1, <4>2
    <3>3. StreamIsTranscript'
      BY <2>5 DEF StreamIsTranscript, Over
    <3> QED
      BY <3>1, <3>2, <3>3
  <2>6. CASE run'.phase \in Over
    <3>1. ShownIsInner' /\ StreamIsHeard'
      BY <2>6 DEF ShownIsInner, StreamIsHeard, Over
    <3>2. StreamIsTranscript'
      <4> SUFFICES ASSUME run'.phase = "done", ~Refused(run')
                   PROVE  /\ Len(sent') <= Len(Transcript')
                          /\ sent' = SubSeq(Transcript', 1, Len(sent'))
                          /\ open' => Len(sent') = Len(Transcript')
        BY DEF StreamIsTranscript
      <4>1. ~Refused(run)
        <5>1. /\ run'.alg = run.alg /\ run'.list = run.list
              /\ run'.start = run.start /\ run'.end = run.end
          BY <2>1, SameCall DEF IInv, TypeOK
        <5> QED
          BY <5>1, ArgumentsStay
      <4>2. Heard \in Seq(Message) /\ Transcript' = Heard /\ m.says = << >>
        BY <2>1, <4>1, AllIsHeard
      <4>3. sent' = sent
        BY <2>1, <2>3, <4>2, ConcatEmptySeq
      <4>4. /\ Len(sent) <= Len(Heard)
            /\ sent = SubSeq(Heard, 1, Len(sent))
        <5>1. SubSeq(sent \o rest, 1, Len(sent)) = sent
          BY <2>3, PrefixStays
        <5>2. Len(sent \o rest) = Len(sent) + Len(rest) /\ Len(rest) \in Nat /\ Len(sent) \in Nat
          BY <2>3, ConcatProperties
        <5> QED
          BY <2>4, <5>1, <5>2
      <4> QED
        BY <2>1, <2>3, <4>2, <4>3, <4>4
    <3> QED
      BY <3>1, <3>2
  <2> QED
    BY <2>5, <2>6
<1>2. CASE HangUp \/ UNCHANGED vars
  <2>1. run' = run /\ sent' = sent /\ (open' => open)
    BY <1>2 DEF HangUp, vars
  <2>2. Heard' = Heard /\ Transcript' = Transcript
    BY <2>1 DEF Heard, Transcript
  <2> QED
    BY <2>1, <2>2 DEF ShownIsInner, StreamIsHeard, StreamIsTranscript
<1> QED
  BY <1>1, <1>2 DEF Next

(* A client that stays until the call returns has been sent the whole       *)
(* transcript, every message once and in order; one that left has been sent *)
(* a beginning of it.                                                       *)
THEOREM StreamIsWhole == Spec => []StreamIsTranscript
<1>1. Init => ShownIsInner /\ StreamIsHeard /\ StreamIsTranscript
  <2> SUFFICES ASSUME Init PROVE ShownIsInner /\ StreamIsHeard /\ StreamIsTranscript
    OBVIOUS
  <2>1. run.phase = "called" /\ run.visited = << >> /\ run.shown = 0 /\ sent = << >>
    BY CallsAssumption DEF Init, Call
  <2>2. Visits(<< >>) = << >>
    BY DEF Visits, Tell, Grow
  <2>3. Heard = << >> \o << >>
    BY <2>1, <2>2 DEF Heard
  <2>4. << >> \in Seq(Message) /\ Heard = << >>
    BY <2>3, ConcatEmptySeq
  <2> QED
    BY <2>1, <2>3, <2>4 DEF ShownIsInner, StreamIsHeard, StreamIsTranscript
<1> QED
  BY <1>1, InitIInv, NextIInv, StreamStays, PTL DEF Spec
===============================================================================
