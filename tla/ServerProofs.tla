----------------------------- MODULE ServerProofs -----------------------------
(***************************************************************************)
(* What the server keeps true however its handlers nest, proved for every  *)
(* set of clients, of nodes and of requests, and any number of messages.   *)
(***************************************************************************)
EXTENDS Server, RangeLemmas

(* The state of a call that has begun and not ended.  Whatever it visited   *)
(* is a key of its list, met from a node visited before; shown counts only  *)
(* while a path is shown.                                                   *)
Sound(r) ==
  /\ r.phase \in {"search", "found", "route"} => ~Refused(r)
  /\ r.phase \in {"found", "route"} => r.end \in Nodes
  /\ r.phase = "called" => r.visited = << >>
  /\ r.phase # "route" => r.shown = 0
  /\ Range(r.visited) \subseteq DOMAIN r.list
  /\ \A k \in 2..Len(r.visited) : \E j \in 1..k - 1 :
       r.visited[k] \in Successors(r.list, r.visited[j])
  /\ r.phase = "route" => IsRoute(r, r.route)

GoodFrame ==
  {f \in [hdl : Clients, polling : BOOLEAN, taken : AdjacencyList, run : Run] :
     f.taken = f.run.list /\ f.run.phase \notin Over /\ Sound(f.run)}

(* No connection whose search is on the stack s is read, so none has two;   *)
(* and no message of a client is delivered before it has opened.            *)
Exclusive(s) ==
  /\ \A i \in 1..Len(s) : session[s[i].hdl] # "new" /\ ~reading[s[i].hdl]
  /\ \A i, j \in 1..Len(s) : s[i].hdl = s[j].hdl => i = j

ReadAreOpened == \A c \in Clients : reading[c] => session[c] # "new"

(* The last message in the stream o is the last that the call r has sent.   *)
EndsWith(o, kind, nodes) == o # << >> /\ o[Len(o)] = [kind |-> kind, nodes |-> nodes]

Told(o, r) ==
  /\ r.phase = "search" /\ r.visited # << >> => EndsWith(o, "visitedNodes", r.visited)
  /\ r.phase = "found" => EndsWith(o, "pathFound", << >>)
  /\ r.phase = "route" =>
       IF r.shown = 0 THEN EndsWith(o, "pathFound", << >>)
       ELSE EndsWith(o, "pathNodes", SubSeq(r.route, 2, r.shown + 1))

(* So it is for every search in s whose client is still there.              *)
Linked(s) ==
  \A i \in 1..Len(s) : session[s[i].hdl] = "open" => Told(out[s[i].hdl], s[i].run)

StreamOK(o) ==
  \A i \in 1..Len(o) :
    IF i = 1 THEN Len(o[1].nodes) <= 1 /\ o[1].kind # "pathNodes"
    ELSE Follows(o[i - 1], o[i])

(* What holds of the sessions and streams when the searches in s are under  *)
(* way: all of the stack, or those below the handler that is about to end.  *)
Runs(s) ==
  /\ session \in [Clients -> {"new", "open", "closing", "closed"}]
  /\ reading \in [Clients -> BOOLEAN]
  /\ out \in [Clients -> Seq(Message)]
  /\ server \in {"running", "stopped", "aborted", "undefined"}
  /\ s \in Seq(GoodFrame)
  /\ Exclusive(s)
  /\ ReadAreOpened
  /\ Linked(s)
  /\ StreamsDoNotMix

IInv ==
  /\ Runs(stack)
  /\ DOMAIN graph \subseteq Nodes
  /\ GraphIsOneUpload
  /\ connected_clients \subseteq Clients
  /\ messages \in 0..MaxMessages

-----------------------------------------------------------------------------
(* The steps of a call. *)

(* What may be taken next is a key. *)
LEMMA FrontierIsKeys ==
  ASSUME NEW r \in Run, ~Refused(r)
  PROVE  Frontier(r) \subseteq DOMAIN r.list /\ DOMAIN r.list \subseteq Nodes
<1>1. r.start \in DOMAIN r.list
  BY DEF Refused
<1>2. \A n : Successors(r.list, n) \subseteq DOMAIN r.list
  BY DEF Successors
<1>3. DOMAIN r.list \subseteq Nodes
  BY DEF Run, AdjacencyList
<1> QED
  BY <1>1, <1>2, <1>3 DEF Frontier

(* What a message has to be for the stream o to go on with it. *)
Fits(o, y) ==
  IF o = << >> THEN Len(y.nodes) <= 1 /\ y.kind # "pathNodes" ELSE Follows(o[Len(o)], y)

(* What every step does that does not end the call: it leaves the list as   *)
(* it is and the call sound, and what it sends goes on from what was sent.  *)
GoesOn(r, m) ==
  /\ m.next \in Run
  /\ m.next.list = r.list
  /\ m.next.phase \notin Over
  /\ Sound(m.next)
  /\ \/ m.says = << >> /\ \A o \in Seq(Message) : Told(o, r) => Told(o, m.next)
     \/ \E y \in Message :
          /\ m.says = <<y>>
          /\ \A o \in Seq(Message) : Told(o, r) => Fits(o, y) /\ Told(Append(o, y), m.next)

(* The guards let the call pass. *)
LEMMA AcceptedGoesOn ==
  ASSUME NEW r \in Run, Sound(r), r.phase = "called", ~Refused(r)
  PROVE  GoesOn(r, Quietly(r, "search"))
<1> DEFINE next == [r EXCEPT !.phase = "search"]
           m == Quietly(r, "search")
<1>1. m.next = next /\ m.says = << >>
  BY DEF Quietly, Move
<1>2. /\ next \in Run
      /\ next.phase = "search"
      /\ next.alg = r.alg /\ next.list = r.list /\ next.start = r.start /\ next.end = r.end
      /\ next.visited = r.visited /\ next.route = r.route /\ next.shown = r.shown
  BY DEF Run, Phase
<1>3. r.visited = << >> /\ r.shown = 0
  BY DEF Sound
<1> HIDE DEF next, m
<1>4. ~Refused(next)
  BY <1>2 DEF Refused
<1>5. Sound(next)
  BY <1>2, <1>3, <1>4 DEF Sound
<1>6. \A o : Told(o, next)
  BY <1>2, <1>3 DEF Told
<1>7. GoesOn(r, m)
  BY <1>1, <1>2, <1>5, <1>6 DEF GoesOn, Over
<1> QED
  BY <1>7 DEF m

(* A node of the frontier is taken: it is the end, or it is shown behind    *)
(* those that were visited before.                                          *)
LEMMA TakeGoesOn ==
  ASSUME NEW r \in Run, Sound(r), r.phase = "search", NEW n \in Frontier(r)
  PROVE  GoesOn(r, Take(r, n))
<1> DEFINE m == Take(r, n)
<1>1. ~Refused(r) /\ r.shown = 0 /\ Range(r.visited) \subseteq DOMAIN r.list
  BY DEF Sound
<1>2. n \in DOMAIN r.list /\ n \in Nodes
  BY <1>1, FrontierIsKeys
<1>3. r.visited \in Seq(Nodes)
  BY DEF Run
<1>4. CASE n = r.end
  <2> DEFINE next == [r EXCEPT !.phase = "found"]
             y == [kind |-> "pathFound", nodes |-> << >>]
  <2>1. m.next = next /\ m.says = <<y>>
    BY <1>4 DEF Take, Move, Say
  <2>2. /\ next \in Run
        /\ next.phase = "found"
        /\ next.alg = r.alg /\ next.list = r.list /\ next.start = r.start /\ next.end = r.end
        /\ next.visited = r.visited /\ next.route = r.route /\ next.shown = r.shown
    BY DEF Run, Phase
  <2>3. y \in Message /\ y.kind = "pathFound" /\ y.nodes = << >>
    BY DEF Message
  <2> HIDE DEF next, m, y
  <2>4. Sound(next)
    <3>1. ~Refused(next)
      BY <1>1, <2>2 DEF Refused
    <3> QED
      BY <1>1, <1>2, <1>4, <2>2, <3>1 DEF Sound
  <2>5. ASSUME NEW o \in Seq(Message)
        PROVE  Fits(o, y) /\ Told(Append(o, y), next)
    <3>1. Append(o, y) # << >> /\ Append(o, y)[Len(Append(o, y))] = y
      OBVIOUS
    <3>2. y = [kind |-> "pathFound", nodes |-> << >>]
      BY DEF y
    <3>3. Told(Append(o, y), next)
      BY <2>2, <3>1, <3>2 DEF Told, EndsWith
    <3>4. Fits(o, y)
      BY <2>3 DEF Fits, Follows
    <3> QED
      BY <3>3, <3>4
  <2>6. GoesOn(r, m)
    BY <2>1, <2>2, <2>3, <2>4, <2>5 DEF GoesOn, Over
  <2> QED
    BY <2>6 DEF m
<1>5. CASE n # r.end
  <2> DEFINE visited == Append(r.visited, n)
             next == [r EXCEPT !.visited = visited]
             y == [kind |-> "visitedNodes", nodes |-> visited]
  <2>1. m.next = next /\ m.says = <<y>>
    BY <1>5 DEF Take, Move, Say
  <2>2. /\ visited \in Seq(Nodes)
        /\ visited # << >>
        /\ Range(visited) = Range(r.visited) \cup {n}
    BY <1>2, <1>3, RangeOfAppend
  <2>3. /\ Len(visited) = Len(r.visited) + 1
        /\ Len(r.visited) \in Nat
        /\ visited[Len(r.visited) + 1] = n
        /\ \A i \in 1..Len(r.visited) : visited[i] = r.visited[i]
        /\ SubSeq(visited, 1, Len(r.visited)) = r.visited
    BY <1>2, <1>3
  <2> HIDE DEF visited
  <2>4. /\ next \in Run
        /\ next.phase = "search"
        /\ next.alg = r.alg /\ next.list = r.list /\ next.start = r.start /\ next.end = r.end
        /\ next.visited = visited /\ next.route = r.route /\ next.shown = r.shown
    BY <2>2 DEF Run
  <2>5. y \in Message /\ y.kind = "visitedNodes" /\ y.nodes = visited
    BY <2>2 DEF Message
  <2>6. y = [kind |-> "visitedNodes", nodes |-> visited]
    OBVIOUS
  <2> HIDE DEF next, m, y
  <2>7. Sound(next)
    <3>1. ~Refused(next)
      BY <1>1, <2>4 DEF Refused
    <3>2. ASSUME NEW k \in 2..Len(visited)
          PROVE  \E j \in 1..k - 1 : visited[k] \in Successors(r.list, visited[j])
      <4>1. CASE k <= Len(r.visited)
        <5>1. \E j \in 1..k - 1 : r.visited[k] \in Successors(r.list, r.visited[j])
          BY <2>3, <4>1 DEF Sound
        <5> QED
          BY <2>3, <4>1, <5>1
      <4>2. CASE k = Len(r.visited) + 1
        <5>1. r.visited # << >>
          BY <2>3, <4>2
        <5>2. PICK v \in Range(r.visited) : n \in Successors(r.list, v)
          BY <5>1 DEF Frontier
        <5>3. PICK j \in 1..Len(r.visited) : v = r.visited[j]
          BY <1>3 DEF Range
        <5> QED
          BY <2>3, <4>2, <5>2, <5>3
      <4> QED
        BY <2>3, <4>1, <4>2
    <3> QED
      BY <1>1, <1>2, <2>2, <2>4, <3>1, <3>2 DEF Sound
  <2>8. ASSUME NEW o \in Seq(Message), Told(o, r)
        PROVE  Fits(o, y) /\ Told(Append(o, y), next)
    <3>1. Append(o, y) # << >> /\ Append(o, y)[Len(Append(o, y))] = y
      OBVIOUS
    <3>2. Told(Append(o, y), next)
      BY <2>4, <2>6, <3>1 DEF Told, EndsWith
    <3>3. CASE r.visited = << >>
      <4>1. Len(visited) = 1
        BY <2>3, <3>3
      <4> QED
        BY <2>5, <3>2, <4>1 DEF Fits, Follows
    <3>4. CASE r.visited # << >>
      <4>1. o # << >> /\ o[Len(o)] = [kind |-> "visitedNodes", nodes |-> r.visited]
        BY <2>8, <3>4 DEF Told, EndsWith
      <4>2. o[Len(o)].kind = "visitedNodes" /\ o[Len(o)].nodes = r.visited
        BY <4>1
      <4>3. Extends(o[Len(o)], y)
        BY <2>3, <2>5, <4>2 DEF Extends
      <4> QED
        BY <2>5, <3>2, <4>1, <4>2, <4>3 DEF Fits, Follows
    <3> QED
      BY <3>3, <3>4
  <2>9. GoesOn(r, m)
    BY <2>1, <2>4, <2>5, <2>7, <2>8 DEF GoesOn, Over
  <2> QED
    BY <2>9 DEF m
<1> QED
  BY <1>4, <1>5

(* The path is put together. *)
LEMMA RebuildGoesOn ==
  ASSUME NEW r \in Run, Sound(r), r.phase = "found", NEW p \in Routes(r)
  PROVE  GoesOn(r, Rebuild(r, p))
<1> DEFINE next == [r EXCEPT !.phase = "route", !.route = p]
           m == Rebuild(r, p)
<1>1. m.next = next /\ m.says = << >>
  BY DEF Rebuild, Move
<1>2. r.visited \in Seq(Nodes) /\ Range(r.visited) \subseteq Nodes /\ r.end \in Nodes /\ r.shown = 0
  BY DEF Run, Range, Sound
<1>3. p \in Seq(Nodes) /\ IsRoute(r, p)
  BY <1>2 DEF Routes
<1>4. /\ next \in Run
      /\ next.phase = "route"
      /\ next.alg = r.alg /\ next.list = r.list /\ next.start = r.start /\ next.end = r.end
      /\ next.visited = r.visited /\ next.route = p /\ next.shown = r.shown
  BY <1>3 DEF Run, Phase
<1> HIDE DEF next, m
<1>5. Sound(next)
  <2>1. ~Refused(next)
    BY <1>4 DEF Refused, Sound
  <2>2. IsRoute(next, p)
    BY <1>3, <1>4 DEF IsRoute
  <2> QED
    BY <1>4, <2>1, <2>2 DEF Sound
<1>6. \A o \in Seq(Message) : Told(o, r) => Told(o, next)
  BY <1>2, <1>4 DEF Told
<1>7. GoesOn(r, m)
  BY <1>1, <1>4, <1>5, <1>6 DEF GoesOn, Over
<1> QED
  BY <1>7 DEF m

(* An inner node of the path is shown behind those shown before. *)
LEMMA ShowGoesOn ==
  ASSUME NEW r \in Run, Sound(r), r.phase = "route", r.shown + 1 < Len(r.route) - 1,
         NEW m, m = Move([r EXCEPT !.shown = r.shown + 1],
                         Say("pathNodes", SubSeq(r.route, 2, r.shown + 2)))
  PROVE  GoesOn(r, m)
<1> DEFINE next == [r EXCEPT !.shown = r.shown + 1]
           now == SubSeq(r.route, 2, r.shown + 2)
           before == SubSeq(r.route, 2, r.shown + 1)
           y == [kind |-> "pathNodes", nodes |-> now]
<1>1. m.next = next /\ m.says = <<y>>
  BY DEF Move, Say
<1>2. r.route \in Seq(Nodes) /\ r.shown \in Nat /\ Len(r.route) \in Nat
  BY DEF Run
<1>3. /\ now \in Seq(Nodes) /\ before \in Seq(Nodes)
      /\ Len(now) = r.shown + 1 /\ Len(before) = r.shown
      /\ SubSeq(now, 1, Len(before)) = before
  <2>1. r.shown + 2 <= Len(r.route)
    BY <1>2
  <2>2. /\ before \in Seq(Nodes) /\ Len(before) = r.shown /\ r.route[r.shown + 2] \in Nodes
        /\ now = before \o <<r.route[r.shown + 2]>>
    BY <1>2, <2>1, InnerGrows
  <2> HIDE DEF now, before
  <2> QED
    BY <1>2, <2>2, PrefixStays
<1>4. r.shown = 0 => SubSeq(now, 1, 0) = << >>
  BY <1>3
<1>5. /\ next \in Run
      /\ next.phase = "route"
      /\ next.alg = r.alg /\ next.list = r.list /\ next.start = r.start /\ next.end = r.end
      /\ next.visited = r.visited /\ next.route = r.route /\ next.shown = r.shown + 1
  <2>1. r.shown + 1 \in Nat
    BY <1>2
  <2> QED
    BY <2>1 DEF Run
<1>6. now = SubSeq(next.route, 2, next.shown + 1) /\ next.shown # 0
  BY <1>2, <1>5
<1> HIDE DEF now, before
<1>7. y \in Message /\ y.kind = "pathNodes" /\ y.nodes = now
  BY <1>3 DEF Message
<1>8. y = [kind |-> "pathNodes", nodes |-> now]
  OBVIOUS
<1> HIDE DEF next, y
<1>9. Sound(next)
  <2>1. ~Refused(next)
    BY <1>5 DEF Refused, Sound
  <2>2. IsRoute(next, next.route)
    BY <1>5 DEF IsRoute, Sound
  <2> QED
    BY <1>5, <2>1, <2>2 DEF Sound
<1>10. ASSUME NEW o \in Seq(Message), Told(o, r)
       PROVE  Fits(o, y) /\ Told(Append(o, y), next)
  <2>1. Append(o, y) # << >> /\ Append(o, y)[Len(Append(o, y))] = y
    OBVIOUS
  <2>2. Told(Append(o, y), next)
    BY <1>5, <1>6, <1>8, <2>1 DEF Told, EndsWith
  <2>3. CASE r.shown = 0
    <3>1. o # << >> /\ o[Len(o)] = [kind |-> "pathFound", nodes |-> << >>]
      BY <1>10, <2>3 DEF Told, EndsWith
    <3>2. o[Len(o)].kind = "pathFound" /\ o[Len(o)].nodes = << >>
      BY <3>1
    <3>3. Extends(o[Len(o)], y)
      BY <1>3, <1>4, <1>7, <2>3, <3>2 DEF Extends
    <3> QED
      BY <1>7, <2>2, <3>1, <3>2, <3>3 DEF Fits, Follows
  <2>4. CASE r.shown # 0
    <3>1. o # << >> /\ o[Len(o)] = [kind |-> "pathNodes", nodes |-> before]
      BY <1>10, <2>4 DEF Told, EndsWith, before
    <3>2. o[Len(o)].kind = "pathNodes" /\ o[Len(o)].nodes = before
      BY <3>1
    <3>3. Extends(o[Len(o)], y)
      BY <1>3, <1>7, <3>2 DEF Extends
    <3> QED
      BY <1>7, <2>2, <3>1, <3>2, <3>3 DEF Fits, Follows
  <2> QED
    BY <2>3, <2>4
<1> QED
  BY <1>1, <1>5, <1>7, <1>9, <1>10 DEF GoesOn, Over

(* Every step of a call that does not end it goes on. *)
LEMMA MovesGoOn ==
  ASSUME NEW r \in Run, Sound(r), NEW m \in Moves(r), m.next.phase \notin Over
  PROVE  GoesOn(r, m)
<1>1. ASSUME NEW p \in Over PROVE m # Quietly(r, p)
  BY <1>1 DEF Quietly, Move, Run
<1>2. Misnamed(r) \subseteq {Quietly(r, p) : p \in Over} /\ Quietly(r, "done") \in {Quietly(r, p) : p \in Over}
  BY DEF Misnamed, Over
<1>3. m \notin Misnamed(r) /\ m # Quietly(r, "done") /\ m # Quietly(r, "undefined")
  BY <1>1, <1>2 DEF Over
<1>4. CASE r.phase = "called"
  BY <1>3, <1>4, AcceptedGoesOn DEF Moves
<1>5. CASE r.phase = "search"
  <2>1. \E n \in Frontier(r) : m = Take(r, n)
    BY <1>3, <1>5 DEF Moves, SearchMoves
  <2> QED
    BY <1>5, <2>1, TakeGoesOn
<1>6. CASE r.phase = "found"
  <2>1. \E p \in Routes(r) : m = Rebuild(r, p)
    BY <1>6 DEF Moves
  <2> QED
    BY <1>6, <2>1, RebuildGoesOn
<1>7. CASE r.phase = "route"
  <2>1. m \in RouteMoves(r)
    BY <1>7 DEF Moves
  <2>2. r.shown \in Nat
    BY DEF Run
  <2>3. /\ r.shown + 1 < Len(r.route) - 1
        /\ m = Move([r EXCEPT !.shown = r.shown + 1],
                    Say("pathNodes", SubSeq(r.route, 2, (r.shown + 1) + 1)))
    BY <1>3, <2>1 DEF RouteMoves
  <2>4. (r.shown + 1) + 1 = r.shown + 2
    BY <2>2
  <2> QED
    BY <1>7, <2>3, <2>4, ShowGoesOn
<1> QED
  BY <1>4, <1>5, <1>6, <1>7 DEF Moves

-----------------------------------------------------------------------------
(* Streams, sessions and the stack. *)

(* A message that fits leaves the stream in order. *)
LEMMA StreamGrows ==
  ASSUME NEW o \in Seq(Message), StreamOK(o), NEW y \in Message, Fits(o, y)
  PROVE  StreamOK(Append(o, y))
<1> DEFINE new == Append(o, y)
<1>1. /\ Len(new) = Len(o) + 1
      /\ Len(o) \in Nat
      /\ new[Len(o) + 1] = y
      /\ \A i \in 1..Len(o) : new[i] = o[i]
      /\ o = << >> <=> Len(o) = 0
  OBVIOUS
<1> HIDE DEF new
<1>2. ASSUME NEW i \in 1..Len(new)
      PROVE  IF i = 1 THEN Len(new[1].nodes) <= 1 /\ new[1].kind # "pathNodes"
             ELSE Follows(new[i - 1], new[i])
  <2>1. CASE i = Len(o) + 1 /\ i = 1
    BY <1>1, <2>1 DEF Fits
  <2>2. CASE i = Len(o) + 1 /\ i # 1
    <3>1. Follows(o[Len(o)], y)
      BY <1>1, <2>2 DEF Fits
    <3>2. new[i - 1] = o[Len(o)] /\ new[i] = y
      BY <1>1, <2>2
    <3> QED
      BY <2>2, <3>1, <3>2
  <2>3. CASE i \in 1..Len(o)
    <3>1. i # 1 => i - 1 \in 1..Len(o)
      BY <1>1, <2>3
    <3> QED
      BY <1>1, <2>3, <3>1 DEF StreamOK
  <2> QED
    BY <1>1, <1>2, <2>1, <2>2, <2>3
<1>3. StreamOK(new)
  BY <1>2 DEF StreamOK
<1> QED
  BY <1>3 DEF new

(* The property, one connection at a time. *)
LEMMA StreamsAreOK == StreamsDoNotMix <=> \A c \in Clients : StreamOK(out[c])
  BY DEF StreamsDoNotMix, StreamOK

(* What is known of a frame on the stack. *)
LEMMA GoodFrameFacts ==
  ASSUME NEW f \in GoodFrame
  PROVE  /\ f \in [hdl : Clients, polling : BOOLEAN, taken : AdjacencyList, run : Run]
         /\ f.hdl \in Clients /\ f.polling \in BOOLEAN
         /\ f.run \in Run /\ f.run.phase \notin Over /\ Sound(f.run) /\ f.taken = f.run.list
  BY DEF GoodFrame

Free(c, s) ==
  /\ c \in Clients
  /\ session[c] # "new"
  /\ \A i \in 1..Len(s) : s[i].hdl # c

(* The handler of a client returns to the searches below it. *)
LEMMA ReturnRuns ==
  ASSUME NEW s, Runs(s), NEW c, Free(c, s), HandlerReturns(c, s), session' = session, out' = out
  PROVE  Runs(stack)'
<1> USE DEF Runs
<1>1. stack' = s /\ server' = server /\ reading' = [reading EXCEPT ![c] = TRUE]
  BY DEF HandlerReturns
<1>2. reading' \in [Clients -> BOOLEAN]
  BY <1>1
<1>3. \A d \in Clients : reading'[d] = IF d = c THEN TRUE ELSE reading[d]
  BY <1>1
<1>4. \A i \in 1..Len(s) : s[i].hdl \in Clients /\ s[i].hdl # c
  BY GoodFrameFacts DEF Free
<1>5. Exclusive(stack)'
  BY <1>1, <1>3, <1>4 DEF Exclusive
<1>6. ReadAreOpened'
  BY <1>3 DEF ReadAreOpened, Free
<1>7. Linked(stack)' /\ StreamsDoNotMix'
  BY <1>1 DEF Linked, StreamsDoNotMix
<1> QED
  BY <1>1, <1>2, <1>5, <1>6, <1>7

(* The innermost search leaves its poll: nothing else of it changes. *)
LEMMA PollOver ==
  ASSUME NEW s \in Seq(GoodFrame), s # << >>,
         NEW t, t = [s EXCEPT ![Len(s)].polling = FALSE]
  PROVE  /\ t \in Seq(GoodFrame)
         /\ Len(t) = Len(s)
         /\ \A i \in 1..Len(s) : t[i].hdl = s[i].hdl /\ t[i].run = s[i].run
<1> DEFINE f == [s[Len(s)] EXCEPT !.polling = FALSE]
<1>1. Len(s) \in 1..Len(s) /\ s[Len(s)] \in GoodFrame
  OBVIOUS
<1>2. f \in GoodFrame /\ f.hdl = s[Len(s)].hdl /\ f.run = s[Len(s)].run
  BY <1>1, GoodFrameFacts DEF GoodFrame
<1>3. t = [s EXCEPT ![Len(s)] = f]
  OBVIOUS
<1> HIDE DEF f
<1>4. /\ t \in Seq(GoodFrame)
      /\ Len(t) = Len(s)
      /\ \A i \in 1..Len(s) : t[i] = IF i = Len(s) THEN f ELSE s[i]
  <2>1. /\ [s EXCEPT ![Len(s)] = f] \in Seq(GoodFrame)
        /\ Len([s EXCEPT ![Len(s)] = f]) = Len(s)
        /\ \A i \in 1..Len(s) : [s EXCEPT ![Len(s)] = f][i] = IF i = Len(s) THEN f ELSE s[i]
    BY <1>1, <1>2, ExceptSeq
  <2> QED
    BY <2>1, <1>3
<1> QED
  BY <1>2, <1>4

(* Or an exception leaves it. *)
LEMMA ThrowRuns ==
  ASSUME NEW s, Runs(s), NEW c, Free(c, s), HandlerThrows(c, s), session' = session, out' = out
  PROVE  Runs(stack)'
<1> USE DEF Runs
<1>1. /\ stack' = IF s = << >> THEN << >> ELSE [s EXCEPT ![Len(s)].polling = FALSE]
      /\ reading' = [reading EXCEPT ![c] = FALSE]
      /\ server' = IF s = << >> THEN "stopped" ELSE server
  BY DEF HandlerThrows
<1>2. /\ stack' \in Seq(GoodFrame)
      /\ Len(stack') = Len(s)
      /\ \A i \in 1..Len(s) : stack'[i].hdl = s[i].hdl /\ stack'[i].run = s[i].run
  <2>1. CASE s = << >>
    BY <1>1, <2>1
  <2>2. CASE s # << >>
    <3>1. stack' = [s EXCEPT ![Len(s)].polling = FALSE] /\ s \in Seq(GoodFrame)
      BY <1>1, <2>2
    <3>2. stack' \in Seq(GoodFrame)
      BY <2>2, <3>1, PollOver
    <3>3. Len(stack') = Len(s)
      BY <2>2, <3>1, PollOver
    <3>4. \A i \in 1..Len(s) : stack'[i].hdl = s[i].hdl /\ stack'[i].run = s[i].run
      BY <2>2, <3>1, PollOver
    <3> QED
      BY <3>2, <3>3, <3>4
  <2> QED
    BY <2>1, <2>2
<1>3. reading' \in [Clients -> BOOLEAN] /\ server' \in {"running", "stopped", "aborted", "undefined"}
  BY <1>1
<1>4. \A d \in Clients : reading'[d] => reading[d]
  BY <1>1
<1>5. \A i \in 1..Len(s) : s[i].hdl \in Clients
  BY GoodFrameFacts
<1>6. Exclusive(stack)'
  BY <1>2, <1>4, <1>5 DEF Exclusive
<1>7. ReadAreOpened'
  BY <1>4 DEF ReadAreOpened
<1>8. Linked(stack)' /\ StreamsDoNotMix'
  BY <1>2 DEF Linked, StreamsDoNotMix
<1> QED
  BY <1>2, <1>3, <1>6, <1>7, <1>8

(* The handler of a client fails.                                           *)
LEMMA ReplyErrorRuns ==
  ASSUME NEW s, Runs(s), NEW c, Free(c, s), ReplyError(c, s), session' = session
  PROVE  Runs(stack)'
  BY ThrowRuns DEF ReplyError

(* The searches below the innermost one. *)
LEMMA OuterRuns ==
  ASSUME Runs(stack), stack # << >>
  PROVE  /\ Depth \in Nat /\ Depth >= 1
         /\ Top \in GoodFrame
         /\ Len(Outer) = Depth - 1
         /\ \A i \in 1..Depth - 1 : Outer[i] = stack[i]
         /\ Runs(Outer)
         /\ Free(Top.hdl, Outer)
<1> USE DEF Runs
<1>1. Depth \in Nat /\ Depth >= 1
  BY DEF Depth
<1>2. Top \in GoodFrame
  BY <1>1 DEF Top, Depth
<1>3. Outer \in Seq(GoodFrame) /\ Len(Outer) = Depth - 1 /\ \A i \in 1..Depth - 1 : Outer[i] = stack[i]
  <2>1. \A i \in 1..Len(stack) - 1 : stack[i] \in GoodFrame
    BY <1>1 DEF Depth
  <2>2. 1 \in Int /\ Len(stack) - 1 \in Int
    BY <1>1 DEF Depth
  <2>3. Outer \in Seq(GoodFrame)
    BY <2>1, <2>2, SubSeqProperties DEF Outer, Depth
  <2>4. Len(Outer) = Depth - 1
    <3>1. CASE Depth = 1
      <4>1. SubSeq(stack, 1, Depth - 1) = << >>
        BY <3>1, SubSeqEmpty
      <4> QED
        BY <3>1, <4>1 DEF Outer
    <3>2. CASE Depth > 1
      BY <1>1, <3>2 DEF Outer, Depth
    <3> QED
      BY <1>1, <3>1, <3>2
  <2>5. \A i \in 1..Depth - 1 : Outer[i] = stack[i]
    BY <1>1, <2>1, <2>2, SubSeqProperties DEF Outer, Depth
  <2> QED
    BY <2>3, <2>4, <2>5
<1>4. Exclusive(Outer) /\ Linked(Outer)
  BY <1>1, <1>3 DEF Exclusive, Linked, Depth
<1>5. Free(Top.hdl, Outer)
  <2>1. Top.hdl \in Clients /\ session[Top.hdl] # "new"
    BY <1>1, <1>2, GoodFrameFacts DEF Exclusive, Top, Depth
  <2>2. \A i \in 1..Len(Outer) : Outer[i].hdl # Top.hdl
    BY <1>1, <1>3 DEF Exclusive, Top, Depth
  <2> QED
    BY <2>1, <2>2 DEF Free
<1> QED
  BY <1>1, <1>2, <1>3, <1>4, <1>5

(* A call that has just been made. *)
LEMMA CallIsSound ==
  ASSUME NEW alg \in Algorithm, NEW l \in AdjacencyList,
         NEW start \in Nodes \cup {Empty}, NEW end \in Nodes \cup {Empty}
  PROVE  /\ Call(alg, l, start, end) \in Run
         /\ Call(alg, l, start, end).list = l
         /\ Call(alg, l, start, end).phase = "called"
         /\ Sound(Call(alg, l, start, end))
<1> DEFINE r == Call(alg, l, start, end)
<1>1. /\ r \in Run
      /\ r.list = l /\ r.phase = "called" /\ r.visited = << >> /\ r.shown = 0
  <2>1. << >> \in Seq(Nodes) /\ "called" \in Phase
    BY DEF Phase
  <2> QED
    BY <2>1 DEF Call, Run
<1> HIDE DEF r
<1>2. Range(<< >>) = {} /\ Len(<< >>) = 0
  BY DEF Range
<1>3. Sound(r)
  BY <1>1, <1>2 DEF Sound
<1>4. /\ r \in Run /\ r.list = l /\ r.phase = "called" /\ Sound(r)
  BY <1>1, <1>3
<1> QED
  BY <1>4 DEF r

(* A search begins above the others. *)
LEMMA PushRuns ==
  ASSUME Runs(stack), NEW c, Free(c, stack), NEW f \in GoodFrame, f.hdl = c, f.run.phase = "called",
         stack' = Append(stack, f), reading' = [reading EXCEPT ![c] = FALSE],
         session' = session, out' = out, server' = server
  PROVE  Runs(stack)'
<1> USE DEF Runs
<1>1. /\ stack' \in Seq(GoodFrame)
      /\ Len(stack') = Len(stack) + 1
      /\ Len(stack) \in Nat
      /\ stack'[Len(stack) + 1] = f
      /\ \A i \in 1..Len(stack) : stack'[i] = stack[i]
  BY AppendProperties
<1>2. \A i \in 1..Len(stack') : i \in 1..Len(stack) \/ i = Len(stack) + 1
  BY <1>1
<1>3. c \in Clients /\ session[c] # "new" /\ \A i \in 1..Len(stack) : stack[i].hdl # c
  BY DEF Free
<1>4. \A i \in 1..Len(stack) : stack[i].hdl \in Clients
  BY GoodFrameFacts
<1>5. reading' \in [Clients -> BOOLEAN] /\ \A d \in Clients : reading'[d] <=> reading[d] /\ d # c
  BY <1>3
<1>6. Exclusive(stack)'
  <2>1. ASSUME NEW i \in 1..Len(stack')
        PROVE  session[stack'[i].hdl] # "new" /\ ~reading'[stack'[i].hdl]
    BY <1>1, <1>2, <1>3, <1>4, <1>5 DEF Exclusive
  <2>2. ASSUME NEW i \in 1..Len(stack'), NEW j \in 1..Len(stack'), stack'[i].hdl = stack'[j].hdl
        PROVE  i = j
    BY <1>1, <1>2, <1>3, <2>2 DEF Exclusive
  <2> QED
    BY <2>1, <2>2 DEF Exclusive
<1>7. ReadAreOpened'
  BY <1>5 DEF ReadAreOpened
<1>8. Linked(stack)'
  <2>1. \A o : Told(o, f.run)
    BY DEF Told
  <2> QED
    BY <1>1, <1>2, <2>1 DEF Linked
<1>9. StreamsDoNotMix'
  BY DEF StreamsDoNotMix
<1> QED
  BY <1>1, <1>5, <1>6, <1>7, <1>8, <1>9

(* The innermost search takes a step that does not end it. *)
LEMMA ContinueRuns ==
  ASSUME Runs(stack), stack # << >>, NEW m \in Moves(Top.run), SearchContinues(m),
         session' = session
  PROVE  Runs(stack)'
<1> USE DEF Runs
<1> DEFINE r == Top.run
           c == Top.hdl
           f == [Top EXCEPT !.run = m.next, !.polling = Sends(Top, m)]
<1>1. /\ Depth \in Nat /\ Depth >= 1 /\ Top \in GoodFrame
      /\ Depth \in 1..Len(stack)
  BY OuterRuns DEF Depth
<1>2. /\ c \in Clients /\ r \in Run /\ Sound(r)
      /\ Top \in [hdl : Clients, polling : BOOLEAN, taken : AdjacencyList, run : Run]
      /\ Top.taken = r.list
  BY <1>1, GoodFrameFacts
<1>3. GoesOn(r, m)
  BY <1>2, MovesGoOn DEF SearchContinues
<1>4. f \in GoodFrame /\ f.hdl = c /\ f.run = m.next
  <2>1. Sends(Top, m) \in BOOLEAN
    BY DEF Sends
  <2>2. /\ f \in [hdl : Clients, polling : BOOLEAN, taken : AdjacencyList, run : Run]
        /\ f.hdl = c /\ f.run = m.next /\ f.taken = Top.taken
    BY <1>2, <1>3, <2>1 DEF GoesOn
  <2> HIDE DEF f
  <2> QED
    BY <1>2, <1>3, <2>2 DEF GoodFrame, GoesOn
<1>5. stack' = [stack EXCEPT ![Depth] = f]
  BY <1>1 DEF SearchContinues, Top
<1>6. out' = IF Sends(Top, m) THEN [out EXCEPT ![c] = @ \o m.says] ELSE out
  BY DEF SearchContinues
<1>7. reading' = reading /\ server' = server
  BY DEF SearchContinues
<1>8. Sends(Top, m) <=> m.says # << >> /\ session[c] = "open"
  BY DEF Sends
<1>9. session[c] = "open" => Told(out[c], r)
  BY <1>1 DEF Linked, Top
<1>10. out[c] \in Seq(Message)
  BY <1>2
<1> HIDE DEF f, r
<1>11. /\ stack' \in Seq(GoodFrame)
       /\ Len(stack') = Len(stack)
       /\ \A i \in 1..Len(stack) : stack'[i] = IF i = Depth THEN f ELSE stack[i]
  <2>1. /\ [stack EXCEPT ![Depth] = f] \in Seq(GoodFrame)
        /\ Len([stack EXCEPT ![Depth] = f]) = Len(stack)
        /\ \A i \in 1..Len(stack) : [stack EXCEPT ![Depth] = f][i] = IF i = Depth THEN f ELSE stack[i]
    BY <1>1, <1>4, ExceptSeq
  <2> QED
    BY <1>5, <2>1
<1>12. \A i \in 1..Len(stack) : stack'[i].hdl = stack[i].hdl
  BY <1>4, <1>11 DEF Top
<1>13. Exclusive(stack)' /\ ReadAreOpened'
  BY <1>7, <1>11, <1>12 DEF Exclusive, ReadAreOpened
<1>14. /\ out' \in [Clients -> Seq(Message)]
       /\ \A d \in Clients \ {c} : out'[d] = out[d]
       /\ session[c] = "open" => Told(out'[c], m.next)
       /\ StreamOK(out'[c])
  <2>1. StreamOK(out[c])
    BY <1>2, StreamsAreOK
  <2>2. CASE ~Sends(Top, m)
    <3>1. out' = out
      BY <1>6, <2>2
    <3>2. session[c] = "open" => m.says = << >>
      BY <1>8, <2>2
    <3>3. \A y : <<y>> # << >>
      OBVIOUS
    <3>4. m.says = << >> => \A o \in Seq(Message) : Told(o, r) => Told(o, m.next)
      BY <1>3, <3>3 DEF GoesOn
    <3>5. session[c] = "open" => Told(out[c], m.next)
      BY <1>9, <1>10, <3>2, <3>4
    <3> QED
      BY <2>1, <3>1, <3>5
  <2>3. CASE Sends(Top, m)
    <3>1. Told(out[c], r) /\ m.says # << >>
      BY <1>8, <1>9, <2>3
    <3>2. PICK y \in Message :
            m.says = <<y>> /\ Fits(out[c], y) /\ Told(Append(out[c], y), m.next)
      BY <1>3, <1>10, <3>1 DEF GoesOn
    <3>3. y \in Message
      BY <3>2
    <3>4. out[c] \o m.says = Append(out[c], y) /\ Append(out[c], y) \in Seq(Message)
      BY <1>10, <3>2, <3>3
    <3>5. out' = [out EXCEPT ![c] = out[c] \o m.says]
      BY <1>6, <2>3
    <3>6. /\ out' \in [Clients -> Seq(Message)]
          /\ out'[c] = Append(out[c], y)
          /\ \A d \in Clients \ {c} : out'[d] = out[d]
      BY <1>2, <3>4, <3>5
    <3>7. StreamOK(Append(out[c], y))
      BY <1>10, <2>1, <3>2, <3>3, StreamGrows
    <3> QED
      BY <3>2, <3>6, <3>7
  <2> QED
    BY <2>2, <2>3
<1>15. StreamsDoNotMix'
  <2>1. \A d \in Clients : StreamOK(out'[d])
    BY <1>14, StreamsAreOK
  <2> QED
    BY <2>1 DEF StreamsDoNotMix, StreamOK
<1>16. Linked(stack)'
  <2> SUFFICES ASSUME NEW i \in 1..Len(stack), session[stack[i].hdl] = "open"
               PROVE  Told(out'[stack[i].hdl], stack'[i].run)
    BY <1>11, <1>12 DEF Linked
  <2>1. CASE i = Depth
    BY <1>4, <1>11, <1>14, <2>1 DEF Top
  <2>2. CASE i # Depth
    <3>1. stack[i].hdl \in Clients /\ stack[i].hdl # c
      BY <1>1, <2>2, GoodFrameFacts DEF Exclusive, Top
    <3> QED
      BY <1>11, <1>14, <2>2, <3>1 DEF Linked
  <2> QED
    BY <2>1, <2>2
<1> QED
  BY <1>7, <1>11, <1>13, <1>14, <1>15, <1>16

-----------------------------------------------------------------------------
(* The graph. *)

(* What is stored of the keys K of p. *)
LEMMA FillEffect ==
  ASSUME NEW l, NEW p, NEW K
  PROVE  /\ DOMAIN G!Fill(G!Reset(l), p, K) = K
         /\ \A n \in K : G!Fill(G!Reset(l), p, K)[n] = [i \in 1..Len(p.list[n]) |-> <<p.list[n][i], 0>>]
  BY DEF G!Fill, G!Reset, G!NoEdges, G!UploadWeight

(* After an upload, successful or not, the graph is that of this upload or  *)
(* the one it was.                                                          *)
LEMMA UploadKeeps ==
  ASSUME DOMAIN graph \subseteq Nodes, GraphIsOneUpload,
         NEW q \in Requests, q.kind = "upload", NEW result \in G!Loads(graph, q.data),
         graph' = result.list
  PROVE  /\ DOMAIN graph' \subseteq Nodes
         /\ GraphIsOneUpload'
         /\ result.threw \in {"no", "exception", "response"}
<1> DEFINE p == q.data
<1>1. DOMAIN p.list \subseteq Nodes /\ p.bad \subseteq DOMAIN p.list
  BY ServerAssumption DEF IsRequest, G!IsUpload
<1>2. CASE ~p.valid
  <2>1. result = [list |-> graph, threw |-> "response"]
    BY <1>2 DEF G!Loads
  <2>2. graph' = graph /\ result.threw = "response"
    BY <2>1
  <2> QED
    BY <2>2 DEF GraphIsOneUpload
<1>3. CASE p.valid /\ ~p.object
  <2>1. result = [list |-> G!NoEdges, threw |-> "exception"]
    BY <1>3 DEF G!Loads, G!Reset
  <2>2. graph' = G!NoEdges /\ result.threw = "exception"
    BY <2>1
  <2>3. DOMAIN graph' = {}
    BY <2>2 DEF G!NoEdges
  <2> QED
    BY <2>2, <2>3 DEF GraphIsOneUpload
<1>4. CASE p.valid /\ p.object
  <2>1. PICK K \in SUBSET (DOMAIN p.list \ p.bad) :
          /\ result.list = G!Fill(G!Reset(graph), p, K)
          /\ result.threw \in {"no", "exception"}
    <3>1. CASE p.bad = {}
      <4>1. result = [list |-> G!Fill(G!Reset(graph), p, DOMAIN p.list), threw |-> "no"]
        BY <1>4, <3>1 DEF G!Loads
      <4> QED
        BY <3>1, <4>1
    <3>2. CASE p.bad # {}
      <4>1. PICK K \in SUBSET (DOMAIN p.list \ p.bad) :
              result = [list |-> G!Fill(G!Reset(graph), p, K), threw |-> "exception"]
        BY <1>4, <3>2 DEF G!Loads
      <4> QED
        BY <4>1
    <3> QED
      BY <3>1, <3>2
  <2>2. /\ DOMAIN graph' = K
        /\ \A n \in K : graph'[n] = [i \in 1..Len(p.list[n]) |-> <<p.list[n][i], 0>>]
    BY <2>1, FillEffect
  <2> QED
    BY <1>1, <2>1, <2>2 DEF GraphIsOneUpload
<1> QED
  BY <1>2, <1>3, <1>4

(* The copy a search is given. *)
LEMMA CopyIsList ==
  ASSUME DOMAIN graph \subseteq Nodes, GraphIsOneUpload
  PROVE  G!Adjacency(graph) \in AdjacencyList
<1>1. ASSUME NEW n \in DOMAIN graph PROVE {graph[n][i][1] : i \in 1..Len(graph[n])} \subseteq Nodes
  <2>1. CASE graph = G!NoEdges
    BY <2>1 DEF G!NoEdges
  <2>2. CASE graph # G!NoEdges
    <3>1. PICK q \in Requests :
            /\ q.kind = "upload"
            /\ n \in DOMAIN q.data.list
            /\ graph[n] = [i \in 1..Len(q.data.list[n]) |-> <<q.data.list[n][i], 0>>]
      BY <2>2 DEF GraphIsOneUpload
    <3>2. q.data.list[n] \in Seq(Nodes)
      BY <3>1, ServerAssumption DEF IsRequest, G!IsUpload
    <3>3. Len(graph[n]) = Len(q.data.list[n])
      BY <3>1, <3>2
    <3>4. \A i \in 1..Len(graph[n]) : graph[n][i][1] = q.data.list[n][i]
      BY <3>1, <3>3
    <3> QED
      BY <3>2, <3>3, <3>4
  <2> QED
    BY <2>1, <2>2
<1>2. G!Adjacency(graph) \in [DOMAIN graph -> SUBSET Nodes]
  BY <1>1 DEF G!Adjacency
<1> QED
  BY <1>2 DEF AdjacencyList

-----------------------------------------------------------------------------

(* At the start there is no connection, no frame and an empty graph. *)
LEMMA InitIInv == Init => IInv
<1> SUFFICES ASSUME Init PROVE IInv
  OBVIOUS
<1>1. stack = << >> /\ stack \in Seq(GoodFrame) /\ Len(stack) = 0
  BY DEF Init
<1>2. Exclusive(stack) /\ Linked(stack)
  BY <1>1 DEF Exclusive, Linked
<1>3. ReadAreOpened
  BY DEF Init, ReadAreOpened
<1>4. out \in [Clients -> Seq(Message)] /\ StreamsDoNotMix
  BY DEF Init, StreamsDoNotMix
<1>5. Runs(stack)
  BY <1>1, <1>2, <1>3, <1>4 DEF Init, Runs
<1>6. DOMAIN graph \subseteq Nodes /\ GraphIsOneUpload
  BY DEF Init, G!NoEdges, GraphIsOneUpload
<1>7. connected_clients \subseteq Clients /\ messages \in 0..MaxMessages
  BY ServerAssumption DEF Init
<1> QED
  BY <1>5, <1>6, <1>7 DEF IInv

(* A connection opens, fails or is closed. *)
LEMMA ConnectionIInv ==
  ASSUME IInv, NEW c \in Clients, OnOpen(c) \/ Drop(c) \/ OnClose(c)
  PROVE  IInv'
<1> USE DEF IInv, Runs
<1>1. stack' = stack /\ out' = out /\ graph' = graph /\ server' = server /\ messages' = messages
  BY DEF OnOpen, Drop, OnClose
<1>2. connected_clients' \subseteq Clients
  BY DEF OnOpen, Drop, OnClose
<1>3. /\ session' \in [Clients -> {"new", "open", "closing", "closed"}]
      /\ reading' \in [Clients -> BOOLEAN]
      /\ \A d \in Clients : d # c => session'[d] = session[d] /\ reading'[d] = reading[d]
      /\ session'[c] # "new"
      /\ session[c] # "new" => session'[c] # "open" /\ (reading'[c] => reading[c])
  BY DEF OnOpen, Drop, OnClose
<1>4. \A i \in 1..Len(stack) : stack[i].hdl \in Clients /\ session[stack[i].hdl] # "new"
  BY GoodFrameFacts DEF Exclusive
<1>5. Exclusive(stack)'
  BY <1>1, <1>3, <1>4 DEF Exclusive
<1>6. ReadAreOpened'
  BY <1>3 DEF ReadAreOpened
<1>7. Linked(stack)'
  BY <1>1, <1>3, <1>4 DEF Linked
<1>8. StreamsDoNotMix' /\ GraphIsOneUpload'
  BY <1>1 DEF StreamsDoNotMix, GraphIsOneUpload
<1> QED
  BY <1>1, <1>2, <1>3, <1>5, <1>6, <1>7, <1>8

(* A client whose next message can be delivered has no search on the stack. *)
LEMMA DeliverableIsFree ==
  ASSUME IInv, NEW c \in Clients, Deliverable(c)
  PROVE  Free(c, stack)
  BY DEF IInv, Runs, Exclusive, Deliverable, Free

(* A message is handled. *)
LEMMA MessageIInv ==
  ASSUME IInv, NEW c \in Clients, OnMessage(c)
  PROVE  IInv'
<1> USE DEF IInv
<1>1. Free(c, stack) /\ session' = session /\ connected_clients' = connected_clients
  BY DeliverableIsFree DEF OnMessage
<1>2. messages' \in 0..MaxMessages
  BY ServerAssumption DEF OnMessage
<1>3. PICK q \in Requests : Upload(c, q) \/ StartSearch(c, q) \/ Reject(c, q)
  BY DEF OnMessage
<1>4. CASE Upload(c, q)
  <2>1. PICK result \in G!Loads(graph, q.data) :
          /\ graph' = result.list
          /\ CASE result.threw = "no" -> UNCHANGED out /\ HandlerReturns(c, stack)
               [] result.threw = "exception" -> ReplyError(c, stack)
               [] result.threw = "response" -> server' = "aborted" /\ UNCHANGED <<out, stack, reading>>
    BY <1>4 DEF Upload
  <2>2. /\ DOMAIN graph' \subseteq Nodes
        /\ GraphIsOneUpload'
        /\ result.threw \in {"no", "exception", "response"}
    BY <1>4, <2>1, UploadKeeps DEF Upload
  <2>3. CASE result.threw = "no"
    BY <1>1, <1>2, <2>1, <2>2, <2>3, ReturnRuns
  <2>4. CASE result.threw = "exception"
    BY <1>1, <1>2, <2>1, <2>2, <2>4, ReplyErrorRuns
  <2>5. CASE result.threw = "response"
    <3>1. server' = "aborted" /\ out' = out /\ stack' = stack /\ reading' = reading
      BY <2>1, <2>5
    <3>2. Runs(stack)'
      BY <1>1, <3>1 DEF Runs, Exclusive, ReadAreOpened, Linked, StreamsDoNotMix
    <3> QED
      BY <1>1, <1>2, <2>2, <3>2
  <2> QED
    BY <2>2, <2>3, <2>4, <2>5
<1>5. CASE StartSearch(c, q)
  <2>1. graph' = graph /\ out' = out
    BY <1>5 DEF StartSearch
  <2>2. GraphIsOneUpload'
    BY <2>1 DEF GraphIsOneUpload
  <2>3. Runs(stack)'
    <3>1. CASE ~Dispatches(q)
      BY <1>1, <1>5, <2>1, <3>1, ReturnRuns DEF StartSearch
    <3>2. CASE Dispatches(q)
      <4> DEFINE l == G!Adjacency(graph)
                 run == Call(q.alg, l, q.start, q.end)
                 f == [hdl |-> c, polling |-> FALSE, taken |-> l, run |-> run]
      <4>1. /\ stack' = Append(stack, f)
            /\ reading' = [reading EXCEPT ![c] = FALSE]
            /\ server' = server
        BY <1>5, <3>2 DEF StartSearch
      <4>2. l \in AdjacencyList
        BY CopyIsList
      <4>3. q.alg \in Algorithm /\ q.start \in Nodes \cup {Empty} /\ q.end \in Nodes \cup {Empty}
        BY <1>5, <3>2, ServerAssumption DEF StartSearch, IsRequest, Dispatches
      <4> HIDE DEF l, f
      <4>4. run \in Run /\ run.list = l /\ run.phase = "called" /\ Sound(run)
        <5> DEFINE alg == q.alg
                   start == q.start
                   end == q.end
        <5>1. alg \in Algorithm /\ start \in Nodes \cup {Empty} /\ end \in Nodes \cup {Empty}
          BY <4>3
        <5> HIDE DEF alg, start, end
        <5>2. /\ Call(alg, l, start, end) \in Run
              /\ Call(alg, l, start, end).list = l
              /\ Call(alg, l, start, end).phase = "called"
              /\ Sound(Call(alg, l, start, end))
          BY <4>2, <5>1, CallIsSound
        <5> QED
          BY <5>2 DEF run, alg, start, end
      <4> HIDE DEF run
      <4>5. f \in GoodFrame /\ f.hdl = c /\ f.run.phase = "called"
        BY <4>2, <4>4 DEF f, GoodFrame, Over
      <4> HIDE DEF f
      <4> QED
        BY <1>1, <2>1, <4>1, <4>5, PushRuns
    <3> QED
      BY <3>1, <3>2
  <2> QED
    BY <1>1, <1>2, <2>1, <2>2, <2>3
<1>6. CASE Reject(c, q)
  <2>1. graph' = graph /\ ReplyError(c, stack)
    BY <1>6 DEF Reject
  <2>2. GraphIsOneUpload'
    BY <2>1 DEF GraphIsOneUpload
  <2>3. Runs(stack)'
    BY <1>1, <2>1, ReplyErrorRuns
  <2> QED
    BY <1>1, <1>2, <2>1, <2>2, <2>3
<1> QED
  BY <1>3, <1>4, <1>5, <1>6

(* The innermost search takes a step. *)
LEMMA AdvanceIInv == IInv /\ Advance => IInv'
<1> SUFFICES ASSUME IInv, Advance PROVE IInv'
  OBVIOUS
<1> USE DEF IInv
<1>1. /\ stack # << >>
      /\ graph' = graph /\ connected_clients' = connected_clients
      /\ session' = session /\ messages' = messages
  BY DEF Advance
<1>2. Top \in GoodFrame /\ Runs(Outer) /\ Free(Top.hdl, Outer)
  BY <1>1, OuterRuns
<1>3. [Top.run EXCEPT !.list = ListOf(Top)] = Top.run
  BY <1>2, GoodFrameFacts DEF ListOf, Run
<1>4. PICK m \in Moves(Top.run) :
        SearchContinues(m) \/ SearchReturns(m) \/ SearchThrows(m) \/ SearchGoesAstray(m)
  BY <1>3 DEF Advance
<1>5. Runs(stack)'
  <2>1. CASE SearchContinues(m)
    BY <1>1, <2>1, ContinueRuns
  <2>2. CASE SearchReturns(m)
    BY <1>1, <1>2, <2>2, ReturnRuns DEF SearchReturns
  <2>3. CASE SearchThrows(m)
    BY <1>1, <1>2, <2>3, ReplyErrorRuns DEF SearchThrows
  <2>4. CASE SearchGoesAstray(m)
    BY <1>1, <2>4 DEF SearchGoesAstray, Runs, Exclusive, ReadAreOpened, Linked, StreamsDoNotMix
  <2> QED
    BY <1>4, <2>1, <2>2, <2>3, <2>4
<1>6. GraphIsOneUpload'
  BY <1>1 DEF GraphIsOneUpload
<1> QED
  BY <1>1, <1>5, <1>6

(* Every step of the server keeps the invariant. *)
LEMMA NextIInv == IInv /\ [Next]_vars => IInv'
<1>1. IInv /\ Next => IInv'
  BY ConnectionIInv, MessageIInv, AdvanceIInv DEF Next
<1>2. IInv /\ UNCHANGED vars => IInv'
  BY DEF vars, IInv, Runs, Exclusive, ReadAreOpened, Linked, StreamsDoNotMix, GraphIsOneUpload
<1> QED
  BY <1>1, <1>2

-----------------------------------------------------------------------------

(* The frames on the stack, the streams and the graph keep their types. *)
THEOREM TypeCorrect == Spec => []TypeOK
<1>1. IInv => TypeOK
  <2> SUFFICES ASSUME IInv PROVE TypeOK
    OBVIOUS
  <2>1. ASSUME NEW i \in 1..Depth PROVE Frame(stack[i])
    <3>1. stack[i] \in GoodFrame
      BY DEF IInv, Runs, Depth
    <3>2. /\ stack[i].hdl \in Clients /\ stack[i].polling \in BOOLEAN
          /\ stack[i].run \in Run /\ stack[i].run.phase \notin Over
      BY <3>1, GoodFrameFacts
    <3> QED
      BY <3>2 DEF Frame, Run
  <2> QED
    BY <2>1 DEF IInv, Runs, TypeOK
<1> QED
  BY <1>1, InitIInv, NextIInv, PTL DEF Spec

(* However many uploads are handled inside the polls of searches, and       *)
(* wherever one of them fails, the graph is never a mixture of two.         *)
THEOREM GraphIsNeverMixed == Spec => []GraphIsOneUpload
<1>1. IInv => GraphIsOneUpload
  BY DEF IInv
<1> QED
  BY <1>1, InitIInv, NextIInv, PTL DEF Spec

(* However deep handlers nest, the stream of a client is one search after   *)
(* the other.                                                               *)
THEOREM StreamsAreInOrder == Spec => []StreamsDoNotMix
<1>1. IInv => StreamsDoNotMix
  BY DEF IInv, Runs
<1> QED
  BY <1>1, InitIInv, NextIInv, PTL DEF Spec

(* A search answers about the graph as it was when the search was asked     *)
(* for, whatever is uploaded meanwhile.                                     *)
THEOREM AnswersAreForSnapshot == Spec => []AnswersForSnapshot
<1>1. IInv => AnswersForSnapshot
  <2> SUFFICES ASSUME IInv, NEW i \in 1..Depth
               PROVE  LET run == [stack[i].run EXCEPT !.list = stack[i].taken]
                      IN  /\ Range(run.visited) \subseteq DOMAIN run.list
                          /\ run.phase = "route" => IsRoute(run, run.route)
                          /\ \A k \in 2..Len(run.visited) : \E j \in 1..k - 1 :
                               run.visited[k] \in Successors(run.list, run.visited[j])
    BY DEF AnswersForSnapshot
  <2>1. stack[i] \in GoodFrame
    BY DEF IInv, Runs, Depth
  <2>2. stack[i].run \in Run /\ Sound(stack[i].run) /\ stack[i].taken = stack[i].run.list
    BY <2>1, GoodFrameFacts
  <2>3. [stack[i].run EXCEPT !.list = stack[i].taken] = stack[i].run
    BY <2>2 DEF Run
  <2> QED
    BY <2>2, <2>3 DEF Sound
<1> QED
  BY <1>1, InitIInv, NextIInv, PTL DEF Spec

(* What a step may do to the stack: push a search, change the innermost one *)
(* or take it off, and end a poll.                                          *)
LEMMA StackEffect ==
  ASSUME IInv, Next
  PROVE  \A i \in 1..Depth - 1 :
           i <= Len(stack') /\ stack'[i].run = stack[i].run /\ stack'[i].hdl = stack[i].hdl
<1> USE DEF IInv
<1>1. stack \in Seq(GoodFrame) /\ Depth = Len(stack) /\ Depth \in Nat
  BY DEF Runs, Depth
<1> SUFFICES ASSUME NEW i \in 1..Depth - 1
             PROVE  i <= Len(stack') /\ stack'[i].run = stack[i].run /\ stack'[i].hdl = stack[i].hdl
  OBVIOUS
<1>2. stack # << >> /\ i \in 1..Len(stack)
  BY <1>1
<1>3. CASE stack' = stack
  BY <1>1, <1>3
<1>4. ASSUME NEW c, HandlerReturns(c, stack) \/ HandlerThrows(c, stack)
      PROVE  i <= Len(stack') /\ stack'[i].run = stack[i].run /\ stack'[i].hdl = stack[i].hdl
  <2>1. CASE HandlerReturns(c, stack)
    BY <1>1, <1>3, <2>1 DEF HandlerReturns
  <2>2. CASE HandlerThrows(c, stack)
    <3>1. stack' = [stack EXCEPT ![Len(stack)].polling = FALSE]
      BY <1>2, <2>2 DEF HandlerThrows
    <3>2. Len(stack') = Len(stack) /\ stack'[i] = stack[i]
      BY <1>1, <3>1
    <3> QED
      BY <1>1, <3>2
  <2> QED
    BY <1>4, <2>1, <2>2
<1>5. ASSUME NEW c, HandlerReturns(c, Outer) \/ HandlerThrows(c, Outer)
      PROVE  i <= Len(stack') /\ stack'[i].run = stack[i].run /\ stack'[i].hdl = stack[i].hdl
  <2>1. /\ Len(Outer) = Depth - 1 /\ Outer[i] = stack[i] /\ Outer \in Seq(GoodFrame)
        /\ Outer # << >>
    <3>1. Len(Outer) = Depth - 1 /\ Outer[i] = stack[i] /\ Outer \in Seq(GoodFrame)
      BY <1>2, OuterRuns DEF Runs
    <3> QED
      BY <1>1, <3>1
  <2>2. CASE HandlerReturns(c, Outer)
    BY <1>1, <2>1, <2>2 DEF HandlerReturns
  <2>3. CASE HandlerThrows(c, Outer)
    <3>1. stack' = [Outer EXCEPT ![Len(Outer)].polling = FALSE]
      BY <2>1, <2>3 DEF HandlerThrows
    <3>2. /\ Len(stack') = Len(Outer)
          /\ stack'[i].run = Outer[i].run /\ stack'[i].hdl = Outer[i].hdl
      <4>1. i \in 1..Len(Outer)
        BY <1>1, <2>1
      <4>2. Len(stack') = Len(Outer)
        BY <2>1, <3>1, PollOver
      <4>3. \A j \in 1..Len(Outer) : stack'[j].hdl = Outer[j].hdl /\ stack'[j].run = Outer[j].run
        BY <2>1, <3>1, PollOver
      <4> QED
        BY <4>1, <4>2, <4>3
    <3> QED
      BY <1>1, <2>1, <3>2
  <2> QED
    BY <1>5, <2>2, <2>3
<1>6. CASE \E c \in Clients : OnOpen(c) \/ Drop(c) \/ OnClose(c)
  BY <1>3, <1>6 DEF OnOpen, Drop, OnClose
<1>7. CASE \E c \in Clients : OnMessage(c)
  <2>1. PICK c \in Clients, q \in Requests : Upload(c, q) \/ StartSearch(c, q) \/ Reject(c, q)
    BY <1>7 DEF OnMessage
  <2>2. CASE Upload(c, q)
    <3>1. PICK result \in G!Loads(graph, q.data) :
            /\ graph' = result.list
            /\ CASE result.threw = "no" -> UNCHANGED out /\ HandlerReturns(c, stack)
                 [] result.threw = "exception" -> ReplyError(c, stack)
                 [] result.threw = "response" -> server' = "aborted" /\ UNCHANGED <<out, stack, reading>>
      BY <2>2 DEF Upload
    <3>2. result.threw \in {"no", "exception", "response"}
      BY <2>2, <3>1, UploadKeeps DEF Upload
    <3>3. HandlerReturns(c, stack) \/ HandlerThrows(c, stack) \/ stack' = stack
      BY <3>1, <3>2 DEF ReplyError
    <3> QED
      BY <1>3, <1>4, <3>3
  <2>3. CASE StartSearch(c, q)
    <3>1. CASE HandlerReturns(c, stack)
      BY <1>4, <3>1
    <3>2. CASE \E f : stack' = Append(stack, f)
      BY <1>1, <3>2
    <3> QED
      BY <2>3, <3>1, <3>2 DEF StartSearch
  <2>4. CASE Reject(c, q)
    BY <1>4, <2>4 DEF Reject, ReplyError
  <2> QED
    BY <2>1, <2>2, <2>3, <2>4
<1>8. CASE Advance
  <2>1. PICK m : SearchContinues(m) \/ SearchReturns(m) \/ SearchThrows(m) \/ SearchGoesAstray(m)
    BY <1>8 DEF Advance
  <2>2. CASE SearchContinues(m)
    <3>1. stack' = [stack EXCEPT ![Depth].run = m.next, ![Depth].polling = Sends(Top, m)]
      BY <2>2 DEF SearchContinues
    <3>2. Len(stack') = Len(stack) /\ stack'[i] = stack[i]
      BY <1>1, <3>1
    <3> QED
      BY <1>1, <3>2
  <2>3. CASE SearchReturns(m)
    BY <1>5, <2>3 DEF SearchReturns
  <2>4. CASE SearchThrows(m)
    BY <1>5, <2>4 DEF SearchThrows, ReplyError
  <2>5. CASE SearchGoesAstray(m)
    BY <1>3, <2>5 DEF SearchGoesAstray
  <2> QED
    BY <2>1, <2>2, <2>3, <2>4, <2>5
<1> QED
  BY <1>6, <1>7, <1>8 DEF Next

(* A search that waits below another is touched neither by its messages nor *)
(* by an exception that leaves its handler.                                 *)
THEOREM WaitingAreKept == Spec => WaitingSearchesKeep
<1> DEFINE Kept ==
      \A i \in 1..Depth - 1 :
        /\ i <= Len(stack')
        /\ stack'[i].run = stack[i].run
        /\ stack'[i].hdl = stack[i].hdl
<1>1. IInv /\ [Next]_vars => [Kept]_vars
  BY StackEffect
<1>2. Spec => [][Kept]_vars
  BY <1>1, InitIInv, NextIInv, PTL DEF Spec
<1> QED
  BY <1>2 DEF WaitingSearchesKeep

(* An exception that ends run() leaves the only handler there is.           *)
LEMMA StopEffect ==
  ASSUME IInv, NEW c, NEW s, Free(c, s), ReplyError(c, s), server = "running",
         server' = "stopped"
  PROVE  /\ s = << >> /\ stack' = << >>
         /\ c \in Clients /\ ~reading'[c]
<1>1. HandlerThrows(c, s)
  BY DEF ReplyError
<1>2. s = << >>
  BY <1>1 DEF HandlerThrows
<1>3. c \in Clients /\ reading \in [Clients -> BOOLEAN]
  BY DEF Free, IInv, Runs
<1> QED
  BY <1>1, <1>2, <1>3 DEF HandlerThrows

(* Nothing but a request that fails stops the server, and only while no     *)
(* other client has a search under way.                                     *)
THEOREM FailuresAreContained == Spec => FailureIsContained
<1> DEFINE Alone(c) == Fails(c) /\ \A i \in 1..Depth : stack[i].hdl = c
           Contained == server' = "stopped" => \E c \in Clients : Alone(c)
<1>1. ASSUME IInv, Next PROVE Contained
  <2> SUFFICES ASSUME server' = "stopped" PROVE \E c \in Clients : Alone(c)
    OBVIOUS
  <2>1. server = "running"
    BY <1>1 DEF Next, OnOpen, Drop, OnClose, OnMessage, AtPoll, Advance
  <2>2. CASE \E c \in Clients : OnOpen(c) \/ Drop(c) \/ OnClose(c)
    BY <2>1, <2>2 DEF OnOpen, Drop, OnClose
  <2>3. CASE \E c \in Clients : OnMessage(c)
    <3>1. PICK c \in Clients, q \in Requests :
            /\ Deliverable(c) /\ session' = session
            /\ Upload(c, q) \/ StartSearch(c, q) \/ Reject(c, q)
      BY <2>3 DEF OnMessage
    <3>2. Free(c, stack)
      BY <1>1, <3>1, DeliverableIsFree
    <3>3. ~StartSearch(c, q)
      BY <2>1 DEF StartSearch, HandlerReturns
    <3>4. ReplyError(c, stack)
      <4>1. CASE Reject(c, q)
        BY <4>1 DEF Reject
      <4>2. CASE Upload(c, q)
        <5>1. PICK result \in G!Loads(graph, q.data) :
                /\ graph' = result.list
                /\ CASE result.threw = "no" -> UNCHANGED out /\ HandlerReturns(c, stack)
                     [] result.threw = "exception" -> ReplyError(c, stack)
                     [] result.threw = "response" -> server' = "aborted" /\ UNCHANGED <<out, stack, reading>>
          BY <4>2 DEF Upload
        <5>2. result.threw \in {"no", "exception", "response"}
          BY <1>1, <4>2, <5>1, UploadKeeps DEF IInv, Upload
        <5> QED
          BY <2>1, <5>1, <5>2 DEF HandlerReturns
      <4> QED
        BY <3>1, <3>3, <4>1, <4>2
    <3>5. stack = << >> /\ stack' = << >> /\ ~reading'[c]
      BY <1>1, <2>1, <3>2, <3>4, StopEffect
    <3>6. Fails(c)
      BY <3>1, <3>5 DEF Fails, Searching, Deliverable
    <3> QED
      BY <3>5, <3>6 DEF Depth
  <2>4. CASE Advance
    <3>1. PICK m : SearchContinues(m) \/ SearchReturns(m) \/ SearchThrows(m) \/ SearchGoesAstray(m)
      BY <2>4 DEF Advance
    <3>2. SearchThrows(m)
      BY <2>1, <3>1 DEF SearchContinues, SearchReturns, SearchGoesAstray, HandlerReturns
    <3>3. Depth \in Nat /\ Len(Outer) = Depth - 1 /\ Free(Top.hdl, Outer)
      BY <1>1, <2>4, OuterRuns DEF IInv, Advance
    <3>4. Outer = << >> /\ stack' = << >> /\ Top.hdl \in Clients /\ ~reading'[Top.hdl]
      BY <1>1, <2>1, <3>2, <3>3, StopEffect DEF SearchThrows
    <3>5. Depth = 1 /\ Top = stack[1]
      BY <3>3, <3>4 DEF Top
    <3>6. Fails(Top.hdl)
      BY <2>4, <3>4, <3>5 DEF Fails, Searching, Advance, Depth
    <3> QED
      BY <3>4, <3>5, <3>6
  <2> QED
    BY <1>1, <2>2, <2>3, <2>4 DEF Next
<1>2. IInv /\ [Next]_vars => [Contained]_vars
  BY <1>1
<1>3. Spec => [][Contained]_vars
  BY <1>2, InitIInv, NextIInv, PTL DEF Spec
<1> QED
  BY <1>3 DEF FailureIsContained
===============================================================================
