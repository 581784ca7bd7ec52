----------------------------- MODULE HttpRouter -----------------------------
(***************************************************************************)
(* HttpRouter.h: the routes of an HTTP context.  Routes are added and      *)
(* removed while the server runs, and a request is offered to the handlers *)
(* of a matching tree, the most specific first, until one does not yield.  *)
(*                                                                         *)
(* A node of the tree is the path that leads to it, a sequence of records  *)
(* with the node's name and isHighPriority; the tree maps every node to    *)
(* its handlers, entries of a priority and an id, the place of the handler *)
(* in the list of handlers.  Two children of a node have the same rank     *)
(* only if they have different names that are no wildcards, and no request *)
(* goes to both, so that their order is left out.                          *)
(***************************************************************************)
EXTENDS Naturals, Sequences, SequencesExt

CONSTANTS Routes,          \* the routes the application adds and removes
          Urls,            \* the URLs that are asked for, cut at their slashes
          MaxUrlSegments,  \* MAX_URL_SEGMENTS, 100 in the code
          MaxHandlers      \* bound on the routes registered at once

ASSUME RouterAssumption == MaxUrlSegments \in Nat \ {0} /\ MaxHandlers \in Nat

VARIABLES tree, handlers
routerVars == <<tree, handlers>>

HIGH == 0
MEDIUM == 1
LOW == 2
ANY == "*"

(* The order of the methods under the root: GET first, any method last.    *)
MethodsInOrder == <<"GET", "PATCH", "POST", ANY>>

(* What TemplatedApp::get, post, any and ws ask the router for.            *)
Registration(method, pattern, upgrade) ==
  [methods |-> <<method>>, pattern |-> pattern,
   priority |-> IF method = ANY THEN LOW ELSE IF upgrade THEN HIGH ELSE MEDIUM]

Segments(url) == SubSeq(url, 1, IF Len(url) < MaxUrlSegments THEN Len(url) ELSE MaxUrlSegments)
MethodNode(method) == <<[name |-> method, high |-> FALSE]>>
Node(method, route) ==
  LET names == Segments(route.pattern)
  IN  MethodNode(method) \o [i \in DOMAIN names |-> [name |-> names[i], high |-> route.priority = HIGH]]

-----------------------------------------------------------------------------
(* getNode for every segment, and the entry sorted behind those of its     *)
(* priority.                                                               *)
Insert(t, node, entry) ==
  LET before == IF node \in DOMAIN t THEN t[node] ELSE <<>>
      First(e) == e.priority <= entry.priority
      Later(e) == e.priority > entry.priority
  IN  [p \in DOMAIN t \cup {SubSeq(node, 1, n) : n \in 1..Len(node)} |->
         IF p = node THEN Append(SelectSeq(before, First), entry) \o SelectSeq(before, Later)
         ELSE IF p \in DOMAIN t THEN t[p]
         ELSE <<>>]

(* The entries found for a route, the one to remove first.                 *)
FindHandler(t, method, route) ==
  LET node == Node(method, route)
  IN  IF node \notin DOMAIN t THEN <<>> ELSE SelectSeq(t[node], LAMBDA e : e.priority = route.priority)

(* Without the entry; the ids behind it move down, and nodes that lead to  *)
(* no handler disappear, that of any method too.                           *)
CullKeepingIds(t, entry) ==
  LET Kept(q) == SelectSeq(q, LAMBDA e : e # entry)
      nodes == {p \in DOMAIN t : p = <<>> \/ \E q \in DOMAIN t : IsPrefix(p, q) /\ Kept(t[q]) # <<>>}
  IN  [p \in nodes |-> Kept(t[p])]
CullNode(t, entry) ==
  LET Moved(e) == IF e.id > entry.id THEN [e EXCEPT !.id = @ - 1] ELSE e
      Kept(q) == LET rest == SelectSeq(q, LAMBDA e : e # entry) IN [i \in DOMAIN rest |-> Moved(rest[i])]
      nodes == {p \in DOMAIN t : p = <<>> \/ \E q \in DOMAIN t : IsPrefix(p, q) /\ Kept(t[q]) # <<>>}
  IN  [p \in nodes |-> Kept(t[p])]

Removed(x, route) ==
  LET found == FindHandler(x.tree, Head(route.methods), route)
  IN  IF found = <<>> THEN x
      ELSE [tree |-> CullNode(x.tree, Head(found)), handlers |-> RemoveAt(x.handlers, Head(found).id)]

Added(x, route) ==
  LET y == Removed(x, route)
      entry == [priority |-> route.priority, id |-> Len(y.handlers) + 1]
  IN  [tree |-> FoldLeft(LAMBDA t, method : Insert(t, Node(method, route), entry), y.tree, route.methods),
       handlers |-> Append(y.handlers, route)]

-----------------------------------------------------------------------------
(* The children a segment can go to, in the order they are tried.          *)
Tried(t, node, segment) ==
  LET OfPriority(high) ==
        (IF segment \in {":", "*"} THEN <<>> ELSE <<[name |-> segment, high |-> high]>>)
          \o (IF segment = "" THEN <<>> ELSE <<[name |-> ":", high |-> high]>>)
          \o <<[name |-> "*", high |-> high]>>
  IN  SelectSeq(OfPriority(TRUE) \o OfPriority(FALSE), LAMBDA child : Append(node, child) \in DOMAIN t)

(* The handlers a request is offered to below a node, each with the        *)
(* parameters it is given, if all of them yield.                           *)
RECURSIVE ExecuteHandlers(_, _, _, _)
ExecuteHandlers(t, node, segments, params) ==
  LET Called(p) == [i \in DOMAIN t[p] |-> [id |-> t[p][i].id, params |-> params]]
      Into(child) ==
        LET p == Append(node, child)
        IN  IF child.name = "*" THEN Called(p)
            ELSE ExecuteHandlers(t, p, Tail(segments),
                   IF child.name = ":" THEN Append(params, Head(segments)) ELSE params)
  IN  IF segments = <<>> THEN Called(node)
      ELSE LET children == Tried(t, node, Head(segments))
           IN  FlattenSeq([i \in DOMAIN children |-> Into(children[i])])

Below(method, url) ==
  IF MethodNode(method) \in DOMAIN tree THEN ExecuteHandlers(tree, MethodNode(method), Segments(url), <<>>) ELSE <<>>
LastMethod(t) == Head(SelectSeq(Reverse(MethodsInOrder), LAMBDA method : MethodNode(method) \in DOMAIN t))
Route(method, url) ==
  Below(method, url) \o IF DOMAIN tree = {<<>>} THEN <<>> ELSE Below(LastMethod(tree), url)

-----------------------------------------------------------------------------
RouterInit == /\ tree = [p \in {<<>>, MethodNode(ANY)} |-> <<>>]
              /\ handlers = <<>>

RouterBecomes(x) == tree' = x.tree /\ handlers' = x.handlers

Add(route) == \E x \in {Added([tree |-> tree, handlers |-> handlers], route)} :
                /\ Len(x.handlers) <= MaxHandlers
                /\ RouterBecomes(x)
Forget(route) == RouterBecomes(Removed([tree |-> tree, handlers |-> handlers], route))

RouterNext == \E route \in Routes : Add(route) \/ Forget(route)
RouterSpec == RouterInit /\ [][RouterNext]_routerVars

-----------------------------------------------------------------------------
(* What a route stands for, whatever was added and removed around it.      *)
Matches(pattern, url) ==
  LET names == Segments(pattern)
      asked == Segments(url)
      wild == names # <<>> /\ names[Len(names)] = "*"
      Fits(i) == names[i] # "*" /\ (names[i] = asked[i] \/ (names[i] = ":" /\ asked[i] # ""))
  IN  IF wild THEN Len(names) <= Len(asked) /\ \A i \in 1..(Len(names) - 1) : Fits(i)
      ELSE Len(names) = Len(asked) /\ \A i \in DOMAIN names : Fits(i)

Rank(name) == IF name = "*" THEN 2 ELSE IF name = ":" THEN 1 ELSE 0
FirstDifference(p, q) ==
  {i \in DOMAIN p \cap DOMAIN q : p[i] # q[i] /\ SubSeq(p, 1, i - 1) = SubSeq(q, 1, i - 1)}
Precedes(i, j) ==
  LET p == handlers[i].pattern
      q == handlers[j].pattern
      earlier == \/ handlers[i].priority < handlers[j].priority
                 \/ (handlers[i].priority = handlers[j].priority /\ i < j)
  IN  IF (handlers[i].priority = HIGH) # (handlers[j].priority = HIGH) THEN handlers[i].priority = HIGH
      ELSE IF p = q THEN earlier
      ELSE \A n \in FirstDifference(p, q) : Rank(p[n]) < Rank(q[n])
Parameters(pattern, url) ==
  LET at == SelectSeq([i \in DOMAIN pattern |-> i], LAMBDA i : pattern[i] = ":") IN [k \in DOMAIN at |-> url[at[k]]]

Methods == {MethodsInOrder[i] : i \in DOMAIN MethodsInOrder}

(* A request is offered to the handlers of exactly the registered routes   *)
(* that match it, each once, upgrades before others, at the first segment  *)
(* where two patterns differ a name before a parameter before a wildcard,  *)
(* and equal patterns by priority and age; and each is given the segments  *)
(* at its own parameters.  Whatever was added, replaced and removed        *)
(* before, a handler's id is never that of another one.                    *)
RoutesAsRegistered ==
  \A method \in Methods, url \in Urls :
    LET offered == Below(method, url)
        ids == [i \in DOMAIN offered |-> offered[i].id]
    IN  /\ ToSet(ids) = {k \in DOMAIN handlers : /\ method \in ToSet(handlers[k].methods)
                                                 /\ Matches(handlers[k].pattern, url)}
        /\ \A i, j \in DOMAIN ids : i < j => Precedes(ids[i], ids[j])
        /\ \A i \in DOMAIN offered : offered[i].params = Parameters(handlers[ids[i]].pattern, url)

(* The constructor says "Always have ANY route", and route tries the last  *)
(* method for every request that found no handler: a request is offered    *)
(* only to handlers of its method or of any method.                        *)
MethodsAreKept ==
  \A method \in Methods, url \in Urls :
    \A i \in DOMAIN Route(method, url) :
      {method, ANY} \cap ToSet(handlers[Route(method, url)[i].id].methods) # {}
=============================================================================
