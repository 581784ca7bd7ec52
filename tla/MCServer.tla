------------------------------- MODULE MCServer -------------------------------
(***************************************************************************)
(* Three clients, two nodes, and a request of every kind on_message *)
(* tells apart.  The two uploads differ in the edges of both nodes.        *)
(***************************************************************************)
EXTENDS Server, TLC

CONSTANTS a, b, c1, c2, c3

Json(valid, object, list, bad) == [valid |-> valid, object |-> object, list |-> list, bad |-> bad]
Upl(p) == [kind |-> "upload", data |-> p]
Ask(alg, start, end) == [kind |-> "search", alg |-> alg, start |-> start, end |-> end]

Cycle == Upl(Json(TRUE, TRUE, (a :> <<b>>) @@ (b :> <<a>>), {}))
Loops == Upl(Json(TRUE, TRUE, (a :> <<a>>) @@ (b :> <<b>>), {b}))
NoObject == Upl(Json(TRUE, FALSE, [n \in {} |-> << >>], {}))
Refusable == Upl(Json(FALSE, TRUE, [n \in {} |-> << >>], {}))

SomeRequests ==
  {Cycle, Loops, Ask("BFS", a, b), Ask("A_STAR", a, b), Ask("DFS", a, Empty),
   Ask("A_STAR", a, Empty), [kind |-> "incomplete"]}

AllRequests ==
  SomeRequests \cup {NoObject, Refusable, Ask("NONE", a, b), [kind |-> "garbled"]}
===============================================================================
