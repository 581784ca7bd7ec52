------------------------------- MODULE MCGraph -------------------------------
(***************************************************************************)
(* Three nodes, weights on either side of 0, and uploads of every kind     *)
(* extractGraphData distinguishes.                                         *)
(***************************************************************************)
EXTENDS Graph, TLC

CONSTANTS n1, n2, n3

SomeWeights == {-1, 0, 2}

Json(valid, object, list_, bad) == [valid |-> valid, object |-> object, list |-> list_, bad |-> bad]

SomeUploads ==
  {Json(TRUE, TRUE, (n1 :> <<n2, n3>>) @@ (n2 :> <<n1>>), {}),
   Json(TRUE, TRUE, (n1 :> << >>) @@ (n2 :> <<n2>>) @@ (n3 :> << >>), {n3}),
   Json(TRUE, FALSE, [n \in {} |-> << >>], {}),
   Json(FALSE, TRUE, [n \in {} |-> << >>], {})}
==============================================================================
