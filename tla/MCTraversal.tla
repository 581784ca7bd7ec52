----------------------------- MODULE MCTraversal -----------------------------
(***************************************************************************)
(* Small instances of the inputs of one call of a search; those of a_star, *)
(* whose names are coordinates, come last.                                 *)
(***************************************************************************)
EXTENDS Integers, Sequences, FiniteSets, TLC
CONSTANTS a, b, c, d, e, f, word, short

(* Every adjacency list over three names: any set of keys, any neighbours,  *)
(* self loops and neighbours that are not keys included.                    *)
SmallNames == {a, b, c}
SmallLists == UNION {[K -> SUBSET SmallNames] : K \in SUBSET SmallNames}

(* Every digraph on four keys with a as its source and d as its sink: what  *)
(* it takes for a node met twice before it is taken, and for an order that  *)
(* is not depth-first.                                                      *)
FourNames == {a, b, c, d}
FourLists ==
  {l \in [FourNames -> SUBSET {b, c, d}] : l[d] = {} /\ \A n \in FourNames : n \notin l[n]}

(* A long way a, b, e, d and a short way a, c, d, with edges between and    *)
(* back; any of them may be absent.  An algorithm that goes on with the     *)
(* wrong node first gives d too large a distance.                           *)
FiveNames == {a, b, c, d, e}
LongAndShort ==
  {<<a, b>>, <<b, e>>, <<e, d>>, <<a, c>>, <<c, d>>, <<b, c>>, <<e, b>>, <<d, c>>}
FiveLists ==
  {[n \in FiveNames |-> {v \in FiveNames : <<n, v>> \in E}] : E \in SUBSET LongAndShort}

SomeLists == SmallLists \cup FourLists \cup FiveLists

(* Graphs in which the empty string is a name like any other: JSON allows   *)
(* it as a key and as a string.                                             *)
SentinelNames(empty) == {a, b, empty}
SentinelLists(empty) == [SentinelNames(empty) -> SUBSET SentinelNames(empty)]

-----------------------------------------------------------------------------

(* Points, by their distance from the goal d: b and c are near it, a and f  *)
(* equally far, so that the heap meets a tie, and e is farthest.  word is   *)
(* no number, short a single one.                                           *)
NumbersOr(noNumber) ==
  (a :> <<0, 2>>) @@ (b :> <<1, 0>>) @@ (c :> <<1, 1>>) @@ (d :> <<0, 0>>) @@ (e :> <<3, 0>>)
    @@ (f :> <<2, 0>>) @@ (word :> noNumber) @@ (short :> <<7>>)
PointNames == {a, b, c, d, e, f, word, short}

(* A key of each kind, as start, as goal, as neighbour, and as a neighbour  *)
(* that is no key.                                                          *)
MixedNames == {a, b, word, short}
MixedLists ==
  UNION {[K -> SUBSET MixedNames] : K \in {{}, {a}, {a, b}, {a, word}, {a, short}}}
    \cup [{a, b, word} -> SUBSET {b, word}] \cup [{a, b, short} -> SUBSET {b, short}]

(* From a to d by way of b and c, which lie near d, or of f alone, which    *)
(* does not; e can be met from either way.  Any of the edges may be absent. *)
TwoWays == {<<a, b>>, <<a, f>>, <<b, c>>, <<c, e>>, <<c, d>>, <<f, e>>, <<f, d>>, <<e, d>>}
TwoWayLists ==
  {[n \in {a, b, c, d, e, f} |-> {v \in {b, c, d, e, f} : <<n, v>> \in E}] : E \in SUBSET TwoWays}

AllLists == MixedLists \cup FourLists \cup TwoWayLists
=============================================================================
