------------------------------ MODULE TopicTree ------------------------------
(***************************************************************************)
(* TopicTree of the vendored uWebSockets: published messages are parked in *)
(* one palette of the loop, each subscriber keeping the positions of its   *)
(* own, until the end of the loop's iteration, until the socket sends      *)
(* something itself, or until a limit is met.                              *)
(*                                                                         *)
(* The world has a record tree: topics, the subscribers of each topic (a   *)
(* topic the code has deleted has none); indices, the messageIndices of    *)
(* each subscriber, empty when it needs no drainage; drainable, the linked *)
(* list from its head; palette, outgoingMessages; iterating; needsUncork,  *)
(* what the drain callback of App remembers.                               *)
(***************************************************************************)
EXTENDS WebSocketSend, SequencesExt

CONSTANTS
  Sockets,
  Topics,
  BatchLimit,    \* 32 messageIndices in Subscriber
  PaletteLimit   \* UINT16_MAX messages in outgoingMessages; an index is a uint16_t

ASSUME LimitsArePositive == {BatchLimit, PaletteLimit} \subseteq Nat \ {0}

NewTree(subscribed) ==
  [topics |-> [t \in Topics |-> {s \in Sockets : t \in subscribed[s]}],
   indices |-> [s \in Sockets |-> << >>], drainable |-> << >>,
   palette |-> << >>, iterating |-> NoSocket, needsUncork |-> FALSE]

TopicsOf(x, s) == {t \in Topics : s \in x.tree.topics[t]}
NeedsDrainage(x, s) == x.tree.indices[s] # << >>

(* checkIteratingSubscriber: a std::terminate, after which nothing changes. *)
Terminated(x) == [x EXCEPT !.loop.dead = TRUE]

Join(x, s, t) ==
  IF x.tree.iterating = s THEN Terminated(x)
  ELSE [x EXCEPT !.tree.topics[t] = @ \cup {s}]
Leave(x, s, t) ==
  IF x.tree.iterating = s THEN Terminated(x)
  ELSE [x EXCEPT !.tree.topics[t] = @ \ {s}]

Unlink(x, s) == [x EXCEPT !.tree.drainable = RemoveFirst(@, s)]

(* Mutant: a subscriber that goes away stays in the list. *)
FreeButLinked(x, s) ==
  [x EXCEPT !.tree.topics = [t \in Topics |-> @[t] \ {s}],
            !.tree.indices[s] = << >>]

FreeSubscriber(x, s) ==
  [Unlink(x, s) EXCEPT !.tree.topics = [t \in Topics |-> @[t] \ {s}],
                       !.tree.indices[s] = << >>]

-----------------------------------------------------------------------------

Flags(i, n) == {f \in {"FIRST", "LAST"} : (f = "FIRST" /\ i = 1) \/ (f = "LAST" /\ i = n)}

(* The indices are gone before the callback runs, which sends, which would *)
(* drain again; the callback may stop the rest of the batch.               *)
DrainImpl(x, s) ==
  LET batch == x.tree.indices[s]
      Emit(acc, i) ==
        IF acc.stop THEN acc
        ELSE DrainCallback(acc.x, s, x.tree.palette[batch[i] + 1], Flags(i, Len(batch)))
  IN  FoldLeft(Emit, [x |-> [x EXCEPT !.tree.indices[s] = << >>], stop |-> FALSE],
               [i \in 1..Len(batch) |-> i]).x

(* drain(Subscriber) *)
ForgetIfDrained(x) ==
  IF x.tree.drainable = << >> THEN [x EXCEPT !.tree.palette = << >>] ELSE x

DrainOne(x, s) ==
  IF NeedsDrainage(x, s) THEN ForgetIfDrained(DrainImpl(Unlink(x, s), s)) ELSE x

(* drain() *)
DrainAll(x) ==
  IF x.tree.drainable = << >> THEN x
  ELSE [FoldLeft(DrainImpl, x, x.tree.drainable) EXCEPT
          !.tree.drainable = << >>, !.tree.palette = << >>]

(* Everyone subscribed but the sender, in the order the set is walked. *)
Readers(x, sender, t) == SetToSeq(x.tree.topics[t] \ {sender})

(* The message that comes next into the palette is parked for s. *)
Park(x, s) ==
  [x EXCEPT !.tree.indices[s] = Append(@, Len(x.tree.palette) % (PaletteLimit + 1)),
            !.tree.drainable = IF NeedsDrainage(x, s) THEN @ ELSE <<s>> \o @]

ParkFor(x, s) ==
  Park(IF Len(x.tree.indices[s]) = BatchLimit THEN DrainOne(x, s) ELSE x, s)

MakeRoom(x) == IF Len(x.tree.palette) = PaletteLimit THEN DrainAll(x) ELSE x

TreePublish(x, sender, t, message) ==
  IF x.tree.topics[t] = {} THEN x
  ELSE IF x.tree.topics[t] \subseteq {sender} THEN MakeRoom(x)
  ELSE [FoldLeft(ParkFor, MakeRoom(x), Readers(x, sender, t)) EXCEPT
          !.tree.palette = Append(@, message)]
==============================================================================
