-------------------------------- MODULE PubSub --------------------------------
(***************************************************************************)
(* One event loop of the vendored uWebSockets, with its sockets and its    *)
(* topic tree.  The loop runs one handler at a time; inside one the        *)
(* application may use any socket whose close event it has not seen.  What *)
(* a handler does between two calls of the library is seen by nobody else, *)
(* so every call is an action.                                             *)
(*                                                                         *)
(*   running   the handler the loop is in: none, data (corked), call (a    *)
(*             timer, a call deferred by a thread, a drain handler) or     *)
(*             cork (WebSocket::cork), and its socket;                     *)
(*   nextId    the id of the next message; others counts the other calls.  *)
(***************************************************************************)
EXTENDS WebSocket

CONSTANTS
  Kernels,       \* the scripts of system calls a handler may meet
  Lengths,       \* per id, the payload lengths the application uses
  MaxMessages,   \* bound on the messages the application sends and publishes
  MaxOthers,     \* bound on its other calls, the timeouts and the FINs of peers
  Subscriptions, \* what the sockets may have subscribed to in their open handlers
  Talkers        \* the sockets whose peers send data

ASSUME PubSubAssumption ==
  /\ NoSocket \notin Sockets
  /\ IsFiniteSet(Sockets) /\ IsFiniteSet(Topics)
  /\ Talkers \subseteq Sockets
  /\ Kernels \subseteq Seq(Nat)
  /\ MaxMessages \in Nat
  /\ \A i \in 1..MaxMessages : Lengths[i] \subseteq Nat
  /\ Subscriptions \subseteq [Sockets -> SUBSET Topics]

VARIABLES
  loop, socket, tree, ws, running, nextId, others

world == <<loop, socket, tree, ws>>
vars == <<world, running, nextId, others>>

InCall == [in |-> "call", at |-> NoSocket]
Idle == [in |-> "none", at |-> NoSocket]

World(kernel) ==
  [loop |-> loop, socket |-> socket, tree |-> tree, ws |-> ws, kernel |-> kernel]

Becomes(x) ==
  \E y \in {Delivered(x)} :
    /\ loop' = y.loop
    /\ socket' = y.socket
    /\ tree' = y.tree
    /\ ws' = y.ws

Now == World(<< >>)
Message(op, len) == [id |-> nextId, op |-> op, len |-> len]
Numbered == nextId <= MaxMessages /\ nextId' = nextId + 1 /\ UNCHANGED others
Rarely == others < MaxOthers /\ others' = others + 1

Init ==
  \E subscribed \in Subscriptions :
    /\ loop = NewLoop
    /\ socket = [s \in Sockets |-> NewSocket]
    /\ tree = NewTree(subscribed)
    /\ ws = [s \in Sockets |-> [NewWs EXCEPT !.subscriber = subscribed[s] # {}]]
    /\ running = Idle
    /\ nextId = 1
    /\ others = 0

-----------------------------------------------------------------------------
(* What the application does inside a handler. *)

Usable(s) == ~loop.dead /\ running # Idle /\ ws[s].closes = 0

Calls(x) == Becomes(x) /\ UNCHANGED running

AppSend(s) ==
  /\ Usable(s)
  /\ Numbered
  /\ \E kernel \in Kernels, len \in Lengths[nextId] :
       Calls(SendOwed(World(kernel), s, Message("data", len)))

AppPublishes(s, t) ==
  /\ Usable(s)
  /\ Numbered
  /\ \E kernel \in Kernels, len \in Lengths[nextId] :
       Calls(Publish(World(kernel), s, t, Message("data", len)))

AppPublishesToAll(t) ==
  /\ ~loop.dead
  /\ running # Idle
  /\ Numbered
  /\ \E kernel \in Kernels, len \in Lengths[nextId] :
       Calls(AppPublish(World(kernel), NoSocket, t, Message("data", len)))

AppEnd(s) ==
  /\ Usable(s)
  /\ \E kernel \in Kernels : Calls(End(World(kernel), s, Message("close", 1)))
  /\ Rarely
  /\ nextId' = nextId + 1

AppCloses(s) == Usable(s) /\ Calls(WsClose(Now, s)) /\ Rarely /\ UNCHANGED nextId

AppSubscribes(s, t) ==
  Usable(s) /\ Calls(Subscribe(Now, s, t)) /\ Rarely /\ UNCHANGED nextId

AppUnsubscribes(s, t) ==
  Usable(s) /\ Calls(Unsubscribe(Now, s, t)) /\ Rarely /\ UNCHANGED nextId

(* iterateTopics of one socket, to subscribe it or another to the same      *)
(* topics or to the others.                                                 *)
AppIterates(s, u) ==
  /\ Usable(s)
  /\ Usable(u)
  /\ \E topics \in {TopicsOf(Now, s), OtherTopics(Now, s)} :
       Calls(IterateTopics(Now, s, u, topics))
  /\ Rarely
  /\ UNCHANGED nextId

(* WebSocket::cork, where the cork is free.  It is not counted, but is not  *)
(* called once MaxOthers calls are made.                                    *)
AppCorks(s) ==
  /\ Usable(s)
  /\ running = InCall
  /\ CanCork(Now)
  /\ others < MaxOthers
  /\ Becomes(Cork(Now, s))
  /\ running' = [in |-> "cork", at |-> s]
  /\ UNCHANGED <<nextId, others>>

Returned(x) ==
  CASE running.in = "data" -> OnDataEnd(x, running.at)
    [] running.in = "cork" -> Uncork(x, running.at, << >>, FALSE).x
    [] OTHER -> x

HandlerReturns ==
  /\ ~loop.dead
  /\ running # Idle
  /\ \E kernel \in Kernels : Becomes(Returned(World(kernel)))
  /\ running' = Idle
  /\ UNCHANGED <<nextId, others>>

-----------------------------------------------------------------------------
(* What the loop dispatches. *)

Free == ~loop.dead /\ running = Idle
Open(s) == Free /\ ~socket[s].closed

Call ==
  /\ Free
  /\ running' = InCall
  /\ UNCHANGED <<world, nextId, others>>

(* Data for a socket in shutdown is thrown away. *)
OnData(s) ==
  /\ s \in Talkers
  /\ Open(s)
  /\ ~ws[s].isShuttingDown
  /\ ~ws[s].readShut
  /\ Becomes(OnDataBegin(Now, s))
  /\ running' = [in |-> "data", at |-> s]
  /\ UNCHANGED <<nextId, others>>

Writable(s, kernel) ==
  LET x == World(kernel)
      y == OnWritable(x, s)
  IN  /\ Open(s)
      /\ socket[s].polling
      /\ Becomes(y)
      /\ running' = IF CallsDrainHandler(x, y, s)
                    THEN InCall ELSE Idle
      /\ UNCHANGED <<nextId, others>>

(* The peer's FIN, or what shutting down the reading side looks like. *)
OnEnd(s) ==
  /\ Open(s)
  /\ Becomes(CloseSocket(Now, s))
  /\ Rarely
  /\ UNCHANGED <<running, nextId>>

Timeout(s) ==
  /\ Open(s)
  /\ \E kernel \in Kernels :
       Becomes(OnTimeout(World(kernel), s, Message("ping", 1)))
  /\ Rarely
  /\ nextId' = nextId + 1
  /\ UNCHANGED running

LongTimeout(s) ==
  /\ Open(s)
  /\ \E kernel \in Kernels : Becomes(End(World(kernel), s, Message("close", 1)))
  /\ Rarely
  /\ nextId' = nextId + 1
  /\ UNCHANGED running

(* The topic tree drains after the events of an iteration and before those *)
(* of the next; after them, nobody may hold the cork.                      *)
PreCb(x) == DrainAll(x)
DieIfCorked(x) == [x EXCEPT !.loop.dead = @ \/ ~CanCork(x)]
PostCb(x) == DieIfCorked(DrainAll(x))

Iterate ==
  /\ Free
  /\ \E kernel \in Kernels :
       Becomes(PreCb(PostCb(World(kernel))))
  /\ UNCHANGED <<running, nextId, others>>

-----------------------------------------------------------------------------

Next ==
  \/ \E s \in Sockets :
       \/ AppSend(s) \/ AppEnd(s) \/ AppCloses(s) \/ AppCorks(s)
       \/ OnData(s) \/ OnEnd(s) \/ Timeout(s) \/ LongTimeout(s)
       \/ \E kernel \in Kernels : Writable(s, kernel)
  \/ \E s \in Sockets, t \in Topics :
       AppPublishes(s, t) \/ AppSubscribes(s, t) \/ AppUnsubscribes(s, t)
  \/ \E t \in Topics : AppPublishesToAll(t)
  \/ \E s, u \in Sockets : AppIterates(s, u)
  \/ HandlerReturns
  \/ Iterate
  \/ Call

Spec == Init /\ [][Next]_vars

-----------------------------------------------------------------------------
(* Properties. *)

Live(s) == ~socket[s].closed

(* Tokens: the header of a frame, the end of one.                           *)
Begins(token) == token[2] = 1
Ends(token) == token[2] = token[1].len + 1

(* A token continues the frame of the one before it, or begins one where    *)
(* that one ended.                                                          *)
Continues(token, before) ==
  IF Ends(before) THEN Begins(token) ELSE token = <<before[1], before[2] + 1>>
Whole(stream) ==
  /\ stream # << >> => Begins(stream[1]) /\ Ends(stream[Len(stream)])
  /\ \A i \in 1..Len(stream) - 1 : Continues(stream[i + 1], stream[i])

Headers(stream) == {i \in 1..Len(stream) : Begins(stream[i])}
CloseIsLast(stream) ==
  \A i, j \in Headers(stream) : i < j => stream[i][1].op # "close"

(* The ids of the data in a stream, by the headers, and of what is parked.  *)
IsData(token) == Begins(token) /\ token[1].op = "data"
AddId(ids, token) == IF IsData(token) THEN Append(ids, token[1].id) ELSE ids
DataIds(stream) == FoldLeft(AddId, << >>, stream)
ParkedIds(s) == [i \in 1..Len(tree.indices[s]) |-> tree.palette[tree.indices[s][i] + 1].id]
Increasing(ids) == \A i \in 1..Len(ids) - 1 : ids[i] < ids[i + 1]

(* Types, with the sizes the limits leave. *)
TypeOK ==
  /\ loop.corked \in Sockets \cup {NoSocket}
  /\ Len(loop.cork) <= CORK_BUFFER_SIZE
  /\ \A s \in Sockets :
       /\ socket[s].pendingRemoval \in 0..Len(socket[s].buffer)
       /\ ws[s].closes \in {0, 1}
       /\ Len(tree.indices[s]) <= BatchLimit
  /\ \A t \in Topics : tree.topics[t] \subseteq Sockets
  /\ running.in \in {"none", "data", "call", "cork"}

(* What a socket's peer gets, through wire, backpressure and cork, is whole *)
(* frames, and nothing after a close.                                       *)
FramesAreWhole ==
  \A s \in Sockets : Live(s) =>
    Whole(Stream(Now, s)) /\ CloseIsLast(Stream(Now, s))

(* "Palette of outgoing messages, up to 64k" (TopicTree.h:102), so that an  *)
(* index of 16 bits is enough; "If we have more than 65k messages we need   *)
(* to drain every socket" (TopicTree.h:312).                                *)
PaletteFits == Len(tree.palette) <= PaletteLimit + 1

(* A socket gets each message once, in the order of the calls, and what is  *)
(* parked in the topic tree comes behind what is on its way; unless the     *)
(* dropped handler was called, that is everything sent or published to it.  *)
NothingIsLost ==
  \A s \in Sockets : Live(s) =>
    LET ids == DataIds(Stream(Now, s)) \o ParkedIds(s)
    IN  Increasing(ids) /\ (~ws[s].lossy => ws[s].owed = ids)

(* The parked messages can be found: the list holds exactly who has some,   *)
(* each once, and neither it nor a topic holds a socket that has closed.    *)
TreeIsConsistent ==
  /\ Range(tree.drainable) = {s \in Sockets : NeedsDrainage(Now, s)}
  /\ IsInjective(tree.drainable)
  /\ \A s \in Sockets :
       /\ \A i \in 1..Len(tree.indices[s]) : tree.indices[s][i] < Len(tree.palette)
       /\ ws[s].closes = 1 => ~NeedsDrainage(Now, s) /\ TopicsOf(Now, s) = {}

(* The one std::terminate of the library that calls can reach is that of a  *)
(* socket whose topics are being iterated and which is subscribed to one    *)
(* then, be it one the callback was not given (see the README's findings):  *)
(* the cork and the loop's own checks never end the process.  A handler     *)
(* that has returned has left nothing in the cork.                          *)
CorkIsGivenBack ==
  /\ loop.dead => tree.iterating # NoSocket
  /\ loop.cork # << >> => loop.corked # NoSocket
  /\ running \in {Idle, InCall} => loop.corked = NoSocket

(* A FIN is sent by the side that ended, with nothing left behind it except *)
(* where the close frame itself was dropped; the close event is given once, *)
(* when the socket ends or is closed, whichever comes first.                *)
EndIsClean ==
  \A s \in Sockets :
    /\ Live(s) /\ socket[s].shut =>
         ws[s].isShuttingDown /\ (Buffered(Now, s) = << >> \/ ws[s].lossy)
    /\ (ws[s].closes = 1) = (ws[s].isShuttingDown \/ socket[s].closed)

(* The world once the running handler has returned, the iteration is over   *)
(* and the kernel has taken what it was given.                              *)
Quiet ==
  LET Writes(x, s) == IF x.socket[s].polling THEN OnWritable(x, s) ELSE x
  IN  Delivered(FoldLeft(Writes, PostCb(Returned(Now)), SetToSeq(Sockets)))

IsOwed(x, s) == ~x.socket[s].closed /\ ~x.ws[s].lossy /\ x.ws[s].owed # << >>
LacksFin(x, s) == ~x.socket[s].closed /\ x.ws[s].isShuttingDown /\ ~x.socket[s].shut

(* After end(), "If we are not corked, and we just sent off everything, we  *)
(* need to FIN right here. In all other cases, we need to fin either if     *)
(* uncork was successful, or when drainage is complete."                    *)
(* (WebSocket.h:232-233)                                                    *)
FinFollowsEnd ==
  ~loop.dead => LET settled == Quiet IN \A s \in Sockets : ~LacksFin(settled, s)
==============================================================================
