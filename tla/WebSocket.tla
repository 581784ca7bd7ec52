------------------------------ MODULE WebSocket ------------------------------
(***************************************************************************)
(* WebSocket of the vendored uWebSockets and the socket handlers of        *)
(* WebSocketContext; those that only inform the application are left out.  *)
(***************************************************************************)
EXTENDS TopicTree, FiniteSets

CONSTANT sendPingsAutomatically

ASSUME PingsAreSet == sendPingsAutomatically \in BOOLEAN

-----------------------------------------------------------------------------
(* The peer: it takes a whole message off the wire when that is the next   *)
(* one it is owed (any later one, if some were dropped), or a ping.  What  *)
(* it cannot take stays where it is, for the invariants to see.            *)

TakeOne(left, lossy) ==
  LET wire == left[1]
      owed == left[2]
      message == wire[1][1]
      n == message.len + 1
      rest == SubSeq(wire, n + 1, Len(wire))
      at == IF lossy THEN SelectInSeq(owed, LAMBDA id : id = message.id) ELSE 1
  IN  IF wire = << >> THEN left
      ELSE IF Len(wire) < n \/ (\E i \in 1..n : wire[i] # <<message, i>>) THEN left
      ELSE IF message.op = "ping" THEN <<rest, owed>>
      ELSE IF message.op = "data" /\ at \in 1..Len(owed) /\ owed[at] = message.id
           THEN <<rest, SubSeq(owed, at + 1, Len(owed))>>
      ELSE left

(* Nothing is left to take after as many messages as there are tokens. *)
Taken(wire, owed, lossy) ==
  LET after[i \in 0..Len(wire)] == IF i = 0 THEN <<wire, owed>> ELSE TakeOne(after[i - 1], lossy)
  IN  after[Len(wire)]

Delivered(x) ==
  LET left == [s \in Sockets |-> Taken(x.socket[s].wire, x.ws[s].owed, x.ws[s].lossy)]
  IN  [x EXCEPT !.socket = [s \in Sockets |-> [@[s] EXCEPT !.wire = left[s][1]]],
                !.ws = [s \in Sockets |-> [@[s] EXCEPT !.owed = left[s][2]]]]

-----------------------------------------------------------------------------

(* Mutant: what was published before is not sent first. *)
SendUnsynced(x, s, message) == SendOrDrop(x, s, message)

Send(x, s, message) ==
  IF OverLimit(x, s) THEN [x |-> Drop(x, s, message), status |-> "DROPPED"]
  ELSE IF /\ IsBig(message)
          /\ ~x.ws[s].subscriber
          /\ BufferedAmount(x, s) = 0
          /\ x.loop.cork = << >>
  THEN SendLong(x, s, message)
  ELSE SendShort(IF x.ws[s].subscriber THEN DrainOne(x, s) ELSE x, s, message)

-----------------------------------------------------------------------------
(* us_socket_close and on_close, which it calls and which destructs the    *)
(* data of the socket; the peer is owed nothing more.                      *)

CloseEvent(x, s) ==
  LET y == FreeSubscriber(x, s)
  IN  [y EXCEPT !.ws[s].subscriber = FALSE, !.ws[s].closes = @ + 1]

CloseSocket(x, s) ==
  LET gone == [x EXCEPT !.socket[s] = [NewSocket EXCEPT !.closed = TRUE],
                        !.ws[s].owed = << >>]
  IN  IF x.socket[s].closed THEN x
      ELSE IF x.ws[s].isShuttingDown THEN gone
      ELSE CloseEvent(gone, s)

(* WebSocket::close *)
WsClose(x, s) == IF x.ws[s].isShuttingDown THEN x ELSE CloseSocket(x, s)

(* Mutant: the FIN does not wait for the close frame to leave. *)
FinAtOnce(sent, s) == IF IsCorked(sent.x, s) THEN sent.x ELSE Shutdown(sent.x, s)

(* A dropped close frame counts as one that was sent. *)
FinAfter(sent, s) ==
  IF sent.status # "BACKPRESSURE" /\ ~IsCorked(sent.x, s) THEN Shutdown(sent.x, s) ELSE sent.x

End(x, s, message) ==
  IF x.ws[s].isShuttingDown THEN x
  ELSE CloseEvent(FinAfter(Send([x EXCEPT !.ws[s].isShuttingDown = TRUE], s, message), s), s)

(* subscribe creates the Subscriber when there is none. *)
Subscribe(x, s, t) == Join([x EXCEPT !.ws[s].subscriber = TRUE], s, t)
Unsubscribe(x, s, t) == IF x.ws[s].subscriber THEN Leave(x, s, t) ELSE x

SendOwed(x, s, message) == Send(Owe(x, s, message), s, message).x

(* publishBig, whose callback sends to each reader at once. *)
PublishBig(x, sender, t, message) ==
  FoldLeft(LAMBDA acc, s : SendOwed(acc, s, message), x, Readers(x, sender, t))

OweAll(x, readers, message) ==
  [x EXCEPT !.ws = [s \in Sockets |->
     IF s \in readers THEN [x.ws[s] EXCEPT !.owed = Append(@, message.id)] ELSE x.ws[s]]]

(* App::publish has no sender. *)
AppPublish(x, sender, t, message) ==
  IF IsBig(message) THEN PublishBig(x, sender, t, message)
  ELSE TreePublish(OweAll(x, x.tree.topics[t] \ {sender}, message), sender, t, message)

Publish(x, s, t, message) ==
  IF x.ws[s].subscriber THEN AppPublish(x, s, t, message) ELSE x

(* iterateTopics of s, with a callback that subscribes u to topics: to the  *)
(* topic it is given, each time, or to every other.                         *)
OtherTopics(x, s) == UNION {Topics \ {t} : t \in TopicsOf(x, s)}

SubscribeTo(x, u, topics) ==
  FoldLeft(LAMBDA acc, t : Subscribe(acc, u, t), x, SetToSeq(topics))

IterateTopics(x, s, u, topics) ==
  LET done == SubscribeTo([x EXCEPT !.tree.iterating = s], u, topics)
  IN  IF ~x.ws[s].subscriber THEN x
      ELSE IF done.loop.dead THEN done
      ELSE [done EXCEPT !.tree.iterating = NoSocket]

-----------------------------------------------------------------------------
(* The handlers of WebSocketContext.  on_data corks, lets the protocol call *)
(* the application, and uncorks.                                            *)

OnDataBegin(x, s) == Cork([x EXCEPT !.ws[s].hasTimedOut = FALSE], s)

FinIfSent(x, s) ==
  IF BufferedAmount(x, s) = 0 /\ x.ws[s].isShuttingDown THEN Shutdown(x, s) ELSE x

OnDataEnd(x, s) == FinIfSent(Uncork(x, s, << >>, FALSE).x, s)

(* Whether the write of on_writable took something, or had nothing to do. *)
Drained(x, y, s) ==
  BufferedAmount(x, s) = 0 \/ BufferedAmount(x, s) > BufferedAmount(y, s)

(* Mutant: the FIN that waited for the drain is not sent. *)
WritableForgetsFin(x, s) ==
  LET told == [x EXCEPT !.socket[s].polling = FALSE]
      y == Write(told, s, << >>, FALSE).x
  IN  IF x.socket[s].shut THEN told
      ELSE IF Drained(x, y, s) THEN [y EXCEPT !.ws[s].hasTimedOut = FALSE] ELSE y

(* on_writable, up to the drain handler. *)
OnWritable(x, s) ==
  LET told == [x EXCEPT !.socket[s].polling = FALSE]
      y == Write(told, s, << >>, FALSE).x
      z == IF Drained(x, y, s) THEN [y EXCEPT !.ws[s].hasTimedOut = FALSE] ELSE y
  IN  IF x.socket[s].shut THEN told
      ELSE IF x.ws[s].isShuttingDown /\ BufferedAmount(y, s) = 0 THEN Shutdown(z, s)
      ELSE z

CallsDrainHandler(x, y, s) ==
  ~x.socket[s].shut /\ ~x.ws[s].isShuttingDown /\ Drained(x, y, s)

(* on_timeout: a ping first, if the behaviour says so, and then the end. *)
OnTimeout(x, s, ping) ==
  IF sendPingsAutomatically /\ ~x.ws[s].isShuttingDown /\ ~x.ws[s].hasTimedOut
  THEN Write([x EXCEPT !.ws[s].hasTimedOut = TRUE], s, Frame(ping), FALSE).x
  ELSE CloseSocket(x, s)
==============================================================================
