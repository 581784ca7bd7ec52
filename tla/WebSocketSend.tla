---------------------------- MODULE WebSocketSend ----------------------------
(***************************************************************************)
(* How the vendored uWebSockets sends one message over a WebSocket: by     *)
(* itself, or in the send buffer of AsyncSocket; and the callback of App   *)
(* that sends the published messages of one socket as a batch.             *)
(*                                                                         *)
(* The world has, per socket, a record ws: subscriber (the pointer is      *)
(* set), isShuttingDown, hasTimedOut, closes (close events so far),        *)
(* readShut, and two records of what was asked: owed, the ids of what was  *)
(* sent or published to this socket and its peer has not got, in the order *)
(* of the calls, and lossy, set once its dropped handler was called.  A    *)
(* message is [id, op, len]; ids grow in the order of the calls.           *)
(* Compression changes no order and no length the limits tell apart, and   *)
(* is left out.                                                            *)
(***************************************************************************)
EXTENDS AsyncSocket

CONSTANTS
  maxBackpressure,           \* 0: no limit
  closeOnBackpressureLimit

ASSUME LimitIsSet == maxBackpressure \in Nat /\ closeOnBackpressureLimit \in BOOLEAN

NewWs ==
  [subscriber |-> FALSE, isShuttingDown |-> FALSE, hasTimedOut |-> FALSE,
   closes |-> 0, readShut |-> FALSE, owed |-> << >>, lossy |-> FALSE]

(* Messages no shorter than the cork buffer take the long way. *)
IsBig(message) == message.len >= CORK_BUFFER_SIZE

(* A header and the payload. *)
Frame(message) == [i \in 1..message.len + 1 |-> <<message, i>>]

Owe(x, s, message) == [x EXCEPT !.ws[s].owed = Append(@, message.id)]

-----------------------------------------------------------------------------

OverLimit(x, s) == maxBackpressure # 0 /\ maxBackpressure < BufferedAmount(x, s)

Drop(x, s, message) ==
  [x EXCEPT !.ws[s].lossy = TRUE,
            !.ws[s].readShut = @ \/ closeOnBackpressureLimit]

(* Mutant: what is left is counted without the header. *)
LongSentOffHeader(put, s, frame) ==
  IF put.n = Len(frame) THEN [x |-> put.x, status |-> "SUCCESS"]
  ELSE [x |-> UncorkWithoutSending(Append1(put.x, s, From(frame, put.n + 1)), s),
        status |-> "BACKPRESSURE"]

LongSent(put, s, frame) ==
  IF put.n = Len(frame) THEN [x |-> put.x, status |-> "SUCCESS"]
  ELSE [x |-> UncorkWithoutSending(Append1(put.x, s, From(frame, put.n)), s),
        status |-> "BACKPRESSURE"]

(* The frame goes out by itself, past cork and buffer, which are empty. *)
SendLong(x, s, message) == LongSent(Accept(x, s, Frame(message)), s, Frame(message))

(* The frame is in the send buffer, which may have to go out. *)
SendBuffer(got, s) ==
  CASE got.needs = "drain" -> Write(got.x, s, << >>, FALSE)
    [] got.needs = "uncork" -> Uncork(got.x, s, << >>, FALSE)
    [] OTHER -> Wrote(got.x, 0, FALSE)

ShortSent(wrote) ==
  [x |-> wrote.x, status |-> IF wrote.failed THEN "BACKPRESSURE" ELSE "SUCCESS"]

SendShort(x, s, message) ==
  ShortSent(SendBuffer(GetSendBuffer(x, s, Frame(message)), s))

(* send, where nothing published is waiting for the socket. *)
SendOrDrop(x, s, message) ==
  IF OverLimit(x, s) THEN [x |-> Drop(x, s, message), status |-> "DROPPED"]
  ELSE SendShort(x, s, message)

-----------------------------------------------------------------------------
(* The callback: the sends of one batch share one cork.  Inside it, send   *)
(* finds no more indices to drain, and a subscriber.                       *)

TakesCork(x, s, flags) ==
  IF "FIRST" \in flags /\ CanCork(x) /\ ~IsCorked(x, s)
  THEN [Cork(x, s) EXCEPT !.tree.needsUncork = TRUE] ELSE x

GivesCork(x, s) == IF x.tree.needsUncork THEN Uncork(x, s, << >>, FALSE).x ELSE x

(* Mutant: a drop stops the drain and leaves the cork taken. *)
DropKeepsCork(sent, s, flags) ==
  IF sent.status = "DROPPED" THEN [x |-> sent.x, stop |-> TRUE]
  ELSE [x |-> IF "LAST" \in flags THEN GivesCork(sent.x, s) ELSE sent.x, stop |-> FALSE]

AfterSend(sent, s, flags) ==
  IF sent.status = "DROPPED"
  THEN [x |-> [GivesCork(sent.x, s) EXCEPT !.tree.needsUncork = FALSE], stop |-> TRUE]
  ELSE [x |-> IF "LAST" \in flags THEN GivesCork(sent.x, s) ELSE sent.x, stop |-> FALSE]

DrainCallback(x, s, message, flags) ==
  AfterSend(SendOrDrop(TakesCork(x, s, flags), s, message), s, flags)
==============================================================================
