--------------------------- MODULE WebSocketProtocol ---------------------------
(***************************************************************************)
(* What the vendored uWebSockets makes of the bytes of a WebSocket: the    *)
(* frames of WebSocketProtocol, which arrive cut anywhere, and the         *)
(* messages and control frames that handleFragment of WebSocketContext     *)
(* puts together.                                                          *)
(*                                                                         *)
(* Bytes are tokens.  A head starts with a token that has the fields of    *)
(* the frame, and is as long as its length calls for.  A token of payload  *)
(* has the byte of the mask it was masked with (key): unmasked with any    *)
(* other it is garbage.                                                    *)
(*                                                                         *)
(* A socket x has the WebSocketState, with the mask as how far it has been *)
(* rotated and the opcodes as a stack, the fragmentBuffer, controlTip and  *)
(* compression of WebSocketData, and what its handlers have been told.     *)
(***************************************************************************)
EXTENDS Integers, Sequences

CONSTANTS
  SHORT_MESSAGE_HEADER, MEDIUM_MESSAGE_HEADER, LONG_MESSAGE_HEADER,
  ShortLength, MediumLength,   \* 125 and 65535, the longest payloads of these heads
  ControlLength,               \* 125, the longest payload of a control frame
  maxPayloadLength,
  Conversations                \* what the peer may send

VARIABLES inbound, conversation, read

inboundVars == <<inbound, conversation, read>>

CONTINUATION == 0
TEXT == 1
CLOSE == 8
PING == 9
PONG == 10

NewInbound(perMessageDeflate) ==
  [wantsHead |-> TRUE, spill |-> << >>, opStack |-> << >>, lastFin |-> TRUE,
   remainingBytes |-> 0, mask |-> 0,
   fragmentBuffer |-> << >>, controlTip |-> 0,
   compression |-> IF perMessageDeflate THEN "enabled" ELSE "disabled",
   shutting |-> FALSE, closed |-> FALSE, told |-> << >>]

Drop(q, n) == SubSeq(q, n + 1, Len(q))
Take(q, n) == SubSeq(q, 1, IF n < Len(q) THEN n ELSE Len(q))
Tell(x, event, data) == [x EXCEPT !.told = Append(@, <<event>> \o data)]

ForceClose(x) == Tell([x EXCEPT !.closed = TRUE], "closed", << >>)
RefusePayloadLength(n) == maxPayloadLength < n

(* WebSocket::end: the close event, and after it nothing. *)
Ends(x, data) == Tell([x EXCEPT !.shutting = TRUE], "close", data)
Stopped(x) == x.closed \/ x.shutting

-----------------------------------------------------------------------------
(* handleFragment *)

Went(x, broken) == [x |-> x, broken |-> broken]
Broke(x) == Went(x, TRUE)

(* A byte that is compressed stands for two. *)
Inflated(data) == [i \in 1..2 * Len(data) |-> data[(i + 1) \div 2]]
IsValidUtf8(data) == "invalid" \notin {data[i] : i \in DOMAIN data}

(* The application ends or closes when told so. *)
Listen(x, data) ==
  IF data = <<"end">> THEN Ends(x, << >>)
  ELSE IF data = <<"bye">> THEN ForceClose(x)
  ELSE x

(* A whole message: inflated if its frames were compressed, checked if it  *)
(* is text, and given to the message handler.                              *)
WholeMessage(x, data, opCode) ==
  LET compressed == x.compression = "frame"
      y == IF compressed THEN [x EXCEPT !.compression = "enabled"] ELSE x
      text == IF compressed THEN Inflated(data) ELSE data
      heard == Listen(Tell(y, IF opCode = TEXT THEN "text" ELSE "binary", text), text)
  IN  IF compressed /\ RefusePayloadLength(Len(text)) THEN Broke(ForceClose(y))
      ELSE IF opCode = TEXT /\ ~IsValidUtf8(text) THEN Broke(ForceClose(y))
      ELSE Went(heard, Stopped(heard))

(* A data frame that is all of its message goes straight to the handler;   *)
(* any other is gathered until the last part of the last frame.            *)
DataFragment(x, data, remaining, opCode, fin) ==
  LET whole == x.fragmentBuffer \o data
      ended == WholeMessage([x EXCEPT !.fragmentBuffer = whole], whole, opCode)
  IN  IF remaining = 0 /\ fin /\ x.fragmentBuffer = << >> THEN WholeMessage(x, data, opCode)
      ELSE IF RefusePayloadLength(Len(whole)) THEN Broke(ForceClose(x))
      ELSE IF remaining > 0 \/ ~fin THEN Went([x EXCEPT !.fragmentBuffer = whole], FALSE)
      ELSE IF ended.broken THEN ended
      ELSE Went([ended.x EXCEPT !.fragmentBuffer = << >>], FALSE)

(* A close ends the WebSocket, with the code it may have; a ping is        *)
(* answered before the application is told.                                *)
WholeControl(x, data, opCode) ==
  IF opCode = CLOSE THEN Broke(Ends(x, IF IsValidUtf8(data) THEN data ELSE << >>))
  ELSE IF opCode = PING
  THEN LET heard == Listen(Tell(Tell(x, "send pong", data), "ping", data), data)
       IN  Went(heard, Stopped(heard))
  ELSE LET heard == Listen(Tell(x, "pong", data), data) IN Went(heard, Stopped(heard))

(* Mutant: the parts of a control frame are left with those of the message *)
(* they came between.                                                      *)
TipStays(x, data, remaining, opCode, fin) ==
  LET whole == x.fragmentBuffer \o data
      tip == x.controlTip + Len(data)
      y == [x EXCEPT !.fragmentBuffer = whole, !.controlTip = tip]
      ended == WholeControl(y, Drop(whole, Len(whole) - tip), opCode)
  IN  IF remaining = 0 /\ x.controlTip = 0 THEN WholeControl(x, data, opCode)
      ELSE IF remaining > 0 THEN Went(y, FALSE)
      ELSE IF ended.broken THEN ended
      ELSE Went([ended.x EXCEPT !.controlTip = 0], FALSE)

(* A control frame may come between the frames of a message: its parts are *)
(* kept behind theirs, in the same buffer.                                 *)
ControlFragment(x, data, remaining, opCode, fin) ==
  LET whole == x.fragmentBuffer \o data
      tip == x.controlTip + Len(data)
      y == [x EXCEPT !.fragmentBuffer = whole, !.controlTip = tip]
      ended == WholeControl(y, Drop(whole, Len(whole) - tip), opCode)
  IN  IF remaining = 0 /\ x.controlTip = 0 THEN WholeControl(x, data, opCode)
      ELSE IF remaining > 0 THEN Went(y, FALSE)
      ELSE IF ended.broken THEN ended
      ELSE Went([ended.x EXCEPT !.fragmentBuffer = Take(@, Len(@) - tip), !.controlTip = 0],
                FALSE)

HandleFragment(x, data, remaining, opCode, fin) ==
  IF opCode < 3 THEN DataFragment(x, data, remaining, opCode, fin)
  ELSE ControlFragment(x, data, remaining, opCode, fin)

-----------------------------------------------------------------------------
(* The parser. *)

Top(x) == x.opStack[Len(x.opStack)]
Popped(x) == [x EXCEPT !.opStack = Take(@, Len(@) - 1)]

(* The payload, with the mask rotated that far. *)
Unmasked(tokens, mask) ==
  [i \in DOMAIN tokens |->
     IF tokens[i].key = (mask + i - 1) % 4 THEN tokens[i].byte ELSE "garbage"]

HeaderOf(len) ==
  IF len <= ShortLength THEN SHORT_MESSAGE_HEADER
  ELSE IF len <= MediumLength THEN MEDIUM_MESSAGE_HEADER
  ELSE LONG_MESSAGE_HEADER

IsControl(head) == head.op > 2
BadHead(x, head) ==
  \/ head.rsv1 /\ x.compression # "enabled"
  \/ head.op \notin 0..2 \cup 8..10
  \/ IsControl(head) /\ (~head.fin \/ head.len > ControlLength)

(* Which frames may follow those on the stack. *)
Unexpected(x, head) ==
  IF head.op = CONTINUATION THEN x.opStack = << >>
  ELSE Len(x.opStack) = 2 \/ (~x.lastFin /\ head.op < 2)

(* A head and as much of its payload as is there; done says that there is  *)
(* nothing more to do with this read.                                      *)
ConsumeMessage(x, src) ==
  LET head == src[1]
      header == HeaderOf(head.len)
      payload == Take(Drop(src, header), head.len)
      pushed == [x EXCEPT !.opStack = IF head.op = CONTINUATION THEN @ ELSE Append(@, head.op)]
      y == [pushed EXCEPT !.lastFin = head.fin, !.spill = << >>]
      missing == head.len - Len(payload)
      got == HandleFragment(y, Unmasked(payload, 0), 0, Top(y), head.fin)
      z == [y EXCEPT !.wantsHead = FALSE, !.remainingBytes = missing, !.mask = Len(payload) % 4]
  IN  IF Unexpected(x, head) \/ RefusePayloadLength(head.len)
      THEN [x |-> ForceClose(x), src |-> << >>, done |-> TRUE]
      ELSE IF missing > 0
      THEN [x |-> HandleFragment(z, Unmasked(payload, 0), missing, Top(z), head.fin).x,
            src |-> << >>, done |-> TRUE]
      ELSE [x |-> IF head.fin /\ ~got.broken THEN Popped(got.x) ELSE got.x,
            src |-> Drop(src, header + head.len), done |-> got.broken]

(* rotateMask, for a payload that goes on in the next read.                *)
RotateMask(x, n) == [x EXCEPT !.mask = (@ + n) % 4]

(* The payload of a frame whose head came in an earlier read.              *)
ConsumeContinuation(x, src) ==
  LET n == x.remainingBytes
      mine == Unmasked(Take(src, n), x.mask)
      last == HandleFragment(x, mine, 0, Top(x), x.lastFin)
      y == [x EXCEPT !.remainingBytes = n - Len(src)]
      part == HandleFragment(y, mine, n - Len(src), Top(x), x.lastFin)
      next == [IF x.lastFin THEN Popped(last.x) ELSE last.x EXCEPT !.wantsHead = TRUE]
  IN  IF n > Len(src)
      THEN [x |-> IF part.broken THEN part.x ELSE RotateMask(part.x, Len(src)),
            src |-> << >>, done |-> TRUE]
      ELSE IF last.broken THEN [x |-> last.x, src |-> << >>, done |-> TRUE]
      ELSE [x |-> next, src |-> Drop(src, n), done |-> FALSE]

(* The frames in what there is; the start of a head is kept.               *)
RECURSIVE ParseNext(_, _)
ParseNext(x, src) ==
  LET head == src[1]
      marked == IF head.rsv1 THEN [x EXCEPT !.compression = "frame"] ELSE x
      kept == [x EXCEPT !.spill = IF src = << >> THEN @ ELSE src]
      consumed == ConsumeMessage(marked, src)
  IN  IF Len(src) < SHORT_MESSAGE_HEADER THEN kept
      ELSE IF BadHead(x, head) THEN ForceClose(x)
      ELSE IF Len(src) < HeaderOf(head.len)
           THEN [kept EXCEPT !.compression = marked.compression]
      ELSE IF consumed.done THEN consumed.x
      ELSE ParseNext(consumed.x, consumed.src)

Consume(x, data) ==
  LET continued == ConsumeContinuation(x, data)
  IN  IF x.wantsHead THEN ParseNext(x, x.spill \o data)
      ELSE IF continued.done THEN continued.x
      ELSE ParseNext(continued.x, continued.src)

-----------------------------------------------------------------------------
(* The reads of a connection.  Once the WebSocket has ended, none of them  *)
(* is looked at.                                                           *)

RECURSIVE AllBytes(_)
AllBytes(frames) ==
  IF frames = << >> THEN << >> ELSE Head(frames).bytes \o AllBytes(Tail(frames))

(* A peer compresses where that has been agreed on. *)
Compresses(frames) ==
  \E i \in 1..Len(AllBytes(frames)) : AllBytes(frames)[i].rsv1

InboundInit ==
  /\ conversation \in Conversations
  /\ \E perMessageDeflate \in BOOLEAN :
       /\ Compresses(conversation) => perMessageDeflate
       /\ inbound = NewInbound(perMessageDeflate)
  /\ read = 0

InboundRead ==
  /\ ~inbound.closed
  /\ \E upto \in read + 1 .. Len(AllBytes(conversation)) :
       /\ inbound' = IF inbound.shutting THEN inbound
                     ELSE Consume(inbound, SubSeq(AllBytes(conversation), read + 1, upto))
       /\ read' = upto
  /\ UNCHANGED conversation

InboundSpec == InboundInit /\ [][InboundRead]_inboundVars

-----------------------------------------------------------------------------

RECURSIVE AllMeant(_)
AllMeant(frames) ==
  IF frames = << >> THEN << >> ELSE Head(frames).meant \o AllMeant(Tail(frames))

(* However the stream is cut into reads: the handlers are told of the      *)
(* messages and control frames as they were sent and in that order, of all *)
(* that are there, of none before; unless the WebSocket has ended.         *)
MessagesAreWhole ==
  /\ Take(AllMeant(conversation), Len(inbound.told)) = inbound.told
  /\ \A n \in 0..Len(conversation) :
       LET sent == Take(conversation, n)
       IN  Len(AllBytes(sent)) <= read =>
             Stopped(inbound) \/ Len(inbound.told) >= Len(AllMeant(sent))
==============================================================================
