----------------------------- MODULE HttpResponse -----------------------------
(***************************************************************************)
(* HttpResponse of the vendored uWebSockets: how the application answers   *)
(* the request of its connection, piece by piece, through AsyncSocket.     *)
(* The world of AsyncSocket has one more field, http, the HttpResponseData *)
(* of the one connection Conn, with                                        *)
(*   fallback, remaining   the HttpParser it derives from;                 *)
(*   state       the bits STATUS, WRITE, END, PENDING and CLOSE;           *)
(*   offset      how much of a body given to end or tryEnd is written;     *)
(*   onWritable  none, the handler of the application or a placeholder;    *)
(*   onAborted, inStream   whether these handlers are attached;            *)
(*   timed       whether a timeout is armed;                               *)
(*   upgraded    whether the socket now belongs to a WebSocketContext;     *)
(*   request     the number of the request handled last;                   *)
(* and what the handlers have been told: told by the parser, answered and  *)
(* aborted requests.                                                       *)
(* A piece of a response is a token with the number of its request.        *)
(***************************************************************************)
EXTENDS AsyncSocket

CONSTANT Conn

NewHttp(word) ==
  [fallback |-> << >>, remaining |-> word,
   state |-> {}, offset |-> 0, onWritable |-> "none", onAborted |-> FALSE,
   inStream |-> FALSE, timed |-> TRUE, upgraded |-> FALSE, request |-> 0,
   told |-> << >>, answered |-> << >>, aborted |-> << >>]

Has(x, bit) == bit \in x.http.state
Mark(x, bit) == [x EXCEPT !.http.state = @ \cup {bit}]
Timeout(x, on) == [x EXCEPT !.http.timed = on]

Pieces(x, kind, n) == [i \in 1..n |-> <<kind, x.http.request>>]
Emit(x, kind) == Write(x, Conn, Pieces(x, kind, 1), FALSE).x

(* A closed socket has its close event at once: the application hears of   *)
(* it if it waits for the end of a response.                               *)
Close(x) ==
  IF x.socket[Conn].closed THEN x
  ELSE [x EXCEPT
    !.socket[Conn].closed = TRUE,
    !.http.aborted = IF x.http.onAborted THEN Append(@, x.http.request) ELSE @]

MarkDone(x) ==
  [x EXCEPT !.http.onAborted = FALSE, !.http.onWritable = "none",
            !.http.state = @ \ {"PENDING"},
            !.http.answered = Append(@, x.http.request)]

(* Is this the end of the connection, and is the response out?             *)
CloseIfDone(x) ==
  IF Has(x, "CLOSE") /\ ~Has(x, "PENDING") /\ BufferedAmount(x, Conn) = 0
  THEN Close(Shutdown(x, Conn))
  ELSE x

CloseIfUncorked(x) == IF IsCorked(x, Conn) THEN x ELSE CloseIfDone(x)

-----------------------------------------------------------------------------

WriteStatus(x) == IF Has(x, "STATUS") THEN x ELSE Emit(Mark(x, "STATUS"), "status")
WriteHeader(x, header) == Emit(WriteStatus(x), header)
WriteMark(x) == WriteHeader(x, "mark")
WriteContinue(x) == Emit(x, "continue")

(* The end of a chunked response, which takes no part of its last data back. *)
WriteSized(x, len) == Write(Emit(x, "size"), Conn, Pieces(x, "body", len), FALSE)
LastData(x, len) == IF len = 0 THEN x ELSE WriteSized(x, len).x

EndChunked(x, len) ==
  Timeout(CloseIfUncorked(MarkDone(Emit(LastData(x, len), "last"))), TRUE)

(* A content length is as many tokens. *)
EmitLength(x, total, allowContentLength) ==
  IF allowContentLength THEN Write(x, Conn, Pieces(x, "length", total), FALSE).x
  ELSE Emit(x, "blank")

(* Mutant: the head is written again by the next part.                     *)
HeadEachTime(x, total, allowContentLength) ==
  EmitLength(WriteMark(x), total, allowContentLength)

(* The head of a response with a content length, written once.             *)
HeadWithLength(x, total, allowContentLength) ==
  IF Has(x, "END") THEN x
  ELSE Mark(EmitLength(WriteMark(x), total, allowContentLength), "END")

(* A body with a content length, or the next part of one: what is optional *)
(* may be written in part, and is done when all of it has been.            *)
Body(x, len, optional) ==
  IF len = 0 THEN Wrote(x, 0, FALSE) ELSE Write(x, Conn, Pieces(x, "body", len), optional)

Success(put, len) == put.written = len /\ ~put.failed

Advance(put, len, total) ==
  LET offset == put.x.http.offset + put.written
  IN  [put.x EXCEPT !.http.offset = offset,
                    !.http.timed = @ \/ ~Success(put, len) \/ offset = total]

DoneAt(x, total) == IF x.http.offset = total THEN CloseIfUncorked(MarkDone(x)) ELSE x

AfterBody(put, len, total) ==
  [ok |-> Success(put, len), x |-> DoneAt(Advance(put, len, total), total)]

EndWithLength(x, len, total, optional, allowContentLength) ==
  AfterBody(Body(HeadWithLength(x, total, allowContentLength), len, optional), len, total)

WriteClose(x, closeConnection) ==
  IF closeConnection /\ ~Has(x, "CLOSE") THEN Mark(WriteHeader(x, "connection"), "CLOSE") ELSE x

EndEither(x, len, total, optional, allowContentLength) ==
  IF Has(x, "WRITE") THEN [ok |-> TRUE, x |-> EndChunked(x, len)]
  ELSE EndWithLength(x, len, IF total = 0 THEN len ELSE total, optional, allowContentLength)

InternalEnd(x, len, total, optional, allowContentLength, closeConnection) ==
  EndEither(WriteClose(WriteStatus(x), closeConnection), len, total, optional, allowContentLength)

End(x, len, closeConnection) == InternalEnd(x, len, len, FALSE, TRUE, closeConnection).x
EndWithoutBody(x) == InternalEnd(x, 0, 0, FALSE, FALSE, FALSE).x
TryEnd(x, len, total) == InternalEnd(x, len, total, TRUE, TRUE, FALSE)

(* HttpResponse::write, of at least one byte: a chunk.                     *)
HeadOfChunks(x) ==
  IF Has(x, "WRITE") THEN x
  ELSE Mark(WriteHeader(WriteMark(WriteStatus(x)), "chunked"), "WRITE")

TimeoutIfFailed(put) == Timeout(put.x, put.x.http.timed \/ put.failed)

WriteChunk(x, len) == TimeoutIfFailed(WriteSized(HeadOfChunks(x), len))

HasResponded(x) == ~Has(x, "PENDING")

(* cork: the handler's writes go out together, if the cork is free; ran is *)
(* the world after the handler.                                            *)
CorkBegins(x) == IF IsCorked(x, Conn) \/ ~CanCork(x) THEN x ELSE Cork(x, Conn)

AfterUncork(out) ==
  IF out.x.http.upgraded THEN out.x ELSE CloseIfDone(TimeoutIfFailed(out))

CorkEnds(x, ran) ==
  IF IsCorked(x, Conn) \/ ~CanCork(x) \/ CanCork(ran) THEN ran
  ELSE AfterUncork(Uncork(ran, Conn, << >>, FALSE))

(* upgrade: the rest of the connection belongs to the WebSockets, with the *)
(* cork and what is in the backpressure.                                   *)
Upgrade(x) ==
  [InternalEnd(WriteHeader(WriteStatus(x), "upgrade"), 0, 0, FALSE, FALSE, FALSE).x
     EXCEPT !.http.upgraded = TRUE, !.http.timed = TRUE]

-----------------------------------------------------------------------------
(* HttpResponseData::callOnWritable.  The handler may end the response,    *)
(* which removes it, so it is borrowed while it runs.                      *)

BorrowOnWritable(x) == [x EXCEPT !.http.onWritable = "placeholder"]

(* Mutant: the handler is put back whatever it did. *)
PutBackAlways(ran) == [ran EXCEPT !.http.onWritable = "app"]

PutBackOnWritable(ran) ==
  IF ran.http.onWritable = "none" THEN ran ELSE [ran EXCEPT !.http.onWritable = "app"]
==============================================================================
