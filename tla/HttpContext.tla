------------------------------ MODULE HttpContext ------------------------------
(***************************************************************************)
(* One HTTP connection of the vendored uWebSockets: HttpContext reads from *)
(* its socket, HttpParser finds the requests, the application answers them *)
(* through HttpResponse, at once or in a later handler, and AsyncSocket    *)
(* writes what it can.  Every handler of the loop is an action.            *)
(*                                                                         *)
(*   got       how much of what the peer has to say has been read;         *)
(*   traffic   the requests of the peer: the bytes of each, what a parser  *)
(*             is meant to tell of it, whether it is good (only the last   *)
(*             one is not), and what the application does with it.         *)
(***************************************************************************)
EXTENDS HttpParser, Functions

CONSTANTS
  HttpKernels,    \* the scripts of system calls a handler may meet
  Traffics,       \* what the peer may send, sequences of requests
  MaxWrites       \* bound on the chunks written to a connection

VARIABLES loop, socket, http, traffic, got

httpVars == <<loop, socket, http, traffic, got>>

-----------------------------------------------------------------------------
(* The handlers that HttpContext registers. *)

(* An error is written past the cork and the connection is closed. *)
Fail(x) ==
  LET put == Accept(x, Conn, <<<<"error", x.http.request + 1>>>>).x
  IN  Close(Shutdown([put EXCEPT !.http.told = Append(@, "error")], Conn))

AfterRead(read) ==
  CASE read.user = "error" -> Uncork(Fail(read.x), Conn, << >>, FALSE).x
    [] read.user = "other" -> Uncork(read.x, Conn, << >>, FALSE).x
    [] read.user = "same" -> CloseIfDone(TimeoutIfFailed(Uncork(read.x, Conn, << >>, FALSE)))

HandleData(x, data) ==
  IF x.socket[Conn].shut THEN x ELSE AfterRead(ConsumePostPadded(Cork(x, Conn), data))

HandleWritable(x) ==
  LET told == [x EXCEPT !.socket[Conn].polling = FALSE]
  IN  IF x.http.onWritable # "none"
      THEN PutBackOnWritable(AppWritable(BorrowOnWritable([told EXCEPT !.http.timed = FALSE])))
      ELSE Timeout(CloseIfDone(Write(told, Conn, << >>, TRUE).x), TRUE)

-----------------------------------------------------------------------------

HttpWorld(kernel) ==
  [loop |-> loop, socket |-> socket, http |-> http, traffic |-> traffic, kernel |-> kernel]

(* A socket is asked for once its write was cut short; nothing of what the *)
(* kernel has left to accept is of use to the next handler.                *)
HttpBecomes(x) ==
  \E y \in {x} : loop' = y.loop /\ socket' = y.socket /\ http' = y.http

HttpOpen == ~loop.dead /\ ~socket[Conn].closed /\ ~http.upgraded
Bytes(requests) ==
  LET Upto[i \in 0..Len(requests)] ==
        IF i = 0 THEN << >> ELSE Upto[i - 1] \o requests[i].bytes
  IN  Upto[Len(requests)]

HttpInit ==
  /\ loop = NewLoop
  /\ socket = [s \in {Conn} |-> NewSocket]
  /\ http = NewHttp(NoBody)
  /\ traffic \in Traffics
  /\ got = 0

OnData ==
  /\ HttpOpen
  /\ \E upto \in got + 1 .. Len(Bytes(traffic)), kernel \in HttpKernels :
       /\ HttpBecomes(HandleData(HttpWorld(kernel), SubSeq(Bytes(traffic), got + 1, upto)))
       /\ got' = upto
  /\ UNCHANGED traffic

OnWritable ==
  /\ HttpOpen
  /\ socket[Conn].polling
  /\ \E kernel \in HttpKernels : HttpBecomes(HandleWritable(HttpWorld(kernel)))
  /\ UNCHANGED <<traffic, got>>

OnEnd ==
  /\ HttpOpen
  /\ HttpBecomes(Close(HttpWorld(<< >>)))
  /\ UNCHANGED <<traffic, got>>

OnTimeout == http.timed /\ OnEnd

(* What the application does with a pending request in another handler.    *)
Answers == HttpOpen /\ MayEnd(HttpWorld(<< >>))
Later(x) == HttpBecomes(x) /\ UNCHANGED <<traffic, got>>
MayWrite == Len(SelectSeq(Stream(HttpWorld(<< >>), Conn),
                          LAMBDA token : token[1] \in {"size", "continue"})) < MaxWrites

AppEnds ==
  /\ Answers
  /\ \E kernel \in HttpKernels, closing \in BOOLEAN :
       Later(End(HttpWorld(kernel), BodyLength, closing))

AppTriesEnd ==
  /\ Answers
  /\ LET TryStream(x) ==
           TryEnd([x EXCEPT !.http.onWritable = "app"], StreamLength, StreamLength).x
     IN  \E kernel \in HttpKernels : Later(TryStream(HttpWorld(kernel)))

AppWrites ==
  /\ Answers
  /\ MayWrite
  /\ \E kernel \in HttpKernels : Later(WriteChunk(HttpWorld(kernel), 1))

AppContinues ==
  /\ Answers
  /\ MayWrite
  /\ "STATUS" \notin http.state
  /\ \E kernel \in HttpKernels : Later(WriteContinue(HttpWorld(kernel)))

AppCorks ==
  /\ Answers
  /\ MayWrite
  /\ \E kernel \in HttpKernels :
       LET x == HttpWorld(kernel)
       IN  Later(CorkEnds(x, End(WriteChunk(CorkBegins(x), 1), BodyLength, FALSE)))

AppUpgrades ==
  /\ Answers
  /\ "STATUS" \notin http.state
  /\ \E kernel \in HttpKernels : Later(Upgrade(HttpWorld(kernel)))

AppCloses == HttpOpen /\ "PENDING" \in http.state /\ Later(Close(HttpWorld(<< >>)))

HttpNext ==
  \/ OnData \/ OnWritable \/ OnEnd \/ OnTimeout
  \/ AppEnds \/ AppTriesEnd \/ AppWrites \/ AppContinues \/ AppCorks \/ AppUpgrades \/ AppCloses

HttpSpec == HttpInit /\ [][HttpNext]_httpVars

-----------------------------------------------------------------------------
(* Properties. *)

IsPrefixOf(p, q) == Len(p) <= Len(q) /\ p = SubSeq(q, 1, Len(p))

(* What the parser has to tell of the first n requests.                    *)
Meant(n) ==
  LET Upto[i \in 0..n] ==
        IF i = 0 THEN << >>
        ELSE Upto[i - 1] \o traffic[i].meant
  IN  Upto[n]
Good(n) == \A i \in 1..n : traffic[i].good
Whole(n) == Len(Bytes(SubSeq(traffic, 1, n))) <= got
Prefixes == 0..Len(traffic)

(* However the stream is cut into reads: the parser tells the requests and *)
(* their bodies as they were sent, none before it is there, all of what is *)
(* there on an open connection; no connection stays open on a bad one.     *)
RequestsAreParsedWhole ==
  /\ IsPrefixOf(http.told, Meant(Len(traffic)))
  /\ \A n \in Prefixes : HttpOpen /\ Whole(n) =>
       Good(n) /\ IsPrefixOf(Meant(n), http.told)

Follows ==
  {<<"continue", "continue">>, <<"continue", "status">>, <<"status", "connection">>,
   <<"connection", "mark">>, <<"status", "mark">>, <<"mark", "length">>, <<"length", "length">>, <<"length", "body">>,
   <<"body", "body">>, <<"mark", "chunked">>, <<"chunked", "size">>, <<"size", "body">>,
   <<"body", "size">>, <<"body", "last">>, <<"chunked", "last">>,
   <<"status", "upgrade">>, <<"upgrade", "mark">>, <<"mark", "blank">>}

Kinds(stream, i) ==
  LET mine == SelectSeq(stream, LAMBDA token : token[2] = i)
  IN  [j \in 1..Len(mine) |-> mine[j][1]]

(* Where the code departs from HTTP (README, Findings): end that is to     *)
(* close the connection after write puts its header among the chunks.      *)
WithoutStray(kinds) ==
  IF \E i, j \in DOMAIN kinds : i < j /\ kinds[i] = "chunked" /\ kinds[j] = "connection"
  THEN SelectSeq(kinds, LAMBDA k : k # "connection")
  ELSE kinds

(* A response as a client takes it in: what its head announced is there.   *)
IsComplete(kinds) ==
  LET Count(kind) == Len(SelectSeq(kinds, LAMBDA k : k = kind))
  IN  \/ Count("length") > 0 /\ Count("length") = Count("body")
      \/ Count("last") = 1 \/ Count("blank") = 1

(* What the peer gets: the responses in the order of the requests, each    *)
(* built as HTTP wants it, but for that header, and whole exactly when it  *)
(* has been ended, on an open connection and before a FIN; nothing after   *)
(* an error.                                                               *)
ResponsesAreFramed ==
  LET x == HttpWorld(<< >>)
      out == IF socket[Conn].closed THEN socket[Conn].wire ELSE Stream(x, Conn)
      lost == /\ socket[Conn].closed
              /\ socket[Conn].shut => "error" \in {http.told[i] : i \in DOMAIN http.told}
  IN  /\ \A i, j \in 1..Len(out) : i < j => out[i][2] <= out[j][2] /\ out[i][1] # "error"
      /\ \A i \in 1..http.request :
           LET kinds == WithoutStray(Kinds(out, i))
               ended == i \in {http.answered[j] : j \in DOMAIN http.answered}
           IN  /\ kinds # << >> => kinds[1] \in {"status", "continue"}
               /\ \A j \in 1..Len(kinds) - 1 : <<kinds[j], kinds[j + 1]>> \in Follows
               /\ ended /\ ~lost => IsComplete(kinds)
               /\ IsComplete(kinds) => ended

(* A request that an application's handler got is answered or aborted,     *)
(* once and not both, and none is left when its connection is gone; one    *)
(* without a route is neither.  On an open connection, whoever still has   *)
(* to write will be told to; one to be closed is, once all is written.     *)
RequestsAreSettled ==
  LET settled == http.answered \o http.aborted
      handled == {i \in 1..http.request : HasRoute(traffic, i)}
  IN  /\ \A i, j \in DOMAIN settled : i # j => settled[i] # settled[j]
      /\ Range(settled) \subseteq handled
      /\ socket[Conn].closed \/ http.upgraded => handled \subseteq Range(settled)
      /\ HttpOpen =>
           /\ handled = 1..http.request
           /\ Buffered(HttpWorld(<< >>), Conn) # << >> \/ http.onWritable # "none"
                => socket[Conn].polling
           /\ BufferedAmount(HttpWorld(<< >>), Conn) = 0 /\ "CLOSE" \in http.state =>
                "PENDING" \in http.state
==============================================================================
