----------------------------- MODULE HttpHandlers -----------------------------
(***************************************************************************)
(* What HttpContext of the vendored uWebSockets gives to its parser, a     *)
(* handler for requests and one for their data, with the application that  *)
(* they call.  The world has one more field, traffic: the requests of the  *)
(* peer, each with what the application does with it, its plan.            *)
(***************************************************************************)
EXTENDS HttpResponse

BodyLength == 2       \* of a response given to end
StreamLength == 3     \* of a response given to tryEnd

PlanOf(traffic, i) == IF i \in DOMAIN traffic THEN traffic[i].plan ELSE "end"
Plan(x) == PlanOf(x.traffic, x.http.request)
HasRoute(traffic, i) == PlanOf(traffic, i) # "unrouted"

(* What the application does in its request handler: the plans. *)
AppRequest(x) ==
  LET waits == [x EXCEPT !.http.onAborted = TRUE]
      reads == [waits EXCEPT !.http.inStream = TRUE]
      streams == [waits EXCEPT !.http.onWritable = "app"]
  IN  CASE Plan(x) = "end" -> End(x, BodyLength, FALSE)
        [] Plan(x) = "endAndClose" -> End(x, BodyLength, TRUE)
        [] Plan(x) = "bare" -> EndWithoutBody(x)
        [] Plan(x) = "wait" -> waits
        [] Plan(x) \in {"read", "abort"} -> reads
        [] Plan(x) = "write" -> WriteChunk(waits, 1)
        [] Plan(x) = "tryEnd" -> TryEnd(streams, StreamLength, StreamLength).x
        [] Plan(x) = "upgrade" -> Upgrade(x)

MayEnd(x) == ~HasResponded(x) /\ ~Has(x, "END")

(* What it does with the data of a body, and where it may write again. *)
AppData(x, fin) ==
  IF Plan(x) = "abort" THEN Close(x)
  ELSE IF Plan(x) = "read" /\ fin /\ MayEnd(x) THEN End(x, BodyLength, FALSE)
  ELSE x

AppWritable(x) ==
  TryEnd(x, StreamLength - x.http.offset, StreamLength).x

-----------------------------------------------------------------------------
(* What HttpContext gives to the parser. *)

Gone(x) == x.http.upgraded \/ x.socket[Conn].closed \/ x.socket[Conn].shut

(* A new request, unless the one before has no response yet. *)
Begin(x, headers) ==
  LET closing == <<"connection:", "close">> \in {headers[i] : i \in DOMAIN headers}
  IN  [x EXCEPT !.http.state = IF closing THEN {"PENDING", "CLOSE"} ELSE {"PENDING"},
                !.http.request = @ + 1, !.http.told = Append(@, "request")]

AfterRequest(x) ==
  IF Gone(x) THEN [x |-> x, same |-> FALSE]
  ELSE IF ~HasResponded(x) /\ ~x.http.onAborted
  THEN [x |-> [x EXCEPT !.loop.dead = TRUE], same |-> FALSE]
  ELSE [x |-> [x EXCEPT !.http.timed = @ \/ (~HasResponded(x) /\ x.http.inStream)],
        same |-> TRUE]

(* A request that no route matches ends the connection, still pending.     *)
Route(x) ==
  IF HasRoute(x.traffic, x.http.request) THEN AfterRequest(AppRequest(x))
  ELSE [x |-> Close(x), same |-> FALSE]

RequestHandler(x, headers) ==
  LET untimed == [x EXCEPT !.http.timed = FALSE, !.http.offset = 0]
  IN  IF ~HasResponded(x) THEN [x |-> Close(untimed), same |-> FALSE]
      ELSE Route(Begin(untimed, headers))

(* A part of a body, or its end, which detaches the handler. *)
AfterData(x, fin) ==
  IF Gone(x) THEN [x |-> x, same |-> FALSE]
  ELSE [x |-> [x EXCEPT !.http.inStream = @ /\ ~fin], same |-> TRUE]

DataHandler(x, data, fin) ==
  LET told == [x EXCEPT !.http.told = @ \o data \o IF fin THEN <<"fin">> ELSE << >>]
  IN  IF ~x.http.inStream THEN [x |-> told, same |-> TRUE]
      ELSE AfterData(AppData([told EXCEPT !.http.timed = @ /\ ~fin], fin), fin)
==============================================================================
