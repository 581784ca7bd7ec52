-------------------------------- MODULE Server --------------------------------
(***************************************************************************)
(* The WebSocket server (graph-visualization.cpp): its connections, the    *)
(* graph they share, and the handlers that run on its one thread.          *)
(*                                                                         *)
(* After each message a search sends, it calls poll() on the io_service of *)
(* the server "to force the sending".  poll runs EVERY handler that is     *)
(* ready: other clients connect, leave, upload another graph or start      *)
(* searches of their own inside it.  Handlers therefore nest: stack holds  *)
(* the searches that have begun and not ended, the innermost last; only    *)
(* that one makes progress.                                                *)
(*                                                                         *)
(* websocketpp, asio and nlohmann's JSON are external.  What is taken from *)
(* how the code uses them: a connection's next message is read only when   *)
(* the handler of the one before has returned; send throws unless the      *)
(* session is open; a write that fails ends the session, and its close     *)
(* handler runs later; an exception that leaves a handler leaves the       *)
(* poll() or run() that called it; dump throws for a text that is no UTF-8.*)
(***************************************************************************)
EXTENDS Search, FiniteSets

CONSTANTS
  Clients,      \* the clients that may connect
  Requests,     \* the messages they may send, see IsRequest
  MaxMessages   \* bound on the messages sent in all, for model checking

VARIABLES
  graph,              \* the global Graph: its adjacency list
  connected_clients,  \* the global set of connections
  session,            \* "new", "open", "closing" (close handler pending) or "closed"
  reading,            \* whether the next message of a connection can be delivered
  stack,              \* the searches begun and not ended
  out,                \* the messages accepted for each client, in order
  server,             \* "running", "stopped" (run returned), "aborted" or "undefined"
  messages            \* messages the clients may still send

vars == <<graph, connected_clients, session, reading, stack, out, server, messages>>

G == INSTANCE Graph WITH
       list <- graph, isDerected <- FALSE, threw <- "no", loaded <- TRUE,
       Weights <- {}, MaxEdges <- 0, Uploads <- {q.data : q \in {x \in Requests : x.kind = "upload"}}

(* "upload": a JSON object with the key graph; "search": with algorithm and *)
(* points, well formed; "incomplete": JSON without these keys; "garbled":   *)
(* no JSON at all, or points that are no strings.                           *)
IsRequest(q) ==
  CASE q.kind = "upload" -> G!IsUpload(q.data)
    [] q.kind = "search" -> /\ q.start \in Nodes \cup {Empty}
                            /\ q.end \in Nodes \cup {Empty}
    [] OTHER -> q.kind \in {"incomplete", "garbled"}

ASSUME ServerAssumption ==
  /\ \A q \in Requests : IsRequest(q)
  /\ MaxMessages \in Nat

Init ==
  /\ graph = G!NoEdges
  /\ connected_clients = {}
  /\ session = [c \in Clients |-> "new"]
  /\ reading = [c \in Clients |-> FALSE]
  /\ stack = << >>
  /\ out = [c \in Clients |-> << >>]
  /\ server = "running"
  /\ messages = MaxMessages

Depth == Len(stack)
Top == stack[Depth]

(* asio may run a handler: in run(), or in the poll() of the innermost      *)
(* search.                                                                  *)
AtPoll == server = "running" /\ (stack # << >> => Top.polling)

-----------------------------------------------------------------------------
(* Connections. *)

OnOpen(c) ==
  /\ AtPoll
  /\ session[c] = "new"
  /\ session' = [session EXCEPT ![c] = "open"]
  /\ reading' = [reading EXCEPT ![c] = TRUE]
  /\ connected_clients' = connected_clients \cup {c}
  /\ UNCHANGED <<graph, stack, out, server, messages>>

(* The connection fails or the client closes it: from here on send throws.  *)
Drop(c) ==
  /\ AtPoll
  /\ session[c] = "open"
  /\ session' = [session EXCEPT ![c] = "closing"]
  /\ UNCHANGED <<graph, connected_clients, reading, stack, out, server, messages>>

(* Mutant: the connection is not erased. *)
OnCloseKeeping(c) ==
  /\ AtPoll
  /\ session[c] = "closing"
  /\ session' = [session EXCEPT ![c] = "closed"]
  /\ reading' = [reading EXCEPT ![c] = FALSE]
  /\ UNCHANGED <<graph, connected_clients, stack, out, server, messages>>

OnClose(c) ==
  /\ AtPoll
  /\ session[c] = "closing"
  /\ session' = [session EXCEPT ![c] = "closed"]
  /\ connected_clients' = connected_clients \ {c}
  /\ reading' = [reading EXCEPT ![c] = FALSE]
  /\ UNCHANGED <<graph, stack, out, server, messages>>

-----------------------------------------------------------------------------
(* Messages. *)

(* Mutant: a connection is read while a handler of it is under way. *)
DeliverableAnyTime(c) == session[c] # "new"

(* A message that was received before the session ended is still delivered, *)
(* and one that was received behind it comes when its handler returns, be   *)
(* the session over or not.                                                 *)
Deliverable(c) == reading[c] /\ session[c] # "new"

(* The handler of c, called below the searches in outer, returns. *)
HandlerReturns(c, outer) ==
  /\ stack' = outer
  /\ reading' = [reading EXCEPT ![c] = TRUE]
  /\ UNCHANGED server

(* Mutant: no search has a try block around its poll(). *)
HandlerThrowsThrough(c, outer) ==
  /\ stack' = << >>
  /\ reading' = [reading EXCEPT ![c] = FALSE]
  /\ server' = "stopped"

(* An exception leaves the handler of c.  A search below catches it around  *)
(* its poll(), which is thereby over; without one it ends run().  Nothing   *)
(* more is read from c.                                                     *)
HandlerThrows(c, outer) ==
  /\ stack' = IF outer = << >> THEN << >> ELSE [outer EXCEPT ![Len(outer)].polling = FALSE]
  /\ reading' = [reading EXCEPT ![c] = FALSE]
  /\ server' = IF outer = << >> THEN "stopped" ELSE server

(* The error reply of on_message.  The texts of both replies have a byte    *)
(* E9, the e with an accent of Latin-1, so that dump throws before anything *)
(* is sent: in the else branch into the catch block, and there, outside of  *)
(* any try block, out of the handler.  No client ever gets such a reply.    *)
ReplyError(c, outer) == HandlerThrows(c, outer) /\ UNCHANGED out

(* An upload.  Success is not acknowledged; a crow::response is caught by   *)
(* nobody and terminates the process.                                       *)
Upload(c, q) ==
  /\ q.kind = "upload"
  /\ \E result \in G!Loads(graph, q.data) :
       /\ graph' = result.list
       /\ CASE result.threw = "no" -> UNCHANGED out /\ HandlerReturns(c, stack)
            [] result.threw = "exception" -> ReplyError(c, stack)
            [] result.threw = "response" -> server' = "aborted" /\ UNCHANGED <<out, stack, reading>>

(* Whether a request calls a search at all: an unknown algorithm does not,  *)
(* nor does A_STAR without both points.  Nothing is replied.                *)
Dispatches(q) ==
  /\ q.alg \in Algorithm
  /\ q.alg = "A_STAR" => q.start # Empty /\ q.end # Empty

(* A search begins: it copies the graph (getList) and runs, on top of the   *)
(* searches whose poll() it was called in.  taken remembers the graph as it *)
(* was, for the properties.                                                 *)
StartSearch(c, q) ==
  /\ q.kind = "search"
  /\ IF Dispatches(q)
     THEN /\ stack' = Append(stack,
               [hdl |-> c, polling |-> FALSE, taken |-> G!Adjacency(graph),
                run |-> Call(q.alg, G!Adjacency(graph), q.start, q.end)])
          /\ reading' = [reading EXCEPT ![c] = FALSE]
          /\ UNCHANGED server
     ELSE HandlerReturns(c, stack)
  /\ UNCHANGED <<graph, out>>

Reject(c, q) ==
  /\ q.kind \in {"incomplete", "garbled"}
  /\ ReplyError(c, stack)
  /\ UNCHANGED graph

OnMessage(c) ==
  /\ AtPoll
  /\ Deliverable(c)
  /\ messages > 0
  /\ messages' = messages - 1
  /\ \E q \in Requests : Upload(c, q) \/ StartSearch(c, q) \/ Reject(c, q)
  /\ UNCHANGED <<connected_clients, session>>

-----------------------------------------------------------------------------
(* The innermost search. *)

(* Mutant: the search walks the shared graph instead of a copy. *)
ListShared(frame) ==
  [n \in Nodes |-> IF n \in DOMAIN graph THEN G!Adjacency(graph)[n] ELSE {}]

(* The list a search works on: its own copy. *)
ListOf(frame) == frame.run.list

(* send and poll stand in one try block: if send throws there is no poll.   *)
Sends(frame, m) == m.says # << >> /\ session[frame.hdl] = "open"

(* Mutant: a search that is over is not taken off the stack. *)
SearchNeverOver(m) ==
  /\ stack' = [stack EXCEPT ![Depth].run = m.next, ![Depth].polling = Sends(Top, m)]
  /\ out' = IF Sends(Top, m) THEN [out EXCEPT ![Top.hdl] = @ \o m.says] ELSE out
  /\ UNCHANGED <<reading, server>>

(* Mutant: a search hangs when its client is gone. *)
SearchHangs(m) ==
  /\ session[Top.hdl] = "open"
  /\ m.next.phase \notin Over
  /\ stack' = [stack EXCEPT ![Depth].run = m.next, ![Depth].polling = Sends(Top, m)]
  /\ out' = [out EXCEPT ![Top.hdl] = @ \o m.says]
  /\ UNCHANGED <<reading, server>>

(* It goes on, and is in poll() if it sent something. *)
SearchContinues(m) ==
  /\ m.next.phase \notin Over
  /\ stack' = [stack EXCEPT ![Depth].run = m.next, ![Depth].polling = Sends(Top, m)]
  /\ out' = IF Sends(Top, m) THEN [out EXCEPT ![Top.hdl] = @ \o m.says] ELSE out
  /\ UNCHANGED <<reading, server>>

Outer == SubSeq(stack, 1, Depth - 1)

SearchReturns(m) ==
  /\ m.next.phase = "done"
  /\ HandlerReturns(Top.hdl, Outer)
  /\ UNCHANGED out

(* A name that is no number made the heuristic throw; on_message catches.   *)
SearchThrows(m) ==
  /\ m.next.phase = "raised"
  /\ ReplyError(Top.hdl, Outer)

SearchGoesAstray(m) ==
  /\ m.next.phase = "undefined"
  /\ server' = "undefined"
  /\ UNCHANGED <<stack, reading, out>>

Advance ==
  /\ server = "running"
  /\ stack # << >>
  /\ \E m \in Moves([Top.run EXCEPT !.list = ListOf(Top)]) :
       SearchContinues(m) \/ SearchReturns(m) \/ SearchThrows(m) \/ SearchGoesAstray(m)
  /\ UNCHANGED <<graph, connected_clients, session, messages>>

-----------------------------------------------------------------------------

Next ==
  \/ \E c \in Clients : OnOpen(c) \/ Drop(c) \/ OnClose(c) \/ OnMessage(c)
  \/ Advance

Spec == Init /\ [][Next]_vars

(* The thread does not stand still: it goes on with the innermost search,   *)
(* and asio runs a close handler that stays ready.  Nothing is assumed of   *)
(* the clients.                                                             *)
FairSpec == Spec /\ WF_vars(Advance) /\ \A c \in Clients : WF_vars(OnClose(c))

-----------------------------------------------------------------------------

Frame(f) ==
  /\ f.hdl \in Clients
  /\ f.polling \in BOOLEAN
  /\ f.run.alg \in Algorithm
  /\ f.run.phase \in Phase \ Over
  /\ f.run.visited \in Seq(Nodes)
  /\ f.run.route \in Seq(Nodes)

TypeOK ==
  /\ DOMAIN graph \subseteq Nodes
  /\ connected_clients \subseteq Clients
  /\ session \in [Clients -> {"new", "open", "closing", "closed"}]
  /\ reading \in [Clients -> BOOLEAN]
  /\ \A i \in 1..Depth : Frame(stack[i])
  /\ \A c \in Clients : out[c] \in Seq(Message)
  /\ server \in {"running", "stopped", "aborted", "undefined"}
  /\ messages \in 0..MaxMessages

(* However handlers nest, a connection has at most one search on the stack. *)
(* Its stream is therefore one search after the other: every message is the *)
(* next of the search whose last message came before it, or begins a new    *)
(* one.                                                                     *)
Extends(x, y) == Len(y.nodes) = Len(x.nodes) + 1 /\ SubSeq(y.nodes, 1, Len(x.nodes)) = x.nodes

Follows(x, y) ==
  CASE y.kind = "visitedNodes" -> Len(y.nodes) = 1 \/ (x.kind = "visitedNodes" /\ Extends(x, y))
    [] y.kind = "pathNodes"    -> x.kind \in {"pathFound", "pathNodes"} /\ Extends(x, y)
    [] OTHER                   -> TRUE

StreamsDoNotMix ==
  \A c \in Clients : \A i \in 1..Len(out[c]) :
    IF i = 1 THEN Len(out[c][1].nodes) <= 1 /\ out[c][1].kind # "pathNodes"
    ELSE Follows(out[c][i - 1], out[c][i])

(* The graph is at all times the content of a single upload, or of some of  *)
(* its keys when the upload failed half way, and never a mixture of two.    *)
GraphIsOneUpload ==
  \/ graph = G!NoEdges
  \/ \E q \in Requests :
       /\ q.kind = "upload"
       /\ \A n \in DOMAIN graph : n \in DOMAIN q.data.list \ q.data.bad
            /\ graph[n] = [i \in 1..Len(q.data.list[n]) |-> <<q.data.list[n][i], 0>>]

(* A search answers about the graph as it was when the search was asked     *)
(* for, whatever was uploaded inside its polls: all it visited are keys of  *)
(* it that can be reached in it, and the path it shows is a path of it.     *)
AnswersForSnapshot ==
  \A i \in 1..Depth :
    LET run == [stack[i].run EXCEPT !.list = stack[i].taken]
    IN  /\ Range(run.visited) \subseteq DOMAIN run.list
        /\ run.phase = "route" => IsRoute(run, run.route)
        /\ \A k \in 2..Len(run.visited) : \E j \in 1..k - 1 :
             run.visited[k] \in Successors(run.list, run.visited[j])

(* A search that waits below another is not touched by it: neither by its   *)
(* messages, nor by an exception that leaves its handler.                   *)
WaitingSearchesKeep ==
  [][\A i \in 1..Depth - 1 :
       /\ i <= Len(stack')
       /\ stack'[i].run = stack[i].run
       /\ stack'[i].hdl = stack[i].hdl]_vars

(* The handler of c throws in this step: c was read or had a search on the  *)
(* stack, and is and has neither any more, without its connection closing.  *)
Searching(c, frames) == \E i \in 1..Len(frames) : frames[i].hdl = c
Fails(c) ==
  /\ reading[c] \/ Searching(c, stack)
  /\ ~reading'[c] /\ ~Searching(c, stack')
  /\ session' = session

(* run() is left by nothing but a request that fails, and that only while   *)
(* no other client has a search under way: one below catches the exception. *)
FailureIsContained ==
  [][server' = "stopped" =>
       \E c \in Clients : Fails(c) /\ \A i \in 1..Depth : stack[i].hdl = c]_vars

(* "Error while processing the data", on_message says to whoever asked, in  *)
(* a reply that it composes and sends (graph-visualization.cpp:58-61): a    *)
(* client that is there does not stop the server by asking amiss.           *)
ErrorsAreSurvived ==
  server = "stopped" => \E c \in Clients : session[c] \in {"closing", "closed"}

(* The searches end, inner and outer ones, and the thread is back in run(). *)
SearchesEnd == stack # << >> ~> stack = << >> \/ server # "running"

(* A connection that ended does not stay in connected_clients, although its *)
(* close handler has to wait for a search to poll or to return.             *)
LeaversAreForgotten ==
  \A c \in Clients : session[c] = "closing" ~> c \notin connected_clients \/ server # "running"
===============================================================================
