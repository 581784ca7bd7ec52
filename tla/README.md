# graphProject-backend: a verification development

The program is the back end of a teaching tool: a browser uploads a graph over a
WebSocket, asks for a search (`DIJKSTRA`, `BFS`, `DFS` or `A_STAR`) between two of its
nodes, and is sent the nodes the search visits, one more per message, then the path. The
repository also carries uWebSockets, a WebSocket and HTTP server library: the project file
has it on its include path, no file of the program includes it. This directory holds TLA+
models of both, the TLC runs that check them and theorems checked by TLAPS.

## 1. The system

### The program

| Component | State | Operations | Source |
|---|---|---|---|
| `Graph` | adjacency list `list` (name to vector of name and weight), `isDerected` | constructor, `addEdge`, `extractGraphData`, `getList`, `printGraph` | `Graph.cpp` |
| `Algorithms` | none between calls; in a call: a copy of the list, the maps of the algorithm, its queue, stack or heap, the arrays it sends | `dijkstra`, `bfs`, `dfs`, `a_star`, `getMinDistanceNode`, `heuristic` | `Algorithms.cpp` |
| Server | the global `graph` and `algo`, the connections | `on_message`, `on_open`, `on_close`, `start_websocket_server` | `graph-visualization.cpp` |
| Registry | `connected_clients` | insert, erase, `send_visited_nodes` | `server_utils.cpp` |
| websocketpp, asio, Crow, nlohmann JSON (external) | session states, pending reads, ready handlers | `send`, `poll`, `run`, parsing | not in the repository |

How they interact. There is one thread. `run()` calls the handlers. `on_message` either
replaces the global graph (`extractGraphData`) or calls a search with the global graph and
the handle of the connection. A search copies the list and, after every message it sends,
calls `poll()` on the io_service of the server "to force the sending". `poll()` runs every
ready handler, so *all of the server* can run inside a search: other clients connect,
leave, upload another graph, start searches of their own, and these poll again. Handlers
nest, and an outer search goes on when the inner ones have returned.

What is hard about it:

* **Interleaving by nesting.** The graph changes under a search that is half way; searches
  for several clients wait on the thread's stack; close handlers wait for a poll.
* **Failure in the middle.** `send` throws when the session is over: each search has a try
  block around its `send` and `poll`, but the error reply of `on_message` has none, so that
  an exception there comes out of the `poll()` of another client's search, or out of `run()`.
  It always throws, since the text of the reply is no UTF-8 and `dump()` refuses it.
  `extractGraphData` fails after the graph was emptied and partly refilled. The heuristic
  of A\* throws or reads out of bounds on names that are no points.
* **Order.** Hash tables and heaps break ties in an order nobody chose; the promises of
  the searches must hold for all of them.
* **Data kept in step by hand.** `open_set` and `open_set_lookup`; the heap and the
  `f_score` its comparator reads; colours and the queue or stack.
* **Markers.** The empty string means "no node" and is a legal name; a map hands out a
  default value for a name that is no key; `INT_MAX` means "not met".

What makes each component correct:

* a search: it shows a path exactly if there is one, reports only reachable nodes, each
  once, in a stream that only grows, goes on when its client leaves, and returns; BFS and
  Dijkstra show a shortest path, nearest nodes first;
* the graph: edges added by `addEdge` can be followed both ways and lead to keys; an upload
  replaces all of what was there before it;
* the server: streams of different searches do not mix in one connection; a search answers
  about the graph it was asked about; waiting searches are not disturbed; failures do not reach
  past the nearest search below; the thread gets back to `run()`; connections that ended
  are forgotten.

### The vendored library

| Component | State | Operations | Source (in `src/uWebSockets/src`) |
|---|---|---|---|
| `AsyncSocket` | per socket: backpressure with the bytes sent but not yet erased; per loop: the cork buffer and its holder | `write`, `cork`, `uncork`, `getSendBuffer`, `close`, `shutdown` | `AsyncSocket.h`, `AsyncSocketData.h`, `LoopData.h` |
| `TopicTree` | topics and subscribers, the palette of outgoing messages, indices into it, the list of those to drain | subscribe, unsubscribe, publish, `drain`, free | `TopicTree.h` |
| WebSocket | `isShuttingDown`, `hasTimedOut`, subscriber | `send`, `end`, `close`, `cork`, `publish`, subscriptions; handlers of the context | `WebSocket.h`, `WebSocketContext.h`, `App.h` |
| Incoming frames | head or payload wanted, rotated mask, opcodes, fragment buffer, spill | `consume`, `handleFragment` | `WebSocketProtocol.h`, `WebSocketContext.h` |
| HTTP parser | fallback buffer, remaining body | `consumePostPadded`, chunked decoding | `HttpParser.h`, `ChunkedEncoding.h` |
| HTTP connection | state bits, offset, attached handlers | responses (`end`, `tryEnd`, `write`, `writeStatus`, `upgrade`, `cork`), handlers of the context | `HttpResponse.h`, `HttpContext.h`, `HttpResponseData.h` |
| `HttpRouter` | tree of segments, handler ids | `add`, `remove`, `route` | `HttpRouter.h` |
| Compression | offer, options, streams of a socket | `ExtensionsParser`, `negotiateCompression`, the choice in `upgrade` | `WebSocketExtensions.h`, `HttpResponse.h` |
| `Loop` | two queues, mutex, wake-up | `defer`, `wakeupCb` | `Loop.h`, `LoopData.h` |
| Child apps | list of apps, round robin | `addChildApp`, `removeChildApp`, hand-over | `App.h` |
| uSockets (external) | file descriptors, polling | system calls, wake-ups | a submodule that is empty here |

How they interact. A loop is one thread. It calls handlers of sockets; what a handler
writes goes through `AsyncSocket`: into the cork buffer, which is lent to one socket at a
time, or behind the backpressure, or into the system call. The topic tree parks published
messages and drains them before and after every iteration, or when its limits are met,
through a callback that corks and uncorks whoever it sends to. Only `Loop::defer` is called
across threads.

What is hard about it:

* **Writes that are taken in part.** Every write can leave a rest, three buffers hold such
  rests, and order has to hold through all of them; `end` postpones its FIN behind them.
* **One cork for all.** Handlers, the drain callback and responses take it and give it back.
* **Indices into a shared list** that any subscriber's drain may clear.
* **Input cut anywhere.** Heads, masks, chunks and fragments go on in the next read.
* **Responses built over several events**, with pipelined requests behind them.
* **Identifiers renumbered on removal** in every node of the router's tree.
* **Two threads on one queue**, with the wake-up after the unlock.

What makes each part correct: a peer gets whole frames in order, nothing once, twice or
late that was not dropped openly; a FIN after everything; nothing waits for another call;
what was parsed is what was sent; responses are whole, in order and well-formed; every
request is answered or aborted, once; requests reach the routes that were registered; both
sides' streams can read each other; every deferred callback runs once and in order.

The hazards of both with their lines are in `PROJECT.json`.

## 2. The modules

| Module | Models | Uses |
|---|---|---|
| `Search` | one call of any search, as a record and the set of its next steps; how the next node is chosen is left open | |
| `SearchSpec` | `Search` with the client's session and stream: the **abstract specification** of the four algorithms | `Search` |
| `SearchProofs` | theorems about `SearchSpec` | `SearchSpec` |
| `Traversal` | what the four functions share: guards, send and poll, rebuilding and showing the path | |
| `Bfs`, `Dijkstra`, `Dfs`, `AStar` | the four functions in detail | `Traversal`; instance of `SearchSpec` |
| `Graph` | class `Graph` | |
| `GraphProofs` | theorems about `Graph` | `Graph` |
| `RangeLemmas` | lemmas on sequences and their ranges that the proof modules cite | |
| `Algorithms` | the four of them as what `on_message` chooses from | instances of the four, of `SearchSpec` |
| `AlgorithmsProofs` | lemmas about what the four share, the tree of predecessors and the path rebuilt from it; theorems: the four implement `SearchSpec` and keep its promises, and take nodes in the order of heap, stack, queue and hops | `Algorithms`, instance of `SearchProofs` |
| `Server` | connections, dispatch, nesting of handlers | `Search`, instance of `Graph` |
| `ServerProofs` | theorems about `Server` | `Server` |
| `AsyncSocket` | writes, backpressure and the cork | |
| `WebSocketSend` | sending one message, and the drain callback that sends a batch | `AsyncSocket` |
| `TopicTree` | publishing and draining | `WebSocketSend` |
| `WebSocket` | the calls on a WebSocket and the socket handlers | `TopicTree` |
| `PubSub` | one loop with its WebSockets: handlers, iterations, the application | `WebSocket` |
| `PubSubProofs` | theorems about `PubSub` and all it uses | `PubSub` |
| `StreamProofs` | theorems about the streams the peers of `PubSub` get | `PubSubProofs` |
| `WebSocketProtocol` | frames and messages that come in | |
| `HttpResponse` | the response to a request | `AsyncSocket` |
| `HttpHandlers` | what the context gives to the parser, and the application behind it | `HttpResponse` |
| `ChunkedEncoding`, `HttpParser` | requests and bodies that come in | `HttpHandlers` |
| `HttpContext` | one HTTP connection and its events | `HttpParser` |
| `HttpRouter` | routes added, removed and looked up | |
| `Compression` | what is negotiated and what the streams then are | |
| `Loop` | callbacks deferred across threads | |
| `ChildApps` | sockets dealt out to the loops of child apps | `Loop` |
| `LoopProofs` | theorems about `Loop` and `ChildApps` | `ChildApps` |
| `MC*` | small instances; `MCLibrary` explores parts that share no state side by side, class `Graph` and those of the library (`part` says which) | |

**Algorithm modules.** The variables have the names of the code's locals (`colors`,
`distances`, `parent`, `Queue`, `previous`, `open_set`, ...). One action is the work between
two polls, because nothing else can run in between: `Refuse` (the guards at the head),
`Begin` (the initial fill), `Visit` (one iteration on a node that is not the end), `Found`
(one on the end, up to the confirmation), `BuildPath` (one predecessor), `ShowPath` (one
inner node), `LeaveFound`, `LeaveExhausted`. A\* polls in the middle of its loop body, so
its iteration is two actions, `Visit` and `Relax`. `HangUp` is the environment: the session
stops being open. Where the code walks a hash table or a neighbour vector the order is
chosen by `\E`. A map gives out its default for a name that is no key: the functions of the
model are total on `Nodes` and hold that default (`""`, 0, `FALSE`) from the start.

**A\*.** The heuristic collects the integers of both names and takes the first four.
`Numbers` gives the integers of a name or `Unparsable`; the call throws (`"raised"`) or
reads behind the vector (`"undefined"`). The model uses the square of the distance: every
uploaded edge weighs 0, so `f_score` *is* the distance, and the square orders it alike.

**Search.** A call is a record; `Moves(r)` is the set of pairs of a next record and the
message sent. `Server` keeps such records on its stack, so what the algorithm modules are
shown to refine is what the server is composed of. `AbstractRun` in `Traversal` is the
refinement mapping: `visitedNodes` is the array of visited nodes (in Dijkstra without the
end, which joins the array but is not sent), and the path counts once it is whole.

**Server.** `stack` holds the frames of the searches begun and not ended, with `polling`:
whether the innermost is in `poll()`. `AtPoll` guards every handler. An upload or an error
reply is over in one step; a search stays on the stack. An error reply is never sent: its text
holds the byte E9, and `ReplyError` throws, whoever the client is. `ReplyError`, `HandlerReturns` and
`HandlerThrows` are the ways out of a handler. External facts used: a connection's next
message is read when the handler of the previous one has returned; a message received
before the session ended is still delivered; `send` throws unless the session is open; `dump()`
throws on text that is no UTF-8 (its default
error handler is strict); a failed write ends the session and the close handler runs later; an
exception that leaves a
handler leaves the `poll()` or `run()` that called it; `crow::response`, thrown for JSON
that Crow refuses, is no `std::exception` and ends the process (`"aborted"`).

**AsyncSocket to PubSub.** The functions of the library are operators that take and return
the *world* of a loop, a record with the loop's data, its sockets, the topic tree and what is
left of the kernel's script: `Write`, `Uncork`, `Publish`, `Send`, `End` are composed as the
functions call each other, callbacks included: `App.h` gives the topic tree a callback that
sends, so `DrainCallback` is defined in `WebSocketSend`, below `TopicTree`, and the sends of
the application in `WebSocket`, above it. `PubSub` makes actions of them: `AppSend`,
`AppPublishes` and the other calls of the application, the socket handlers `OnData`, `Writable`,
`OnEnd`, `Timeout`, `LongTimeout`, and
`Iterate`, the end of an iteration with its two drains. A kernel is a script of how much the
coming system calls accept. A frame is a sequence of tokens, so that a write can cut it. `owed`
and `lossy` record what the application asked for, and appear in no guard.

**HTTP.** `HttpContext.h` gives its parser a handler for requests and one for data; they are
`RequestHandler` and `DataHandler` of `HttpHandlers`, below `HttpParser`: the world goes from
the parser into the handler of a request and back. A request carries the plan of its handler: answer
at once, in pieces, later, not at all, or
upgrade; or it has no route, and `Route` closes the connection. The later handlers are actions of
their own. `got` is how much of the stream has
been read, and every read may end anywhere.

**WebSocketProtocol.** A token of payload knows the byte of the mask it was masked with:
unmasked with another it becomes garbage, which no conversation means. `InboundRead` consumes
any next part of the conversation.

**HttpRouter.** The tree is a function from paths to nodes. `Route` is the code's search
through it; `Matches` and `Precedes`, which the property uses, say what a route means without
it.

**Loop.** Each thread's `defer` is two steps, the append under the mutex and the wake-up after
the unlock; the loop's `wakeupCb` is the swap, one step per callback, and the clear. `ChildApps`
composes these steps with the handler that accepts sockets.

## 3. What is checked

| Run | Instance | Shows |
|---|---|---|
| `search` | every adjacency list on three names | the abstract search: `Verdict`, `VisitsAreReachable`, `StreamIsTranscript`, `Grows` |
| `algorithms` | the same, digraphs on four and five keys; for A\* points, a word and a single number as names, two-way graphs on six points | the four refine the abstract search and return; shortest paths, nearest first; queue, stack, heap and maps agree; A\* fails only on keys that are no points or when start is the goal |
| `server` | three clients, three messages, requests of every kind | `StreamsDoNotMix`, `GraphIsOneUpload`, `AnswersForSnapshot`, `WaitingSearchesKeep`, `FailureIsContained`; searches end, ended connections are forgotten |
| `pubsub` | two WebSockets, two topics, three messages, one other call, corks | `FramesAreWhole`, `NothingIsLost`, `TreeIsConsistent`, `CorkIsGivenBack`, `EndIsClean`, `LoopDeliversAll` |
| `library` | one HTTP connection with up to two requests; conversations of a few frames; thirteen routes; every offer of a small grammar; three threads and two loops; a graph of three nodes, up to four edge entries, weights -1, 0, 2, four uploads | `RequestsAreParsedWhole`, `ResponsesAreFramed`, `RequestsAreSettled`; `MessagesAreWhole`; `RoutesAsRegistered`; `StreamsFit`; `CallbacksInOrder`; `BuiltIsClosed`, `BuiltIsSymmetric`: an added edge leads to a key and, undirected, back |
| `bfs_sentinel` | a node named `""` | **violation**: the path is cut at it |
| `astar_optimal` | six points | **violation**: the path is not a shortest one |
| `astar_loop` | start is the goal | **violation**: the loop over the path passes its end |
| `router_any` | the routes of `library` | **violation**: a request is offered to the handlers of another method |
| `pubsub_palette` | as `pubsub`, small messages, a palette of one | **violation**: the palette outgrows what its indices can tell apart |
| `server_errors` | as `server` | **violation**: a request that is answered with an error stops the server |
| `pubsub_cork_end` | as `pubsub`, one topic | **violation**: no FIN follows an `end` inside `cork` |

### Bounds

* *Three names, every list*: each name may be a key or not and have any set of neighbours,
  self loops and neighbours that are no keys included. This covers the guards, the
  defaults of the maps and all small shapes.
* *Four keys, source `a`, sink `d`*: every digraph of that kind. Many have a node met twice
  before it is taken, and in some the order in which `dfs` visits is not depth-first.
* *Five keys*: a long and a short way to `d` and edges between and back, any of eight
  edges absent. Five are the fewest on which a BFS or Dijkstra that goes on with the wrong
  node reports a wrong distance.
* *Six points for A\**: `a` to `d` by two near nodes or one far node, any subset of eight
  edges, with a tie in the heap.
* `Starts` and `Ends` include a key, an unknown name and `Empty` (one point sent only).
  `Empty` is not among `Nodes` except in `bfs_sentinel`.
* *Server*: `MaxMessages` (3) bounds the messages of all clients: the graph starts empty, so
  that these are an upload, a search on it, and in its polls another upload, another
  search or a request that fails, while the third client comes and goes. Two nodes are
  enough for two uploads that differ. There is no symmetry reduction, as the run checks liveness. A
  connection that ended does not come back: a new connection of the same browser is another
  element of `Clients`.
* `Graph`: `MaxEdges` bounds the entries that `addEdge` may make the list grow from.
* *PubSub*: the cork holds four tokens, a small frame has two and a big one five: frames that
  fit, that fill the cork, and that take the long way. A kernel takes everything or one
  token of its first call, and `maxBackpressure` is 3, so that one big frame cut by it is
  over the limit and the next message is dropped. `BatchLimit` and `PaletteLimit` are 2, so
  that three messages meet both. `EraseShift` is 1, so that bytes are both kept and erased
  lazily. `MaxMessages` (3) bounds sends and publishes, `MaxOthers` (1) the other calls, the
  timeouts and the FINs of peers; of the three messages the first may be big. `cork` is not counted,
  so that any of these calls is also made inside it, but it begins only before the one other
  call is made. Both sockets are subscribed to both topics or to none, so that the callback of
  `iterateTopics` can name the topic it was passed and one it was not. Two sockets are enough for
  one to drain while the other
  holds indices, and for one to hold the cork while the other wants it. Only `s1`'s peer
  sends data, as the sockets are otherwise alike.
* *HTTP*: a head with two fields has twelve tokens and fits the fallback buffer (16), one with
  five does not; six headers are the limit. The cork (24) holds what a read answers. A kernel
  takes everything, nothing, a token, or all but the end of a body. `MaxWrites` (2) bounds the
  chunks the application writes later.
* *WebSocketProtocol*: heads are 2, 3 and 4 tokens long for payloads up to 2, 4 and 6, so that
  each kind is cut by reads at every place; payloads longer than four rotate the mask round.
* *HttpRouter*: three handlers at a time of thirteen, `MaxUrlSegments` 3 with URLs of up to
  four segments. *Compression*: window bits at, inside and past both ends of what is legal.
* *Loop and child apps*: `main`, `child` and a `worker` thread; `MaxSockets` 2, `MaxChanges` 2
  and `MaxDeferred` 1 let an app be removed while a socket is on its way to it.

### Deadlock

A call that has returned, a server whose clients have said all they may say, and a connection
that is closed or whose peer has said everything have nothing left to do, so their runs say
`CHECK_DEADLOCK FALSE`. `router_any` checks deadlock.

### Fairness

* `WF_vars(Step)` in `Algorithms`, `WF_vars(Advance)` in `Server`: the thread
  keeps executing the function it is in. A poll returns once no handler is ready.
* `WF_vars(OnClose(c))`: asio runs a handler that stays ready. It is ready only when the
  thread polls or is in `run()`, so `LeaversAreForgotten` needs all searches to end or to
  poll. That holds for a bounded number of messages; clients that never stop asking could
  keep the thread in ever new searches, about which weak fairness says nothing.
* Nothing is assumed of clients: they need not send, leave or stay.
* The library's modules assume no fairness. That something gets out in the end is stated as
  safety instead: `LoopDeliversAll` takes every reachable state, lets the running handler
  return, the iteration finish and the kernel accept what it is given, and asks that all owed
  messages and FINs are then out; it excepts the FIN of a socket that was ended inside its own
  `cork`, which finding 8 is about (`endedInCork`, a history variable of `MCPubSub`, tells them).
  `RequestsAreSettled` asks that a response that waits is
  polled for, and `CallbacksInOrder` that what is queued has its wake-up.

### Findings

1. `a_star` is greedy (`astar_optimal`): with weight 0 on every uploaded edge `g_score`
   is 0 for every node met, and the first predecessor is never replaced. Where `a` leads to `b`
   and `f`, `b` to `c`, and `c` and `f` to `d`, it shows `a, b, c, d` although `a, f, d` exists.
2. `a_star` from a node to itself reads behind the path (`astar_loop`).
3. A node named `""` cuts the path (`bfs_sentinel`; the other three functions share the
   loop).
4. `HttpResponse.h:288` looks for the compressor of 3 kB with a mask that has a bit in common with
   every dedicated compressor: whichever is configured, a socket with a compressor of its own
   gets that of 3 kB, although lines 286-287 say the test corrects the one of 4 kB. The streams fit
   all the same, as a window may be smaller than the answer says. `StreamsFit` (run `library`)
   is stated to allow that, and asks nothing that only larger windows could break.
5. Removing a route culls the node of the ANY method (`router_any`, `HttpRouter.h:347`),
   although line 244 says there is always one, and 274 that it is tried last: whatever
   method is last then takes its place.
6. The palette of the topic tree can outgrow its indices (`pubsub_palette`, `TopicTree.h:313`):
   `freeSubscriber` unlinks the last drainable subscriber but keeps the messages, and `drain`
   does nothing while nobody is in the list. If that happens with `UINT16_MAX` messages, the next
   publish appends without a drain, the test with `==` is passed for good, and the index of the
   message after that wraps: its readers are sent an old message. The comments (lines 102 and
   312) say up to 64k messages, and a drain of everyone before there are more. The
   counterexample, with a limit of 1, needs one publish, one close and two publishes; run `pubsub`
   has a limit of 2 and too few messages to get there, so that `NothingIsLost` holds on it. It
   came up as an invariant that could not be proved.
7. The server does not survive a request that fails (`server_errors`, `graph-visualization.cpp:59`).
   The text of the error reply has an e with an accent in Latin-1, byte E9, which is no UTF-8;
   `dump()` throws `type_error` at line 61, outside of any try block, for a client that is there as for
   one that is gone. The reply of lines 50-53 throws alike at line 53, inside the block, and ends up
   at line 61. No client is ever sent an error. If a search's `poll()` called the handler, the block around
   that `poll()` catches the exception; if none did, it leaves `run()`.
   `FailureIsContained` states what is true instead: `run()` is left only by a request that fails,
   and only while no other client has a search on the stack.
8. `end` inside `WebSocket::cork` sends no FIN (`pubsub_cork_end`, `WebSocket.h:264-278`), against the
   comment of lines 232-233: the close frame goes into the cork, `end` leaves the FIN to
   whoever uncorks, and `cork` does not look at `isShuttingDown`. Data that still comes is thrown
   away, so that a timeout has to close the socket.
9. A callback of `iterateTopics` that subscribes or unsubscribes the socket it iterates ends the
   process (`TopicTree.h:105-111`), whichever topic it names, while `WebSocket.h:345-347` allows all but
   the topic passed. `CorkIsGivenBack` (run `pubsub`) allows this end of the process and no other.
10. `end(data, true)` after `write()` puts `Connection: close` among the chunks of the body
   (`HttpResponse.h:112` runs before the test of line 118), although lines 106-108 say the client must
   be told. `ResponsesAreFramed` (run `library`) excepts exactly that header (`WithoutStray`) and asks
   of everything around it what it asks of other responses.

Findings 4, 9 and 10 have no run of their own: the properties named hold with the exception they
state.

Facts met while modelling that no run isolates: `uncork` with new data drops the data when
flushing the cork fails (`AsyncSocket.h:338`); a compressed frame whose head is cut is looked
at twice and refused (`WebSocketProtocol.h:471`); a request with `Content-Length: 0` that came
through the fallback buffer gets no last chunk (`HttpParser.h:682`); `dfs` turns a node grey when
it is pushed, so that on `a -> {b, c, d}`, `c -> b` it can visit `a, c, d, b`, which no depth-first
traversal does (`Algorithms.cpp:358`); a control frame between
fragments sets `lastFin` (`WebSocketProtocol.h:354`); a character behind the last hexadecimal
digit counts as sixteen (`ChunkedEncoding.h:56`); a child app
that is destroyed while a socket is on its way to it leaves a dangling pointer (`App.h:617`).

A further fact that a property of `Server` states: a failed upload leaves a graph of some of its
keys (`GraphIsOneUpload` says what can be left). `RoutesAsRegistered` is about the tree of one method
(`Below`): that the tree of the ANY method can be culled, after which the handlers of the last
method are offered a request twice, is left to `router_any`.

## 4. What is proved

Every theorem is about all values of the constants, not about the small instances of section
3: any number of nodes, any graph, any number of clients and messages.

**`SearchProofs`**, of `SearchSpec`, for every set `Nodes`, every `Empty` and every set
`Calls` that satisfies `CallsAssumption` (its elements are initial calls with some list):
`TypeCorrect`, `VerdictIsRight` (`Spec => []Verdict`), `VisitsCanBeReached`, `OnlyGrows` and
`StreamIsWhole` (`Spec => []StreamIsTranscript`).

`Verdict` is not inductive: that a returned call is right rests on what held while it
searched. `IInv` adds that a call past the guards was not refused (`AcceptedIsKnown`),
visited nodes can be reached (`VisitedIsReachable`), the start is the first of them
(`StartIsFirst`), a call that announced the end can reach it (`FoundIsReachable`) and holds
a route while it shows one (`RouteIsRoute`). `Reachable` is the intersection of all closed
sets of keys, so that no induction is needed: `FrontierReachable` shows that a successor of
a reachable node lies in every closed set, and `ExhaustedIsReachable` that an empty frontier
makes the visited nodes themselves a closed set. There is one lemma per kind of step
(`QuietStep`, `TakeStep`, `RouteStep`, `ShowStep`), and `NextIInv` puts them together.
`StreamIsTranscript` speaks of calls that are over; `StreamIsHeard` is what holds on the way:
the messages sent are the beginning of what a client that stays has heard, and all of it while
the session is open.

**`AlgorithmsProofs`**, of the four searches in detail:
`AllImplementSearch` (`Spec => ImplementsSearch`), and from it `AllVerdictsAreRight`,
`AllVisitsCanBeReached` and `AllStreamsAreWhole`, which are the theorems of `SearchProofs`
carried over through the refinement mapping (`Promised` is the instance of `SearchProofs`
that does it; `CallsAreCalls` discharges its assumption).

The refinement is shown step by step: every action of the four is a step of `SearchSpec` or
leaves `AbstractRun` as it is. What makes it hard is `BuildPath`, which rebuilds the path from
predecessors: at its end the abstract search takes in one step a whole route. The
invariant that carries this is `Grown`: the nodes met are the start and the neighbours of the
nodes taken, and the predecessor of a node met was taken, before it if the node was taken
itself. `Trail`, the nodes in the order in which they were taken, therefore orders the
path under construction (`Traced`), so that it is simple, is never longer than what was taken,
and can only end at the start (`PathIsWhole`). `Grown` and `Traced` say `Met` for what each
member marks in its own way, by colours, by distances below `INT_MAX` or by scores below
`Infinity`; `Coloured`, `Settling` and `Heaped` tie these marks to queue, stack, `visited` and
the heap. `IInv` is their conjunction with the types.

Of the order in which the four take nodes: `LocalsAreTyped` (`TypeOK`, which includes that
no distance overflows an `int`), `HeapIsLookup` (`LookupAgrees`), `HeapKeysStay`
(`HeapKeysStable`), `PointsAreSafe` (`SafeOnPoints`), `StackHoldsFrontier` (`StackIsFrontier`),
`QueueHoldsFrontier` (`QueueIsFrontier`), `TakenAreSettled` (`TakenIsSettled`) and
`RoutesAreShortest` (`RouteIsShortest`).

The last three rest on `HInv`: every distance of a node met is its true number of hops
(`Layers`), what was visited was visited nearest first (`Visits`), nothing that waits is nearer
than what was taken (`Frontier`; in `bfs` the queue spans two layers), and the part of a path
that is rebuilt has the length its distances say (`Measured`). The central lemma is
`NearerIsMet`: when the nearest waiting node is taken, every node as near as it was met
already. Hops are defined with the recursive function `Ball`, the nodes at most `k` hops away;
that `Ball` meets its recursive equation (`BallGrows`), that the balls nest (`BallsNest`) and
stop growing after as many hops as there are keys (`BallStays`) is proved by induction over sets
of numbers (`SetInduction`, from the well-foundedness of `<` on the naturals), since the
library's theorems for induction and recursion take an operator as parameter.

Hypotheses. `InputAssumption`: graphs are finite adjacency lists, neighbours need not be keys.
`SizeAssumption`: a graph has fewer keys than `INT_MAX`, and a heuristic that returns is below
`Infinity`, as in any run that fits in memory. `EmptyIsNoName` is a hypothesis of the theorems
and not an assumption of the model, because graphs with an empty name exist: run `bfs_sentinel`
shows what the code then does.

**`ServerProofs`**, of `Server`, for all `Nodes`, `Clients` and `MaxMessages` and all
`Requests` that satisfy `ServerAssumption`: `TypeCorrect`, `StreamsAreInOrder`
(`StreamsDoNotMix`), `GraphIsNeverMixed` (`GraphIsOneUpload`), `AnswersAreForSnapshot`
(`AnswersForSnapshot`), `WaitingAreKept` (`WaitingSearchesKeep`) and `FailuresAreContained`
(`FailureIsContained`). The invariant is stated of a stack (`Runs(s)`), so that it
can also be said of the frames that are left when an exception unwinds one: no client has two
searches on the stack, and none whose search is on it is read (`Exclusive`); the last
message in the stream of a client that is there is the last one its search sent (`Linked`);
every search on the stack is sound, what it visited hanging together from its start
(`Sound`). `StreamsDoNotMix` then follows for the next message of whoever is innermost.
The instance of run `server` has two nodes, so that no path in it has two inner nodes; the
theorems have no such limit.

**`GraphProofs`**, of `Graph`, for every set `Nodes`, every `MaxEdges`, and all `Weights`
and `Uploads` that satisfy `GraphAssumption` (weights are integers, uploads have the shape
`IsUpload`): `TypeCorrect`, `BuiltStaysClosed` (`Spec => []BuiltIsClosed`) and
`BuiltStaysSymmetric` (`Spec => []BuiltIsSymmetric`). The two properties are inductive
together with the types. The argument is about the set of pairs `Under` each name:
`TouchEffect` and `PushEffect` say what `operator[]` and `push_back` do to it,
`WithEdgeEffect` that an addition puts one pair under its start and, undirected, its mirror
image under its end, also when both are the same node; `LoadsListing` that whatever an
upload leaves is a list of the right type.

**`LoopProofs`**, of `Loop`, for all `Loops`, `Threads`, `Callbacks` and `Nobody` that satisfy
`LoopAssumption` (the loops are among the threads, `Nobody` is no loop): `LoopTypeCorrect`
(`LoopSpec => []LoopTypeOK`) and `DeferredIsRun` (`LoopSpec => []CallbacksInOrder`). The property
alone is not inductive, because a swap would bring back whatever the other queue still holds:
`OldIsTaken` adds that outside of `wakeupCb` the queue that is not current is empty, and inside
that the next callback lies in it or just past its end. `RunNext` says that running a
callback moves it from what is left to what was run. `ChildImplementsLoop` proves
`ChildSpec => LoopSpec /\ []CallbacksInOrder`: each step of the child apps, the hand-over
included, is one step of the loop or none of its concern, under `ChildAssumption` as well.

**`PubSubProofs`**, of `PubSub` and all it is made of, for any finite sets of sockets and topics
and every size and limit (cork buffer, batch, palette, backpressure), every kernel and any
number of messages and calls: `TypesHold` (`TypeOK`), `CorkIsAlwaysGivenBack`
(`CorkIsGivenBack`), `TreeIsAlwaysConsistent` (`TreeIsConsistent`) and `EndIsAlwaysClean`
(`EndIsClean`). Hypotheses (`PubSubAssumption`): `NoSocket` is no socket, kernels are sequences
of numbers, lengths are numbers; a process has finitely many sockets and topics.

Calls take a world to a world, so the invariant is a predicate of worlds, `Good(h, x)`, where
`h` is the socket that may hold the cork; `IInv` says `Good(Holder, Now)`, with the socket whose
handler runs for `Holder`. Its parts need each other:

* `Worlds` is the type: every buffer a sequence of tokens, with no more removed from its front
  than there is, a cork that fits and has a holder if it is not empty.
* `Consistent` is `TreeIsConsistent` with the bound of a batch. While a message is being parked
  for its readers one after the other, the index of those served already lies just past the
  end of the palette, where the message is put last; `ConsistentFor(x, P)` allows that for
  the readers in `P`, and every step of the loop adds one to `P` (`ParkedFor`). A reader whose batch
  is full is drained on the way, which may clear the palette under the others only if none
  of them has anything parked.
* `Clean` is `EndIsClean`, and that a socket that sent its FIN does not hold the cork: else what
  is in the cork would follow the FIN. Send, publish and the drain may only meet sockets whose
  close event was not given, and it is `Consistent` that says so of whoever is in the list or in a
  topic.
* Somebody is iterated over after a call exactly if the process ended in it: `iterateTopics` takes
  its lock back on every other way (`IteratedForItself` and `IteratedForOther` are the two cases). The
  cork is at `h` or free. That the drain callback gives the cork back whatever fails is `Batched`:
  if it is not where
  it was before the batch, the callback remembers that it took it.

The lemmas go up layer by layer: what a write may change (`Sent`, and `Released`: nobody gets the
cork who did not have it), a message (`Messaged`), a batch (`Touched`), a call on several sockets
(`Kept`), a change of topics (`Regrouped`), each closed under composition; then one lemma
for each action. Loops are folds over sequences, whose definition is a `CHOOSE` of a recursive
function on sets of indices; `FoldTable` shows that the function exists and `BeginningsInduction`
that what every step keeps holds in the end, so that `DrainFold`, `ParkFold`, `SendFold`,
`SubscribeFold` and `EmitFold` state it for the five loops of the code.

The theorems do not bound the palette: finding 6 is why. `InPalette` holds all the same, as an
index that wraps points to some message, only to a wrong one.

**`StreamProofs`**, of the same specification, is about what a peer gets: `FramesAreAlwaysWhole`
(`Spec => []FramesAreWhole`) and `NothingIsEverLost` (`Spec /\ []PaletteFits =>
[]NothingIsLost`): data comes in the order in which it was published or sent, each message once,
and none of what is owed is missing unless the socket dropped something for its limit. The first
has no hypothesis beyond those of `PubSubProofs`. The second needs `PaletteFits`, since
without it the property is false (finding 6, run `pubsub_palette`). The hypothesis is no empty one: every
behaviour in which at most `PaletteLimit + 1` messages wait at a time satisfies it, so that it
holds throughout run `pubsub`, whose limit of 2 leaves room for the three messages it has.

The invariant is `Sound(fits, n, x, d)`, of a world `x` in which `n` is the next message.
For every socket that lives (`SoundAt`):

* who is in a topic or has something parked has a subscriber, and what is parked is a list of
  indices of data (`PaletteIsData`);
* the stream, from what is on the wire over what is buffered to what is in the cork, is a
  sequence of whole frames, and none follows the close frame (`FitAt`); the close frame is
  not in it before the close event (`NoClose`);
* as long as `fits`: the messages in the stream followed by those parked increase, lie below
  `n`, and are those owed unless something was dropped (`Account`, `Ordered`).

`d` is what is due: inside a publication or a drain, messages have left the palette, or are
owed, that no stream holds yet. The account is of stream, palette and dues together, and each
step of the code moves a message from one to the next. `fits` is why there are two
theorems from one induction (`StepKeepsStreams`): with `FALSE` the account is left out and
nothing is assumed of the palette (`StreamInv`), with `TRUE` it is carried while `PaletteFits`
holds (`AccountInv`).

The lemmas follow the layers of the code. A write puts its bytes at the end of the stream
of its socket, wherever they end up, and leaves all other streams alone (`Streamed`: one lemma each
for backpressure, for what is larger than the cork, for what is not corked, for flushing the
cork, and for what a send does with them). `BatchFits` says it of the loop that drains a
batch and `DrainedAllSound` of the drain of all. Publishing parks an index one past the
end of the palette before the message is there, one reader after another, and may drain a
reader on the way: `SoundNext` and `Partly` say what holds between two readers. The calls
that send nothing (`Silent`, `Regroups`), `end` and `close` (`EndSound`, `CloseSound`) and the
peer, which takes bytes off the wire but never the second half of a frame as a frame
(`Owing`, `DeliveredSound`), complete the actions.

**Model-checked only.** Of the program: liveness (`Termination`, `SearchesEnd`,
`LeaversAreForgotten`), which rests on fairness and `ENABLED` and is out of the prover's reach.
Of the library: `LoopDeliversAll`, which says where the loop ends when it is run on from any
state and so is an induction over its iterations; `StreamsFit`, because `Compression` takes
options apart with `Bitwise`, which no module with a theorem may reach; and the parts of
`MCLibrary` for HTTP, incoming frames and routes (`RequestsAreParsedWhole`, `ResponsesAreFramed`,
`RequestsAreSettled`, `MessagesAreWhole`, `RoutesAsRegistered`). Their parsers and the router
are recursive operators over streams of tokens, as the code recurses or loops over bytes,
and the prover neither unfolds recursive operators nor does induction over data.

## 5. What is not modelled

* `send_visited_nodes`: nothing calls it. `printGraph`: it prints.
* Start-up (`init_asio`, `listen`, `start_accept`): a failure ends the program at once.
* Wording, logging, JSON text. Messages are a key and an array.
* Rounding in the heuristic, which could let two nearly equal distances compare as equal,
  and overflow of its integers; the size of the thread's stack.
* `Poubelle_*.h`, which are commented out; project and resource files.
* Of the library: the calls of zlib in `PerMessageDeflate`; the pure parsers of one string
  (`Multipart.h`, `QueryParser.h`, `ProxyParser.h`, `MessageParser.h`), `MoveOnlyFunction.h` and
  the Bloom filter, which keep no state between calls; `LocalCluster.h`, `CachingApp.h`,
  `ClientApp.h` and HTTP/3, which are unfinished or experimental by their own words;
  examples, benchmarks, fuzzing and tests. uSockets is external.
* Of the modelled parts: `throttle`, addresses, filters, pre- and post-handlers other than the
  topic tree's, `sendFragment` and compression of what is sent, TLS, handlers that close other
  sockets from inside the dropped handler or change routes while they are called; callbacks of
  `iterateTopics` that end or close the socket they iterate, or iterate another. Calls of an
  application that mix the ways to answer beyond `end` and `tryEnd` after `write`: a `write` or
  another `end` while a `tryEnd` is unfinished, `writeContinue`, `upgrade` or headers after the status. A
  connection on which a peer asked for a close is not followed by a further request.

## 6. Plan

Done, in this order: `Search`, `SearchSpec`, `Traversal`, `Bfs`, `Dijkstra`, `Dfs`, `AStar`,
`Graph`, `Server`, `SearchProofs`, `GraphProofs`; then `Algorithms`, `AsyncSocket`, `WebSocketSend`,
`TopicTree`, `WebSocket`, `PubSub`, `WebSocketProtocol`, `ChunkedEncoding`, `HttpResponse`,
`HttpHandlers`, `HttpParser`, `HttpContext`, `HttpRouter`, `Compression`, `Loop`, `ChildApps`,
`LoopProofs`; then `AlgorithmsProofs`, `ServerProofs`, `PubSubProofs`, `StreamProofs`.

Next:

1. The response to a request (`HttpResponse`, over the same `AsyncSocket` lemmas): that a
   handler that returns leaves no cork behind there either, and that offsets never pass the
   length announced.
2. `AsyncSocket` with responses longer than the cork, for what `uncork` drops, and handlers
   that act from inside a drain.
3. An abstract ordered channel that `PubSub` implements per socket. `NothingIsEverLost` is its
   safety; what is left is to state the channel as a specification of its own.
4. `StreamsFit` for every legal offer: once the options of `Compression` are sets of bits
   instead of numbers, its fold over the tokens of an offer can be treated as those of `PubSub`.

## 7. Running

In this directory, `tlc -config MCServer.cfg MCServer`, and likewise with `MCAlgorithms`,
`MCSearch`, `MCPubSub` and `MCLibrary`; `tlc -config MCAlgorithms_sentinel.cfg
MCAlgorithms` and likewise for the other configurations that expect a violation; `tlapm
SearchProofs.tla`, and likewise with `GraphProofs`, `LoopProofs`, `ServerProofs`,
`AlgorithmsProofs`, `PubSubProofs` and `StreamProofs`; the last takes a quarter of an hour.
