------------------------------ MODULE MCLibrary ------------------------------
(***************************************************************************)
(* The parts that share no state are explored in one run, side by side:    *)
(* class Graph of the application and the parts of the vendored library.   *)
(* A behaviour is one of the part that it starts with, and the other parts *)
(* stay where they are.                                                    *)
(***************************************************************************)
EXTENDS MCGraph, MCRouter, ChildApps

CONSTANTS
  Conn, NoSocket, CORK_BUFFER_SIZE, EraseShift, MAX_FALLBACK_SIZE, UWS_HTTP_MAX_HEADERS_COUNT,
  HttpKernels, Traffics, MaxWrites,
  SHORT_MESSAGE_HEADER, MEDIUM_MESSAGE_HEADER, LONG_MESSAGE_HEADER,
  ShortLength, MediumLength, ControlLength, maxPayloadLength, Conversations,
  Offers, Configurations,
  Unused

VARIABLES
  part,
  loop, socket, http, traffic, got,       \* HttpContext
  inbound, conversation, read,            \* WebSocketProtocol
  configuration, offer, stream            \* Compression

Http == INSTANCE MCHttp
Inbound == INSTANCE MCInbound
Negotiation == INSTANCE MCCompression

(* The inputs of the parts, which do not depend on these constants. *)
HttpInputs == INSTANCE MCHttp WITH Traffics <- {}, HttpKernels <- {}
InboundInputs == INSTANCE MCInbound WITH Conversations <- {}
NegotiationInputs == INSTANCE MCCompression WITH Offers <- {}, Configurations <- {}

SomeCallbacks == 0..MaxSockets
SomeTraffics == HttpInputs!SomeTraffics
SomeHttpKernels == HttpInputs!SomeHttpKernels
AllConversations == InboundInputs!AllConversations
SomeOffers == NegotiationInputs!SomeOffers
SomeConfigurations == NegotiationInputs!SomeConfigurations

sharedVars == <<part, graphVars, routerVars, childVars>>
httpVars == <<loop, socket, http, traffic, got>>
inboundVars == <<inbound, conversation, read>>
compressionVars == <<configuration, offer, stream>>
partVars == <<httpVars, inboundVars, compressionVars>>

NoHttp == loop = Unused /\ socket = Unused /\ http = Unused /\ traffic = Unused /\ got = Unused
NoInbound == inbound = Unused /\ conversation = Unused /\ read = Unused
NoNegotiation == configuration = Unused /\ offer = Unused /\ stream = Unused

Init ==
  /\ RouterInit /\ ChildInit /\ GraphInit
  /\ isDerected => part = "graph"
  /\ \/ part = "http" /\ Http!HttpInit /\ NoInbound /\ NoNegotiation
     \/ part = "inbound" /\ NoHttp /\ Inbound!InboundInit /\ NoNegotiation
     \/ part = "negotiation" /\ NoHttp /\ NoInbound /\ Negotiation!CompressionInit
     \/ part \in {"router", "loops", "graph"} /\ NoHttp /\ NoInbound /\ NoNegotiation

Next ==
  \/ /\ part = "http" /\ Http!HttpNext
     /\ UNCHANGED <<sharedVars, inboundVars, compressionVars>>
  \/ /\ part = "inbound" /\ Inbound!InboundRead
     /\ UNCHANGED <<sharedVars, httpVars, compressionVars>>
  \/ /\ part = "negotiation" /\ Negotiation!Upgrade
     /\ UNCHANGED <<sharedVars, httpVars, inboundVars>>
  \/ part = "router" /\ RouterNext /\ UNCHANGED <<part, graphVars, childVars, partVars>>
  \/ part = "loops" /\ ChildNext /\ UNCHANGED <<part, graphVars, routerVars, partVars>>
  \/ part = "graph" /\ GraphNext /\ UNCHANGED <<part, routerVars, childVars, partVars>>

Spec == Init /\ [][Next]_<<sharedVars, partVars>>

-----------------------------------------------------------------------------
(* However a connection is cut into reads, the parser tells the requests   *)
(* and bodies as they were sent: HttpParser and HttpContext (on_data).     *)
RequestsAreParsedWhole == part = "http" => Http!RequestsAreParsedWhole

(* What the peer gets is the responses in order and each built as HTTP     *)
(* wants it: HttpResponse, AsyncSocket and HttpContext.                    *)
ResponsesAreFramed == part = "http" => Http!ResponsesAreFramed

(* Every request is answered or aborted, once, and who has to write will   *)
(* be told to: HttpResponse and HttpContext (on_writable, on_close).       *)
RequestsAreSettled == part = "http" => Http!RequestsAreSettled

(* However a WebSocket is cut into reads, its handlers are told of the     *)
(* messages and control frames as they were sent: WebSocketProtocol and    *)
(* WebSocketContext::handleFragment.                                       *)
MessagesAreWhole == part = "inbound" => Inbound!MessagesAreWhole

(* What the two sides agree on is what the new socket's streams can do:    *)
(* negotiateCompression and HttpResponse::upgrade.                         *)
StreamsFit == part = "negotiation" => Negotiation!StreamsFit
=============================================================================
