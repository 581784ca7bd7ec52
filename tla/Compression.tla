----------------------------- MODULE Compression -----------------------------
(***************************************************************************)
(* WebSocketExtensions.h and its caller HttpResponse::upgrade: which       *)
(* streams a new WebSocket compresses and inflates with, from what the     *)
(* context was configured with and what the client offers.                 *)
(*                                                                         *)
(* An offer is the sequence of its tokens: a word, or a number.  A window  *)
(* is given by its bits; 0 stands for the stream that all sockets of the   *)
(* loop share, which is reset after every message.  An answer is the       *)
(* extension and its parameters, -1 for one that has no value.             *)
(***************************************************************************)
EXTENDS Integers, Sequences, SequencesExt, Bitwise

CONSTANTS Offers,         \* the offers of clients
          Configurations  \* the values of WebSocketBehavior::compression

VARIABLES configuration, offer, stream
compressionVars == <<configuration, offer, stream>>

(* CompressOptions: windowBits and memLevel of the compressor in the low   *)
(* byte, windowBits of the inflator above it.                              *)
SHARED_COMPRESSOR == 1
SHARED_DECOMPRESSOR == 256
DEDICATED_COMPRESSOR_3KB == 9 * 16 + 1
DEDICATED_COMPRESSOR(bits) == bits * 16 + bits - 7
DEDICATED_DECOMPRESSOR(bits) == bits * 256

Word(name) == [word |-> name, number |-> 0]
Number(n) == [word |-> "number", number |-> n]

PERMESSAGE == "permessage-deflate"
WEBKIT == "x-webkit-deflate-frame"
Flags == {"server_no_context_takeover", "client_no_context_takeover", "no_context_takeover"}
Windows == {"server_max_window_bits", "client_max_window_bits", "max_window_bits"}
None == "none"

Lower(m, n) == IF m < n THEN m ELSE n

-----------------------------------------------------------------------------
(* ExtensionsParser: anything before the first extension it knows is       *)
(* skipped, a second one or the number 0 ends it, and a number belongs to  *)
(* the last window named, whatever stands between.                         *)
NewParser == [extension |-> None, flags |-> {}, windows |-> [w \in Windows |-> 0], last |-> None, over |-> FALSE]

Token(x, token) ==
  LET ends == token = Number(0) \/ (x.extension # None /\ token.word \in {PERMESSAGE, WEBKIT})
  IN  IF x.over \/ ends THEN [x EXCEPT !.over = TRUE]
      ELSE IF token.word \in {PERMESSAGE, WEBKIT} THEN [x EXCEPT !.extension = token.word]
      ELSE IF x.extension = None THEN x
      ELSE IF token.word \in Flags THEN [x EXCEPT !.flags = @ \cup {token.word}]
      ELSE IF token.word \in Windows THEN [x EXCEPT !.windows[token.word] = 1, !.last = token.word]
      ELSE IF token.word = "number" /\ x.last # None THEN [x EXCEPT !.windows[x.last] = token.number]
      ELSE x
ExtensionsParser(tokens) == FoldLeft(Token, NewParser, tokens)

-----------------------------------------------------------------------------
Refusal == [compression |-> FALSE, compressionWindow |-> 0, inflationWindow |-> 0, response |-> <<>>]
Granted(compression, inflation, parameters) ==
  [compression |-> TRUE, compressionWindow |-> compression, inflationWindow |-> inflation, response |-> parameters]

(* The parameter that tells the client about a window of ours, if it is    *)
(* not the largest.                                                        *)
Told(bits, flag, window) ==
  IF bits >= 15 THEN <<>> ELSE IF bits = 0 THEN <<<<flag, -1>>>> ELSE <<<<window, bits>>>>

WebKit(ep, compression, inflation) ==
  LET demanded == ep.windows["max_window_bits"]
      limits == demanded # 0 /\ demanded < compression
  IN  IF "no_context_takeover" \in ep.flags
        THEN IF compression # 0 THEN Refusal
             ELSE Granted(0, inflation, Told(inflation, "no_context_takeover", "max_window_bits"))
      ELSE IF limits /\ demanded = 8 THEN Refusal
      ELSE Granted(IF limits THEN demanded ELSE compression, inflation,
                   Told(inflation, "no_context_takeover", "max_window_bits"))

(* The inflator of the socket: what is left of ours by the client's limits, *)
(* and the shared one if it would need limits the client cannot keep.      *)
InflationUnasked(ep, inflation) ==
  LET client == ep.windows["client_max_window_bits"]
  IN  IF "client_no_context_takeover" \in ep.flags THEN 0
      ELSE IF client \in {0, 1} THEN inflation
      ELSE Lower(client, inflation)
InflationWindow(ep, inflation) ==
  LET client == ep.windows["client_max_window_bits"]
      limited == IF "client_no_context_takeover" \in ep.flags THEN 0
                 ELSE IF client \in {0, 1} THEN inflation
                 ELSE Lower(client, inflation)
  IN  IF limited < 15 /\ client = 0 THEN 0 ELSE limited

(* The compressor: a demand to keep no window is not granted.              *)
CompressionWindow(ep, compression) ==
  LET server == ep.windows["server_max_window_bits"]
      limited == Lower(server, compression)
  IN  IF server = 0 \/ "server_no_context_takeover" \in ep.flags THEN compression
      ELSE IF limited = 8 THEN 9
      ELSE limited

PerMessage(ep, compression, inflation) ==
  LET inflates == InflationWindow(ep, inflation)
      deflates == CompressionWindow(ep, compression)
  IN  Granted(deflates, inflates,
              Told(inflates, "client_no_context_takeover", "client_max_window_bits")
                \o Told(deflates, "server_no_context_takeover", "server_max_window_bits"))

IsWindow(bits) == bits = 0 \/ bits \in 8..15
NegotiateCompression(compression, inflation, tokens) ==
  LET ep == ExtensionsParser(tokens)
      granted == IF ep.extension = WEBKIT THEN WebKit(ep, compression, inflation)
                 ELSE IF ep.extension = PERMESSAGE THEN PerMessage(ep, compression, inflation)
                 ELSE Refusal
  IN  IF IsWindow(granted.compressionWindow) /\ IsWindow(granted.inflationWindow) THEN granted ELSE Refusal

-----------------------------------------------------------------------------
(* HttpResponse::upgrade and WebSocketData: the streams of the socket.     *)
Compressor(negotiated, configured) ==
  IF negotiated = 0 THEN SHARED_COMPRESSOR
  ELSE IF (configured & DEDICATED_COMPRESSOR_3KB) # 0 THEN DEDICATED_COMPRESSOR_3KB
  ELSE DEDICATED_COMPRESSOR(negotiated)
Decompressor(negotiated) == IF negotiated = 0 THEN SHARED_DECOMPRESSOR ELSE DEDICATED_DECOMPRESSOR(negotiated)

Streams(configured, tokens) ==
  LET inflator == configured \div 256
      got == NegotiateCompression((configured % 256) \div 16, IF inflator = 1 THEN 0 ELSE inflator, tokens)
      options == Compressor(got.compressionWindow, configured) + Decompressor(got.inflationWindow)
  IN  IF configured = 0 \/ tokens = <<>> \/ ~got.compression THEN [enabled |-> FALSE]
      ELSE [enabled |-> TRUE,
            response |-> got.response,
            deflates |-> IF options % 256 = SHARED_COMPRESSOR THEN 0 ELSE (options % 256) \div 16,
            inflates |-> IF options \div 256 = 1 THEN 0 ELSE options \div 256]

CompressionInit == /\ configuration \in Configurations
                   /\ offer \in Offers
                   /\ stream = [enabled |-> FALSE]
Upgrade == /\ ~stream.enabled
           /\ stream' = Streams(configuration, offer)
           /\ UNCHANGED <<configuration, offer>>
CompressionSpec == CompressionInit /\ [][Upgrade]_compressionVars

-----------------------------------------------------------------------------
(* What the client does, by the answer and the rules of its extension.     *)
Says(flag) == <<flag, -1>> \in ToSet(stream.response)
Window(name) == IF \E p \in ToSet(stream.response) : p[1] = name
                THEN (CHOOSE p \in ToSet(stream.response) : p[1] = name)[2] ELSE 15
Asked(name) == Word(name) \in ToSet(offer)
Demanded(name) == LET bits == ExtensionsParser(offer).windows[name] IN IF bits = 0 THEN 15 ELSE bits

(* If a socket compresses, client and server run streams that can read     *)
(* each other.  The client keeps its sliding window from message to        *)
(* message unless it is told not to, and then the socket has an inflator   *)
(* of its own, at least as large; it is told a window only if it said that *)
(* it can limit its own.  The server keeps a window only if it did not say *)
(* otherwise, and no larger one than the answer says or, in the extension  *)
(* of webkit, the client demands.  That one is smaller than the answer is  *)
(* no misfit: the bit test in Compressor makes every compressor that is a  *)
(* socket's own the one of 3 kB (README, Findings).                        *)
StreamsFit ==
  stream.enabled =>
    IF ExtensionsParser(offer).extension = WEBKIT
    THEN /\ Says("no_context_takeover") <=> stream.inflates = 0
         /\ stream.inflates # 0 => stream.inflates >= Window("max_window_bits")
         /\ stream.deflates # 0 => ~Asked("no_context_takeover") /\ stream.deflates <= Demanded("max_window_bits")
    ELSE /\ Says("client_no_context_takeover") <=> stream.inflates = 0
         /\ stream.inflates # 0 => stream.inflates >= Window("client_max_window_bits")
         /\ Window("client_max_window_bits") < 15 => Asked("client_max_window_bits")
         /\ Says("server_no_context_takeover") <=> stream.deflates = 0
         /\ stream.deflates <= Window("server_max_window_bits")
=============================================================================
