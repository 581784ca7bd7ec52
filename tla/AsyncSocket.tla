----------------------------- MODULE AsyncSocket -----------------------------
(***************************************************************************)
(* AsyncSocket of the vendored uWebSockets: how a write reaches the        *)
(* kernel.  A loop has one cork buffer, lent to one socket at a time; a    *)
(* socket has its own backpressure; what is left goes to the system call.  *)
(*                                                                         *)
(* The operators take and return the world of one event loop, a record     *)
(* with at least                                                           *)
(*   loop    the LoopData: corked, the socket that holds the cork or       *)
(*           NoSocket; cork, what the cork buffer holds (corkOffset is its *)
(*           length); dead, set where the library calls std::terminate;    *)
(*   socket  per socket: buffer and pendingRemoval (BackPressure), wire,   *)
(*           what the kernel accepted, closed, shut (FIN sent) and polling *)
(*           (asked to be told when writable);                             *)
(*   kernel  how much each coming system call of this handler accepts, at  *)
(*           most; calls beyond the script accept everything.              *)
(* Bytes are tokens.  uSockets is not in the repository: Accept, Shutdown  *)
(* and Polls are what AsyncSocket relies on.                               *)
(***************************************************************************)
EXTENDS Integers, Sequences

CONSTANTS
  NoSocket,          \* no socket: a null corkedSocket
  CORK_BUFFER_SIZE,  \* LoopData::CORK_BUFFER_SIZE, 16 K in the code
  EraseShift         \* 5 in BackPressure::erase

ASSUME SizesAreNatural == CORK_BUFFER_SIZE \in Nat /\ EraseShift \in Nat

NewSocket ==
  [buffer |-> << >>, pendingRemoval |-> 0, wire |-> << >>,
   closed |-> FALSE, shut |-> FALSE, polling |-> FALSE]

NewLoop == [corked |-> NoSocket, cork |-> << >>, dead |-> FALSE]

Least(m, n) == IF m < n THEN m ELSE n
From(q, n) == SubSeq(q, n + 1, Len(q))

-----------------------------------------------------------------------------
(* BackPressure: removed bytes stay in front until they are worth erasing. *)

Buffered(x, s) == From(x.socket[s].buffer, x.socket[s].pendingRemoval)

Append1(x, s, data) == [x EXCEPT !.socket[s].buffer = @ \o data]

(* Mutant: the bytes are erased and pendingRemoval is left as it was. *)
EraseTwice(x, s, n) ==
  LET b == x.socket[s]
      gone == b.pendingRemoval + n
  IN  [x EXCEPT !.socket[s] =
         IF gone > Len(b.buffer) \div 2^EraseShift
         THEN [b EXCEPT !.buffer = From(@, gone)]
         ELSE [b EXCEPT !.pendingRemoval = gone]]

Erase(x, s, n) ==
  LET b == x.socket[s]
      gone == b.pendingRemoval + n
  IN  [x EXCEPT !.socket[s] =
         IF gone > Len(b.buffer) \div 2^EraseShift
         THEN [b EXCEPT !.buffer = From(@, gone), !.pendingRemoval = 0]
         ELSE [b EXCEPT !.pendingRemoval = gone]]

Clear(x, s) ==
  [x EXCEPT !.socket[s].buffer = << >>, !.socket[s].pendingRemoval = 0]

BufferedAmount(x, s) == Len(x.socket[s].buffer)

-----------------------------------------------------------------------------
(* us_socket_write: a prefix is accepted, and whoever is told less than    *)
(* everything will be told when the socket is writable again.              *)

Accept(x, s, data) ==
  LET open == ~x.socket[s].closed /\ ~x.socket[s].shut
      n == IF ~open THEN 0
           ELSE IF x.kernel = << >> THEN Len(data)
           ELSE Least(Head(x.kernel), Len(data))
  IN  [n |-> n,
       x |-> [x EXCEPT
         !.kernel = IF open /\ @ # << >> THEN Tail(@) ELSE @,
         !.socket[s].wire = @ \o SubSeq(data, 1, n),
         !.socket[s].polling = @ \/ (open /\ n < Len(data))]]

Shutdown(x, s) == [x EXCEPT !.socket[s].shut = @ \/ ~x.socket[s].closed]

-----------------------------------------------------------------------------

IsCorked(x, s) == x.loop.corked = s
CanCork(x) == x.loop.corked = NoSocket

(* The cork of a loop is lent to one socket at a time. *)
Cork(x, s) ==
  IF x.loop.cork # << >> /\ ~IsCorked(x, s)
  THEN [x EXCEPT !.loop.dead = TRUE]
  ELSE [x EXCEPT !.loop.corked = s]

UncorkWithoutSending(x, s) ==
  IF IsCorked(x, s) THEN [x EXCEPT !.loop.corked = NoSocket] ELSE x

Wrote(x, n, failed) == [x |-> x, written |-> n, failed |-> failed]

(* write sends the backpressure first; behind what is left of it, new      *)
(* bytes can only wait.                                                    *)
Unsent(put, s, all) ==
  IF put.n < Len(all) THEN [x |-> Erase(put.x, s, put.n), empty |-> FALSE]
  ELSE [x |-> Clear(put.x, s), empty |-> TRUE]

SendBackpressure(x, s) ==
  IF Buffered(x, s) = << >> THEN [x |-> x, empty |-> TRUE]
  ELSE Unsent(Accept(x, s, Buffered(x, s)), s, Buffered(x, s))

Behind(x, s, src, optionally) ==
  IF optionally THEN Wrote(x, 0, TRUE) ELSE Wrote(Append1(x, s, src), Len(src), TRUE)

Direct(put, s, src, optionally) ==
  IF put.n = Len(src) THEN Wrote(put.x, Len(src), FALSE)
  ELSE IF optionally THEN Wrote(put.x, put.n, TRUE)
  ELSE Wrote(Append1(put.x, s, From(src, put.n)), Len(src), TRUE)

(* What write does when the socket does not hold the cork, as is the case   *)
(* whenever uncork calls it: uncork gives the cork back first.              *)
PastCork(sent, s, src, optionally) ==
  IF ~sent.empty THEN Behind(sent.x, s, src, optionally)
  ELSE IF src = << >> THEN Wrote(sent.x, 0, FALSE)
  ELSE Direct(Accept(sent.x, s, src), s, src, optionally)

WriteUncorked(x, s, src, optionally) ==
  IF x.socket[s].closed THEN Wrote(x, Len(src), FALSE)
  ELSE PastCork(SendBackpressure(x, s), s, src, optionally)

(* uncork: the corked bytes go out, or into the backpressure; the passed   *)
(* ones follow only if that worked, and are not written anywhere if not.   *)
Flush(x, s) ==
  LET free == [x EXCEPT !.loop.corked = NoSocket, !.loop.cork = << >>]
  IN  IF x.loop.cork = << >> THEN Wrote(free, 0, FALSE)
      ELSE WriteUncorked(free, s, x.loop.cork, FALSE)

Follow(flushed, s, src, optionally) ==
  IF flushed.failed THEN Wrote(flushed.x, 0, TRUE)
  ELSE WriteUncorked(flushed.x, s, src, optionally)

Uncork(x, s, src, optionally) ==
  IF IsCorked(x, s) THEN Follow(Flush(x, s), s, src, optionally) ELSE Wrote(x, 0, FALSE)

IntoCork(x, s, src, optionally) ==
  IF CORK_BUFFER_SIZE - Len(x.loop.cork) >= Len(src)
  THEN Wrote([x EXCEPT !.loop.cork = @ \o src], Len(src), FALSE)
  ELSE Uncork(x, s, src, optionally)

WriteBehind(sent, s, src, optionally) ==
  IF sent.empty /\ src # << >> /\ IsCorked(sent.x, s)
  THEN IntoCork(sent.x, s, src, optionally)
  ELSE PastCork(sent, s, src, optionally)

Write(x, s, src, optionally) ==
  IF x.socket[s].closed THEN Wrote(x, Len(src), FALSE)
  ELSE WriteBehind(SendBackpressure(x, s), s, src, optionally)

(* getSendBuffer, with the frame its caller then formats into the buffer.  *)
GetSendBuffer(x, s, frame) ==
  LET corked == Cork(x, s)
      mine == IF IsCorked(x, s) THEN x.loop.cork ELSE << >>
      moved == [x EXCEPT !.loop.cork = IF IsCorked(x, s) THEN << >> ELSE @]
      fits == /\ Buffered(x, s) = << >>
              /\ IsCorked(x, s) \/ CanCork(x)
              /\ Len(x.loop.cork) + Len(frame) < CORK_BUFFER_SIZE
  IN  IF ~fits THEN [x |-> Append1(moved, s, mine \o frame), needs |-> "drain"]
      ELSE IF IsCorked(x, s)
           THEN [x |-> [x EXCEPT !.loop.cork = @ \o frame], needs |-> "nothing"]
      ELSE [x |-> [corked EXCEPT !.loop.cork = @ \o frame], needs |-> "uncork"]

(* What the peer has received or will: in the order of the calls.          *)
Stream(x, s) ==
  x.socket[s].wire \o Buffered(x, s) \o
  (IF IsCorked(x, s) THEN x.loop.cork ELSE << >>)
==============================================================================
