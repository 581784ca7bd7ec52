----------------------------- MODULE PubSubProofs -----------------------------
(***************************************************************************)
(* What one loop of the vendored uWebSockets keeps true between any two    *)
(* calls of the library, proved for every set of sockets and topics, every *)
(* kernel and all limits.                                                  *)
(*                                                                         *)
(* The calls take a world to a world, so the lemmas speak of those: first  *)
(* what each may be (Worlds), then what the writes of one socket change    *)
(* (Sent), its messages (Messaged), the drain of its batch (Touched) and   *)
(* the calls that concern several sockets (Kept).  Good is what holds      *)
(* between two calls; IInv says it of the state.                           *)
(***************************************************************************)
EXTENDS PubSub, RangeLemmas, FiniteSetTheorems

-----------------------------------------------------------------------------
(* The worlds. *)

Messages == [id : Nat, op : {"data", "ping", "close"}, len : Nat]
Tokens == Messages \X Nat

(* What is removed from the front of the backpressure was there. *)
SocketData ==
  {k \in [buffer : Seq(Tokens), pendingRemoval : Nat, wire : Seq(Tokens),
          closed : BOOLEAN, shut : BOOLEAN, polling : BOOLEAN] :
     k.pendingRemoval <= Len(k.buffer)}

(* The cork fits, and what is in it is somebody's. *)
CorkFits(h, c) ==
  /\ h \in Sockets \cup {NoSocket}
  /\ c \in Seq(Tokens)
  /\ Len(c) <= CORK_BUFFER_SIZE
  /\ c # << >> => h # NoSocket

LoopData ==
  {l \in [corked : Sockets \cup {NoSocket}, cork : Seq(Tokens), dead : BOOLEAN] :
     CorkFits(l.corked, l.cork)}

TreeData ==
  [topics : [Topics -> SUBSET Sockets], indices : [Sockets -> Seq(Nat)],
   drainable : Seq(Sockets), palette : Seq(Messages),
   iterating : Sockets \cup {NoSocket}, needsUncork : BOOLEAN]

WsData ==
  [subscriber : BOOLEAN, isShuttingDown : BOOLEAN, hasTimedOut : BOOLEAN,
   closes : Nat, readShut : BOOLEAN, owed : Seq(Nat), lossy : BOOLEAN]

(* The worlds the calls start from and end in. *)
Worlds ==
  [loop : LoopData, socket : [Sockets -> SocketData], tree : TreeData,
   ws : [Sockets -> WsData], kernel : Seq(Nat)]

(* A world with one part of it replaced. *)
WithSocket(x, s, k) == [x EXCEPT !.socket[s] = k]
WithLoop(x, l) == [x EXCEPT !.loop = l]
WithTree(x, r) == [x EXCEPT !.tree = r]
WithWs(x, s, k) == [x EXCEPT !.ws[s] = k]
WithBuffer(k, b, n) == [k EXCEPT !.buffer = b, !.pendingRemoval = n]

(* The record of one socket replaced. *)
LEMMA SocketPut ==
  ASSUME NEW x \in Worlds, NEW s \in Sockets, NEW k \in SocketData
  PROVE  LET y == WithSocket(x, s, k)
         IN  /\ y \in Worlds
             /\ y.loop = x.loop /\ y.tree = x.tree /\ y.ws = x.ws /\ y.kernel = x.kernel
             /\ y.socket[s] = k
             /\ \A u \in Sockets \ {s} : y.socket[u] = x.socket[u]
<1> DEFINE y == WithSocket(x, s, k)
           f == [x.socket EXCEPT ![s] = k]
<1>1. f \in [Sockets -> SocketData] /\ f[s] = k /\ \A u \in Sockets \ {s} : f[u] = x.socket[u]
  BY DEF Worlds
<1>2. y = [x EXCEPT !.socket = f]
  BY DEF Worlds, WithSocket
<1>3. y.loop = x.loop /\ y.tree = x.tree /\ y.ws = x.ws /\ y.kernel = x.kernel /\ y.socket = f
  BY <1>2 DEF Worlds
<1> HIDE DEF f
<1>4. y \in Worlds
  BY <1>1, <1>2 DEF Worlds
<1> QED
  BY <1>1, <1>3, <1>4

(* The loop's data replaced. *)
LEMMA LoopPut ==
  ASSUME NEW x \in Worlds, NEW l \in LoopData
  PROVE  LET y == WithLoop(x, l)
         IN  /\ y \in Worlds
             /\ y.loop = l /\ y.tree = x.tree /\ y.ws = x.ws
             /\ y.kernel = x.kernel /\ y.socket = x.socket
  BY DEF Worlds, WithLoop

(* The topic tree replaced. *)
LEMMA TreePut ==
  ASSUME NEW x \in Worlds, NEW r \in TreeData
  PROVE  LET y == WithTree(x, r)
         IN  /\ y \in Worlds
             /\ y.loop = x.loop /\ y.tree = r /\ y.ws = x.ws
             /\ y.kernel = x.kernel /\ y.socket = x.socket
  BY DEF Worlds, WithTree

(* The data of one WebSocket replaced. *)
LEMMA WsPut ==
  ASSUME NEW x \in Worlds, NEW s \in Sockets, NEW k \in WsData
  PROVE  LET y == WithWs(x, s, k)
         IN  /\ y \in Worlds
             /\ y.loop = x.loop /\ y.tree = x.tree /\ y.socket = x.socket /\ y.kernel = x.kernel
             /\ y.ws[s] = k
             /\ \A u \in Sockets \ {s} : y.ws[u] = x.ws[u]
<1> DEFINE y == WithWs(x, s, k)
           f == [x.ws EXCEPT ![s] = k]
<1>1. f \in [Sockets -> WsData] /\ f[s] = k /\ \A u \in Sockets \ {s} : f[u] = x.ws[u]
  BY DEF Worlds
<1>2. y = [x EXCEPT !.ws = f]
  BY DEF Worlds, WithWs
<1>3. y.loop = x.loop /\ y.tree = x.tree /\ y.socket = x.socket /\ y.kernel = x.kernel /\ y.ws = f
  BY <1>2 DEF Worlds
<1> HIDE DEF f
<1>4. y \in Worlds
  BY <1>1, <1>2 DEF Worlds
<1> QED
  BY <1>1, <1>3, <1>4

-----------------------------------------------------------------------------
(* AsyncSocket. *)

(* What a write on s may change: its backpressure, the script of the kernel *)
(* and the cork; the lemmas say what happens to the cork.                   *)
Sent(x, y, s) ==
  /\ y \in Worlds
  /\ y.tree = x.tree
  /\ y.ws = x.ws
  /\ \A u \in Sockets \ {s} : y.socket[u] = x.socket[u]
  /\ y.socket[s].closed = x.socket[s].closed
  /\ y.socket[s].shut = x.socket[s].shut
  /\ y.loop.dead = x.loop.dead

(* One write after the other. *)
LEMMA SentTwice ==
  ASSUME NEW x, NEW y, NEW z, NEW s \in Sockets, Sent(x, y, s), Sent(y, z, s)
  PROVE  Sent(x, z, s)
  BY DEF Sent

(* A socket with another backpressure. *)
LEMMA OtherBuffer ==
  ASSUME NEW k \in SocketData, NEW b \in Seq(Tokens), NEW n \in 0..Len(b)
  PROVE  LET r == WithBuffer(k, b, n)
         IN  /\ r \in SocketData
             /\ r.buffer = b /\ r.pendingRemoval = n
             /\ r.closed = k.closed /\ r.shut = k.shut
<1> DEFINE r == WithBuffer(k, b, n)
           R == [buffer : Seq(Tokens), pendingRemoval : Nat, wire : Seq(Tokens),
                 closed : BOOLEAN, shut : BOOLEAN, polling : BOOLEAN]
<1>1. k \in R
  BY DEF SocketData
<1>2. n \in Nat /\ n <= Len(b)
  OBVIOUS
<1>3. r \in R
  BY <1>1, <1>2 DEF WithBuffer
<1>4. r.buffer = b /\ r.pendingRemoval = n /\ r.closed = k.closed /\ r.shut = k.shut
  BY <1>1 DEF WithBuffer
<1>5. r.pendingRemoval <= Len(r.buffer)
  BY <1>2, <1>4
<1> HIDE DEF r
<1>6. r \in SocketData
  BY <1>3, <1>5 DEF SocketData
<1> QED
  BY <1>4, <1>6 DEF r

(* A world with another backpressure of one socket. *)
LEMMA BufferPut ==
  ASSUME NEW x \in Worlds, NEW s \in Sockets, NEW b \in Seq(Tokens), NEW n \in 0..Len(b)
  PROVE  LET y == WithSocket(x, s, WithBuffer(x.socket[s], b, n))
         IN  /\ Sent(x, y, s)
             /\ y.loop = x.loop
             /\ y.socket[s].buffer = b
             /\ y.socket[s].pendingRemoval = n
<1>1. x.socket[s] \in SocketData
  BY DEF Worlds
<1> DEFINE k == WithBuffer(x.socket[s], b, n)
<1>2. /\ k \in SocketData
      /\ k.buffer = b /\ k.pendingRemoval = n
      /\ k.closed = x.socket[s].closed /\ k.shut = x.socket[s].shut
  BY <1>1, OtherBuffer
<1> HIDE DEF k
<1> DEFINE y == WithSocket(x, s, k)
<1>3. /\ y \in Worlds
      /\ y.loop = x.loop /\ y.tree = x.tree /\ y.ws = x.ws /\ y.kernel = x.kernel
      /\ y.socket[s] = k
      /\ \A u \in Sockets \ {s} : y.socket[u] = x.socket[u]
  BY <1>2, SocketPut
<1> HIDE DEF y
<1>4. Sent(x, y, s) /\ y.loop = x.loop /\ y.socket[s].buffer = b /\ y.socket[s].pendingRemoval = n
  BY <1>2, <1>3 DEF Sent
<1> QED
  BY <1>4 DEF y, k

(* Its length, and that it is empty when as much is removed as there is. *)
LEMMA BufferedIs ==
  ASSUME NEW x \in Worlds, NEW s \in Sockets
  PROVE  /\ x.socket[s].buffer \in Seq(Tokens)
         /\ x.socket[s].pendingRemoval \in 0..Len(x.socket[s].buffer)
         /\ Buffered(x, s) \in Seq(Tokens)
         /\ Len(Buffered(x, s)) = Len(x.socket[s].buffer) - x.socket[s].pendingRemoval
         /\ BufferedAmount(x, s) = Len(x.socket[s].buffer)
<1> DEFINE b == x.socket[s].buffer
           n == x.socket[s].pendingRemoval
<1>1. x.socket[s] \in SocketData
  BY DEF Worlds
<1>2. b \in Seq(Tokens) /\ n \in Nat /\ n <= Len(b) /\ Len(b) \in Nat
  BY <1>1 DEF SocketData
<1> HIDE DEF b, n
<1>3. \A i \in n + 1..Len(b) : b[i] \in Tokens
  BY <1>2
<1>4. From(b, n) \in Seq(Tokens) /\ Len(From(b, n)) = Len(b) - n
  BY <1>2, <1>3, SubSeqProperties DEF From
<1> QED
  BY <1>2, <1>4 DEF b, n, Buffered, BufferedAmount

(* Bytes behind the backpressure. *)
LEMMA Appended ==
  ASSUME NEW x \in Worlds, NEW s \in Sockets, NEW data \in Seq(Tokens)
  PROVE  Sent(x, Append1(x, s, data), s) /\ Append1(x, s, data).loop = x.loop
<1> DEFINE b == x.socket[s].buffer \o data
           n == x.socket[s].pendingRemoval
<1>1. b \in Seq(Tokens) /\ n \in 0..Len(b)
  BY BufferedIs, ConcatProperties
<1>2. x.socket[s] \in SocketData
  BY DEF Worlds
<1>3. WithBuffer(x.socket[s], b, n) = [x.socket[s] EXCEPT !.buffer = b]
  BY <1>2 DEF SocketData, WithBuffer
<1>4. Append1(x, s, data) = [x EXCEPT !.socket[s] = [x.socket[s] EXCEPT !.buffer = b]]
  BY DEF Append1, Worlds
<1> HIDE DEF b, n
<1>5. Append1(x, s, data) = WithSocket(x, s, WithBuffer(x.socket[s], b, n))
  BY <1>3, <1>4 DEF WithSocket
<1> QED
  BY <1>1, <1>5, BufferPut

(* Bytes taken from the front of the backpressure. *)
LEMMA Erased ==
  ASSUME NEW x \in Worlds, NEW s \in Sockets, NEW n \in 0..Len(Buffered(x, s))
  PROVE  Sent(x, Erase(x, s, n), s) /\ Erase(x, s, n).loop = x.loop
<1> DEFINE b == x.socket[s].buffer
           gone == x.socket[s].pendingRemoval + n
           c == From(b, gone)
<1>1. b \in Seq(Tokens) /\ gone \in 0..Len(b)
  BY BufferedIs
<1>2. x.socket[s] \in SocketData
  BY DEF Worlds
<1>3. c \in Seq(Tokens) /\ 0 \in 0..Len(c)
  <2> HIDE DEF b, gone
  <2>1. \A i \in gone + 1..Len(b) : b[i] \in Tokens
    BY <1>1
  <2> QED
    BY <1>1, <2>1, SubSeqProperties DEF From
<1>4. [x.socket[s] EXCEPT !.pendingRemoval = gone] = WithBuffer(x.socket[s], b, gone)
  BY <1>2 DEF SocketData, WithBuffer
<1>5. [x.socket[s] EXCEPT !.buffer = From(@, gone), !.pendingRemoval = 0] = WithBuffer(x.socket[s], c, 0)
  BY DEF WithBuffer
<1> DEFINE y == WithSocket(x, s, WithBuffer(x.socket[s], b, gone))
           z == WithSocket(x, s, WithBuffer(x.socket[s], c, 0))
<1>6. Erase(x, s, n) \in {y, z}
  BY <1>4, <1>5 DEF Erase, WithSocket
<1> HIDE DEF b, gone, c
<1>7. Sent(x, y, s) /\ y.loop = x.loop
  BY <1>1, BufferPut
<1>8. Sent(x, z, s) /\ z.loop = x.loop
  BY <1>3, BufferPut
<1> HIDE DEF y, z
<1> QED
  BY <1>6, <1>7, <1>8

(* No backpressure left. *)
LEMMA Cleared ==
  ASSUME NEW x \in Worlds, NEW s \in Sockets
  PROVE  /\ Sent(x, Clear(x, s), s) /\ Clear(x, s).loop = x.loop
         /\ Buffered(Clear(x, s), s) = << >>
<1> DEFINE e == << >>
           y == WithSocket(x, s, WithBuffer(x.socket[s], e, 0))
<1>1. Clear(x, s) = y
  BY DEF Clear, Worlds, WithSocket, WithBuffer
<1>2. e \in Seq(Tokens) /\ 0 \in 0..Len(e)
  OBVIOUS
<1>4. From(e, 0) = << >>
  BY SubSeqEmpty DEF From
<1> HIDE DEF e
<1>3. Sent(x, y, s) /\ y.loop = x.loop /\ y.socket[s].buffer = e /\ y.socket[s].pendingRemoval = 0
  BY <1>2, BufferPut
<1> HIDE DEF y
<1> QED
  BY <1>1, <1>3, <1>4 DEF Buffered

(* us_socket_write: how much is taken, and that the backpressure stays. *)
LEMMA Accepted ==
  ASSUME NEW x \in Worlds, NEW s \in Sockets, NEW data \in Seq(Tokens)
  PROVE  LET put == Accept(x, s, data)
         IN  /\ Sent(x, put.x, s) /\ put.x.loop = x.loop
             /\ Buffered(put.x, s) = Buffered(x, s)
             /\ put.n \in 0..Len(data)
<1> DEFINE put == Accept(x, s, data)
           k0 == x.socket[s]
           open == ~k0.closed /\ ~k0.shut
           n == put.n
           w == k0.wire \o SubSeq(data, 1, n)
           p == k0.polling \/ (open /\ n < Len(data))
           c == IF open /\ x.kernel # << >> THEN Tail(x.kernel) ELSE x.kernel
           k == [k0 EXCEPT !.wire = w, !.polling = p]
<1>1. k0 \in SocketData /\ x.kernel \in Seq(Nat)
  BY DEF Worlds
<1>2. n \in 0..Len(data)
  <2>1. Len(data) \in Nat
    BY LenProperties
  <2>2. x.kernel # << >> => Head(x.kernel) \in Nat
    BY <1>1
  <2>3. n = IF ~open THEN 0 ELSE IF x.kernel = << >> THEN Len(data) ELSE Least(Head(x.kernel), Len(data))
    BY DEF Accept
  <2> HIDE DEF n
  <2> QED
    BY <2>1, <2>2, <2>3 DEF Least
<1>3. c \in Seq(Nat)
  BY <1>1
<1>4. put.x = [x EXCEPT !.kernel = c, !.socket[s] = k]
  <2>1. put.x = [x EXCEPT !.kernel = c, !.socket[s].wire = w, !.socket[s].polling = p]
    BY DEF Accept
  <2> HIDE DEF put, n, c, w, p
  <2> QED
    BY <2>1 DEF Worlds
<1> HIDE DEF n
<1>5. w \in Seq(Tokens)
  <2>1. k0.wire \in Seq(Tokens)
    BY <1>1 DEF SocketData
  <2>2. \A i \in 1..n : data[i] \in Tokens
    BY <1>2
  <2>3. SubSeq(data, 1, n) \in Seq(Tokens)
    BY <1>2, <2>2, SubSeqProperties
  <2> QED
    BY <2>1, <2>3, ConcatProperties
<1>6. p \in BOOLEAN
  OBVIOUS
<1> HIDE DEF w, p, put, c
<1>7. /\ k \in SocketData
      /\ k.buffer = k0.buffer /\ k.pendingRemoval = k0.pendingRemoval
      /\ k.closed = k0.closed /\ k.shut = k0.shut
  <2> DEFINE R == [buffer : Seq(Tokens), pendingRemoval : Nat, wire : Seq(Tokens),
                   closed : BOOLEAN, shut : BOOLEAN, polling : BOOLEAN]
  <2>1. k0 \in R /\ k0.pendingRemoval <= Len(k0.buffer)
    BY <1>1 DEF SocketData
  <2>2. k \in R
    BY <2>1, <1>5, <1>6
  <2>3. /\ k.buffer = k0.buffer /\ k.pendingRemoval = k0.pendingRemoval
        /\ k.closed = k0.closed /\ k.shut = k0.shut
    BY <2>1
  <2> HIDE DEF k
  <2> QED
    BY <2>1, <2>2, <2>3 DEF SocketData
<1> HIDE DEF k
<1> DEFINE y == [x EXCEPT !.kernel = c]
<1>8. y \in Worlds /\ y.loop = x.loop /\ y.tree = x.tree /\ y.ws = x.ws /\ y.socket = x.socket
  BY <1>3 DEF Worlds
<1>9. put.x = WithSocket(y, s, k)
  BY <1>4 DEF WithSocket, Worlds
<1> HIDE DEF y
<1>10. /\ put.x \in Worlds
       /\ put.x.loop = y.loop /\ put.x.tree = y.tree /\ put.x.ws = y.ws
       /\ put.x.socket[s] = k
       /\ \A u \in Sockets \ {s} : put.x.socket[u] = y.socket[u]
  BY <1>7, <1>8, <1>9, SocketPut
<1> HIDE DEF k0
<1>11. Sent(x, put.x, s) /\ put.x.loop = x.loop
  BY <1>7, <1>8, <1>10 DEF Sent, k0
<1>12. Buffered(put.x, s) = Buffered(x, s)
  BY <1>7, <1>10 DEF Buffered, k0
<1> QED
  BY <1>2, <1>11, <1>12 DEF n, put

(* The start of write: either something is left, or the backpressure is     *)
(* empty.                                                                   *)
LEMMA BackpressureSent ==
  ASSUME NEW x \in Worlds, NEW s \in Sockets
  PROVE  LET sent == SendBackpressure(x, s)
         IN  /\ Sent(x, sent.x, s) /\ sent.x.loop = x.loop
             /\ sent.empty => Buffered(sent.x, s) = << >>
<1> DEFINE all == Buffered(x, s)
           put == Accept(x, s, all)
           sent == SendBackpressure(x, s)
<1>1. all \in Seq(Tokens)
  BY BufferedIs
<1> HIDE DEF all
<1>2. /\ Sent(x, put.x, s) /\ put.x.loop = x.loop
      /\ Buffered(put.x, s) = all
      /\ put.n \in 0..Len(all)
  BY <1>1, Accepted DEF all
<1> HIDE DEF put
<1>3. put.x \in Worlds
  BY <1>2 DEF Sent
<1>4. CASE all = << >>
  <2>1. sent = [x |-> x, empty |-> TRUE]
    BY <1>4 DEF SendBackpressure, all
  <2> QED
    BY <1>4, <2>1 DEF Sent, all
<1>5. CASE all # << >> /\ put.n < Len(all)
  <2>1. sent = [x |-> Erase(put.x, s, put.n), empty |-> FALSE]
    BY <1>5 DEF SendBackpressure, Unsent, all, put
  <2>2. Sent(put.x, Erase(put.x, s, put.n), s) /\ Erase(put.x, s, put.n).loop = put.x.loop
    BY <1>2, <1>3, Erased
  <2> QED
    BY <1>2, <2>1, <2>2, SentTwice
<1>6. CASE all # << >> /\ ~(put.n < Len(all))
  <2>1. sent = [x |-> Clear(put.x, s), empty |-> TRUE]
    BY <1>6 DEF SendBackpressure, Unsent, all, put
  <2>2. /\ Sent(put.x, Clear(put.x, s), s) /\ Clear(put.x, s).loop = put.x.loop
        /\ Buffered(Clear(put.x, s), s) = << >>
    BY <1>3, Cleared
  <2> QED
    BY <1>2, <2>1, <2>2, SentTwice
<1> QED
  BY <1>4, <1>5, <1>6

(* The rest of write, where the cork is not used: unless it fails, nothing  *)
(* is left behind.                                                          *)
LEMMA PastCorkSent ==
  ASSUME NEW x \in Worlds, NEW s \in Sockets, NEW src \in Seq(Tokens), NEW optionally \in BOOLEAN,
         NEW sent, Sent(x, sent.x, s), sent.x.loop = x.loop,
         sent.empty => Buffered(sent.x, s) = << >>
  PROVE  LET r == PastCork(sent, s, src, optionally)
         IN  /\ Sent(x, r.x, s) /\ r.x.loop = x.loop
             /\ ~r.failed => Buffered(r.x, s) = << >>
<1> DEFINE r == PastCork(sent, s, src, optionally)
           put == Accept(sent.x, s, src)
           tail == From(src, put.n)
<1>1. sent.x \in Worlds
  BY DEF Sent
<1>2. /\ Sent(sent.x, put.x, s) /\ put.x.loop = sent.x.loop
      /\ Buffered(put.x, s) = Buffered(sent.x, s)
      /\ put.n \in 0..Len(src)
  BY <1>1, Accepted
<1> HIDE DEF put
<1>3. put.x \in Worlds /\ Sent(x, put.x, s) /\ put.x.loop = x.loop
  BY <1>2, SentTwice DEF Sent
<1>4. tail \in Seq(Tokens)
  <2>1. \A i \in put.n + 1..Len(src) : src[i] \in Tokens
    BY <1>2
  <2> QED
    BY <1>2, <2>1, SubSeqProperties DEF From
<1> HIDE DEF tail
<1>5. /\ Sent(x, Append1(sent.x, s, src), s)
      /\ Append1(sent.x, s, src).loop = x.loop
  BY <1>1, Appended, SentTwice
<1>6. /\ Sent(x, Append1(put.x, s, tail), s)
      /\ Append1(put.x, s, tail).loop = x.loop
  BY <1>3, <1>4, Appended, SentTwice
<1>7. CASE ~sent.empty
  <2>1. r \in {Wrote(sent.x, 0, TRUE), Wrote(Append1(sent.x, s, src), Len(src), TRUE)}
    BY <1>7 DEF PastCork, Behind
  <2> HIDE DEF r
  <2>2. r.x \in {sent.x, Append1(sent.x, s, src)} /\ r.failed
    BY <2>1 DEF Wrote
  <2>3. Sent(x, r.x, s) /\ r.x.loop = x.loop
    BY <1>5, <2>2
  <2> QED
    BY <2>2, <2>3 DEF r
<1>8. CASE sent.empty /\ src = << >>
  <2>1. r = Wrote(sent.x, 0, FALSE)
    BY <1>8 DEF PastCork
  <2> QED
    BY <1>8, <2>1 DEF Wrote
<1>9. CASE sent.empty /\ src # << >> /\ put.n = Len(src)
  <2>1. r = Wrote(put.x, Len(src), FALSE)
    BY <1>9 DEF PastCork, Direct, put
  <2> QED
    BY <1>2, <1>3, <1>9, <2>1 DEF Wrote
<1>10. CASE sent.empty /\ src # << >> /\ put.n # Len(src)
  <2>1. r \in {Wrote(put.x, put.n, TRUE), Wrote(Append1(put.x, s, tail), Len(src), TRUE)}
    BY <1>10 DEF PastCork, Direct, put, tail
  <2> HIDE DEF r
  <2>2. r.x \in {put.x, Append1(put.x, s, tail)} /\ r.failed
    BY <2>1 DEF Wrote
  <2>3. Sent(x, r.x, s) /\ r.x.loop = x.loop
    BY <1>3, <1>6, <2>2
  <2> QED
    BY <2>2, <2>3 DEF r
<1> QED
  BY <1>7, <1>8, <1>9, <1>10

(* write where the cork is free or somebody else's.                         *)
LEMMA UncorkedWritten ==
  ASSUME NEW x \in Worlds, NEW s \in Sockets, NEW src \in Seq(Tokens), NEW optionally \in BOOLEAN
  PROVE  LET r == WriteUncorked(x, s, src, optionally)
         IN  /\ Sent(x, r.x, s) /\ r.x.loop = x.loop
             /\ ~r.failed /\ ~x.socket[s].closed => Buffered(r.x, s) = << >>
<1> DEFINE sent == SendBackpressure(x, s)
<1>1. /\ Sent(x, sent.x, s) /\ sent.x.loop = x.loop
      /\ sent.empty => Buffered(sent.x, s) = << >>
  BY BackpressureSent
<1>2. CASE x.socket[s].closed
  BY <1>2 DEF WriteUncorked, Wrote, Sent
<1>3. CASE ~x.socket[s].closed
  <2>1. WriteUncorked(x, s, src, optionally) = PastCork(sent, s, src, optionally)
    BY <1>3 DEF WriteUncorked
  <2> HIDE DEF sent
  <2> QED
    BY <1>1, <2>1, PastCorkSent
<1> QED
  BY <1>2, <1>3

(* Nobody gets the cork who did not have it.                                *)
Released(x, y) == y.loop.corked \in {x.loop.corked, NoSocket}

(* A world with another cork. *)
WithCork(x, h, c) == [x EXCEPT !.loop = [x.loop EXCEPT !.corked = h, !.cork = c]]

(* The cork of the loop replaced.                                           *)
LEMMA CorkPut ==
  ASSUME NEW x \in Worlds, NEW s \in Sockets, NEW h, NEW c, CorkFits(h, c)
  PROVE  LET y == WithCork(x, h, c)
         IN  /\ Sent(x, y, s)
             /\ y.loop.corked = h /\ y.loop.cork = c /\ y.loop.dead = x.loop.dead
             /\ y.socket = x.socket
<1> DEFINE L == [corked : Sockets \cup {NoSocket}, cork : Seq(Tokens), dead : BOOLEAN]
           l == [x.loop EXCEPT !.corked = h, !.cork = c]
           y == WithLoop(x, l)
<1>1. x.loop \in L
  BY DEF Worlds, LoopData
<1>2. l \in L
  BY <1>1 DEF CorkFits
<1>3. l.corked = h /\ l.cork = c /\ l.dead = x.loop.dead
  BY <1>1
<1> HIDE DEF l
<1>4. l \in LoopData
  BY <1>2, <1>3 DEF LoopData
<1>5. /\ y \in Worlds
      /\ y.loop = l /\ y.tree = x.tree /\ y.ws = x.ws /\ y.socket = x.socket
  BY <1>4, LoopPut
<1>6. y = WithCork(x, h, c)
  BY DEF WithLoop, WithCork, l
<1> HIDE DEF y
<1> QED
  BY <1>3, <1>5, <1>6 DEF Sent

(* The cork of a world. *)
LEMMA CorkIs ==
  ASSUME NEW x \in Worlds
  PROVE  /\ x.loop.corked \in Sockets \cup {NoSocket}
         /\ x.loop.cork \in Seq(Tokens)
         /\ Len(x.loop.cork) <= CORK_BUFFER_SIZE
         /\ x.loop.cork # << >> => x.loop.corked # NoSocket
         /\ x.loop.dead \in BOOLEAN
<1>1. x.loop \in LoopData
  BY DEF Worlds
<1> QED
  BY <1>1 DEF LoopData, CorkFits

(* The cork buffer goes out and is free.                                    *)
LEMMA Flushed ==
  ASSUME NEW x \in Worlds, NEW s \in Sockets
  PROVE  LET r == Flush(x, s)
         IN  /\ Sent(x, r.x, s)
             /\ r.x.loop.corked = NoSocket /\ r.x.loop.cork = << >>
<1> DEFINE e == << >>
           free == WithCork(x, NoSocket, e)
           cork == x.loop.cork
           r == WriteUncorked(free, s, cork, FALSE)
<1>1. CorkFits(NoSocket, e)
  BY SizesAreNatural DEF CorkFits
<1>2. Flush(x, s) = IF cork = << >> THEN Wrote(free, 0, FALSE) ELSE r
  <2>1. free = [x EXCEPT !.loop.corked = NoSocket, !.loop.cork = << >>]
    BY DEF WithCork, Worlds
  <2> HIDE DEF free
  <2>2. CASE cork = << >>
    BY <2>1, <2>2 DEF Flush
  <2>3. CASE cork # << >>
    BY <2>1, <2>3 DEF Flush
  <2> QED
    BY <2>2, <2>3
<1> HIDE DEF e
<1>3. Sent(x, free, s) /\ free.loop.corked = NoSocket /\ free.loop.cork = e
  BY <1>1, CorkPut
<1>4. cork \in Seq(Tokens)
  BY CorkIs
<1> HIDE DEF free, cork
<1>5. Sent(free, r.x, s) /\ r.x.loop = free.loop
  <2>1. free \in Worlds
    BY <1>3 DEF Sent
  <2> QED
    BY <1>4, <2>1, UncorkedWritten
<1>6. Sent(x, r.x, s)
  BY <1>3, <1>5, SentTwice
<1> HIDE DEF r
<1> QED
  BY <1>2, <1>3, <1>5, <1>6 DEF Wrote, e

(* uncork: unless it fails, all that s was given is with the kernel.        *)
LEMMA Uncorked ==
  ASSUME NEW x \in Worlds, NEW s \in Sockets, NEW src \in Seq(Tokens), NEW optionally \in BOOLEAN
  PROVE  LET r == Uncork(x, s, src, optionally)
         IN  /\ Sent(x, r.x, s) /\ Released(x, r.x)
             /\ x.loop.corked = s => r.x.loop.corked = NoSocket
             /\ x.loop.corked # s => r.x = x
             /\ x.loop.corked = s /\ ~r.failed /\ ~x.socket[s].closed => Buffered(r.x, s) = << >>
<1> DEFINE f == Flush(x, s)
           r == Uncork(x, s, src, optionally)
<1>1. NoSocket # s
  BY PubSubAssumption
<1>2. /\ Sent(x, f.x, s)
      /\ f.x.loop.corked = NoSocket /\ f.x.loop.cork = << >>
  BY Flushed
<1> HIDE DEF f
<1>3. CASE x.loop.corked # s
  <2>1. r = Wrote(x, 0, FALSE)
    BY <1>3 DEF Uncork, IsCorked
  <2> QED
    BY <1>3, <2>1 DEF Wrote, Sent, Released
<1>4. CASE x.loop.corked = s /\ f.failed
  <2>1. r = Wrote(f.x, 0, TRUE)
    BY <1>4 DEF Uncork, IsCorked, Follow, f
  <2> HIDE DEF r
  <2>2. r.x = f.x /\ r.failed
    BY <2>1 DEF Wrote
  <2> QED
    BY <1>1, <1>2, <1>4, <2>2 DEF Released, r
<1>5. CASE x.loop.corked = s /\ ~f.failed
  <2> DEFINE w == WriteUncorked(f.x, s, src, optionally)
  <2>1. r = w
    BY <1>5 DEF Uncork, IsCorked, Follow, f
  <2>2. f.x \in Worlds /\ f.x.socket[s].closed = x.socket[s].closed
    BY <1>2 DEF Sent
  <2>3. /\ Sent(f.x, w.x, s) /\ w.x.loop = f.x.loop
        /\ ~w.failed /\ ~f.x.socket[s].closed => Buffered(w.x, s) = << >>
    BY <2>2, UncorkedWritten
  <2>4. Sent(x, w.x, s)
    BY <1>2, <2>3, SentTwice
  <2> HIDE DEF r, w
  <2> QED
    BY <1>1, <1>2, <1>5, <2>1, <2>2, <2>3, <2>4 DEF Released, r
<1> QED
  BY <1>3, <1>4, <1>5

(* Into the cork, where there is room, or past it.                          *)
LEMMA IntoCorkSent ==
  ASSUME NEW x \in Worlds, NEW s \in Sockets, NEW src \in Seq(Tokens), NEW optionally \in BOOLEAN,
         x.loop.corked = s, Buffered(x, s) = << >>
  PROVE  LET r == IntoCork(x, s, src, optionally)
         IN  /\ Sent(x, r.x, s) /\ Released(x, r.x)
             /\ ~r.failed /\ ~x.socket[s].closed => Buffered(r.x, s) = << >>
<1> DEFINE cork == x.loop.cork
           both == cork \o src
           u == Uncork(x, s, src, optionally)
           y == WithCork(x, s, both)
<1>1. cork \in Seq(Tokens) /\ Len(cork) \in Nat /\ s # NoSocket
  BY CorkIs, LenProperties, PubSubAssumption
<1>2. both \in Seq(Tokens) /\ Len(both) = Len(cork) + Len(src) /\ Len(src) \in Nat
  BY <1>1, ConcatProperties, LenProperties
<1>3. CASE CORK_BUFFER_SIZE - Len(cork) >= Len(src)
  <2>1. [x EXCEPT !.loop.cork = @ \o src] = y
    BY DEF WithCork, Worlds, LoopData
  <2>2. IntoCork(x, s, src, optionally) = Wrote(y, Len(src), FALSE)
    BY <1>3, <2>1 DEF IntoCork
  <2> HIDE DEF both, cork
  <2>3. CorkFits(s, both)
    BY <1>1, <1>2, <1>3, SizesAreNatural DEF CorkFits
  <2>4. Sent(x, y, s) /\ y.loop.corked = s /\ y.socket = x.socket
    BY <2>3, CorkPut
  <2> HIDE DEF y
  <2>5. Buffered(y, s) = << >>
    BY <2>4 DEF Buffered
  <2> QED
    BY <2>2, <2>4, <2>5 DEF Wrote, Released
<1>4. CASE ~(CORK_BUFFER_SIZE - Len(cork) >= Len(src))
  <2>1. IntoCork(x, s, src, optionally) = u
    BY <1>4 DEF IntoCork
  <2>2. /\ Sent(x, u.x, s) /\ Released(x, u.x)
        /\ ~u.failed /\ ~x.socket[s].closed => Buffered(u.x, s) = << >>
    BY Uncorked
  <2> HIDE DEF u
  <2> QED
    BY <2>1, <2>2
<1> QED
  BY <1>3, <1>4

(* write: as above; where the cork is not used it stays as it is.           *)
LEMMA Written ==
  ASSUME NEW x \in Worlds, NEW s \in Sockets, NEW src \in Seq(Tokens), NEW optionally \in BOOLEAN
  PROVE  LET r == Write(x, s, src, optionally)
         IN  /\ Sent(x, r.x, s) /\ Released(x, r.x)
             /\ ~r.failed /\ ~x.socket[s].closed => Buffered(r.x, s) = << >>
<1> DEFINE sent == SendBackpressure(x, s)
           r == Write(x, s, src, optionally)
<1>1. /\ Sent(x, sent.x, s) /\ sent.x.loop = x.loop
      /\ sent.empty => Buffered(sent.x, s) = << >>
  BY BackpressureSent
<1>2. CASE x.socket[s].closed
  BY <1>2 DEF Write, Wrote, Sent, Released
<1>3. CASE ~x.socket[s].closed /\ sent.empty /\ src # << >> /\ IsCorked(sent.x, s)
  <2> DEFINE i == IntoCork(sent.x, s, src, optionally)
  <2>1. r = i
    BY <1>3 DEF Write, WriteBehind
  <2> HIDE DEF sent
  <2>2. /\ sent.x \in Worlds
        /\ sent.x.loop.corked = s
        /\ sent.x.socket[s].closed = x.socket[s].closed
    BY <1>1, <1>3 DEF Sent, IsCorked
  <2>3. /\ Sent(sent.x, i.x, s) /\ Released(sent.x, i.x)
        /\ ~i.failed /\ ~x.socket[s].closed => Buffered(i.x, s) = << >>
    BY <1>1, <1>3, <2>2, IntoCorkSent
  <2>4. Sent(x, i.x, s)
    BY <1>1, <2>3, SentTwice
  <2> HIDE DEF i, r
  <2> QED
    BY <1>1, <2>1, <2>3, <2>4 DEF Released, r
<1>4. CASE ~x.socket[s].closed /\ ~(sent.empty /\ src # << >> /\ IsCorked(sent.x, s))
  <2> DEFINE p == PastCork(sent, s, src, optionally)
  <2>1. r = p
    BY <1>4 DEF Write, WriteBehind
  <2> HIDE DEF sent
  <2>2. /\ Sent(x, p.x, s) /\ p.x.loop = x.loop
        /\ ~p.failed => Buffered(p.x, s) = << >>
    BY <1>1, PastCorkSent
  <2> HIDE DEF p, r
  <2> QED
    BY <2>1, <2>2 DEF Released, r
<1> QED
  BY <1>2, <1>3, <1>4

(* A frame is a sequence of tokens.                                         *)
LEMMA FrameIs ==
  ASSUME NEW m \in Messages
  PROVE  Frame(m) \in Seq(Tokens) /\ Len(Frame(m)) = m.len + 1
<1>1. m.len \in Nat
  BY DEF Messages
<1>2. \A i \in 1..m.len + 1 : <<m, i>> \in Tokens
  BY <1>1 DEF Tokens
<1> QED
  BY <1>1, <1>2 DEF Frame

(* getSendBuffer: the frame is in the cork, in a cork that was free, or     *)
(* behind the backpressure.                                                 *)
LEMMA SendBufferGot ==
  ASSUME NEW x \in Worlds, NEW s \in Sockets, NEW frame \in Seq(Tokens)
  PROVE  LET got == GetSendBuffer(x, s, frame)
         IN  /\ Sent(x, got.x, s)
             /\ got.needs \in {"drain", "uncork", "nothing"}
             /\ got.needs # "uncork" => got.x.loop.corked = x.loop.corked
             /\ got.needs = "uncork" => x.loop.corked = NoSocket /\ got.x.loop.corked = s
             /\ got.needs = "nothing" => Buffered(got.x, s) = << >>
<1> DEFINE got == GetSendBuffer(x, s, frame)
           h == x.loop.corked
           cork == x.loop.cork
           mine == IF h = s THEN cork ELSE << >>
           rest == IF h = s THEN << >> ELSE cork
           moved == WithCork(x, h, rest)
           longer == cork \o frame
           fits == /\ Buffered(x, s) = << >>
                   /\ IsCorked(x, s) \/ CanCork(x)
                   /\ Len(cork) + Len(frame) < CORK_BUFFER_SIZE
<1>1. /\ s # NoSocket /\ h \in Sockets \cup {NoSocket}
      /\ cork \in Seq(Tokens) /\ Len(cork) \in Nat /\ Len(cork) <= CORK_BUFFER_SIZE
      /\ cork # << >> => h # NoSocket
  BY CorkIs, LenProperties, PubSubAssumption
<1>2. longer \in Seq(Tokens) /\ Len(longer) = Len(cork) + Len(frame) /\ Len(frame) \in Nat
  BY <1>1, ConcatProperties, LenProperties
<1>3. CASE ~fits
  <2>1. [x EXCEPT !.loop.cork = IF IsCorked(x, s) THEN << >> ELSE @] = moved
    BY DEF WithCork, Worlds, LoopData, IsCorked
  <2>2. got = [x |-> Append1(moved, s, mine \o frame), needs |-> "drain"]
    BY <1>3, <2>1 DEF GetSendBuffer, IsCorked
  <2>3. CorkFits(h, rest)
    BY <1>1, SizesAreNatural DEF CorkFits
  <2>4. mine \o frame \in Seq(Tokens)
    BY <1>1, ConcatProperties
  <2> DEFINE more == mine \o frame
  <2> HIDE DEF rest, mine, more
  <2>5. Sent(x, moved, s) /\ moved.loop.corked = h
    BY <2>3, CorkPut
  <2> HIDE DEF moved
  <2> DEFINE y == Append1(moved, s, more)
  <2>6. Sent(moved, y, s) /\ y.loop = moved.loop
    <3>1. moved \in Worlds /\ more \in Seq(Tokens)
      BY <2>4, <2>5 DEF Sent, more
    <3> QED
      BY <3>1, Appended
  <2>7. Sent(x, y, s)
    BY <2>5, <2>6, SentTwice
  <2>8. got = [x |-> y, needs |-> "drain"]
    BY <2>2 DEF more
  <2> HIDE DEF y
  <2> QED
    BY <2>5, <2>6, <2>7, <2>8
<1>4. CASE fits /\ h = s
  <2> DEFINE y == WithCork(x, s, longer)
  <2>1. [x EXCEPT !.loop.cork = @ \o frame] = y
    BY <1>4 DEF WithCork, Worlds, LoopData
  <2>2. got = [x |-> y, needs |-> "nothing"]
    BY <1>4, <2>1 DEF GetSendBuffer, IsCorked
  <2> HIDE DEF longer
  <2>3. CorkFits(s, longer)
    BY <1>1, <1>2, <1>4, SizesAreNatural DEF CorkFits
  <2>4. Sent(x, y, s) /\ y.loop.corked = s /\ y.socket = x.socket
    BY <2>3, CorkPut
  <2> HIDE DEF y
  <2>5. Buffered(y, s) = << >>
    BY <1>4, <2>4 DEF Buffered
  <2> QED
    BY <1>4, <2>2, <2>4, <2>5
<1>5. CASE fits /\ h # s
  <2> DEFINE y == WithCork(x, s, longer)
  <2>1. h = NoSocket /\ cork = << >>
    BY <1>1, <1>5 DEF IsCorked, CanCork
  <2>2. Cork(x, s) = [x EXCEPT !.loop.corked = s]
    BY <2>1 DEF Cork
  <2>3. [Cork(x, s) EXCEPT !.loop.cork = @ \o frame] = y
    BY <2>2 DEF WithCork, Worlds, LoopData
  <2>4. got = [x |-> y, needs |-> "uncork"]
    BY <1>5, <2>3 DEF GetSendBuffer, IsCorked
  <2> HIDE DEF longer
  <2>5. CorkFits(s, longer)
    BY <1>1, <1>2, <1>5, SizesAreNatural DEF CorkFits
  <2>6. Sent(x, y, s) /\ y.loop.corked = s /\ y.socket = x.socket
    BY <2>5, CorkPut
  <2> HIDE DEF y
  <2> QED
    BY <2>1, <2>4, <2>6
<1> QED
  BY <1>3, <1>4, <1>5

-----------------------------------------------------------------------------
(* WebSocketSend. *)

(* The tree is as it was, but for what the drain callback remembers.        *)
SameTree(r, q) ==
  /\ q \in TreeData
  /\ q.topics = r.topics /\ q.indices = r.indices /\ q.drainable = r.drainable
  /\ q.palette = r.palette /\ q.iterating = r.iterating

(* The WebSocket is as it was, but for its timeout and for what a drop does. *)
SameLife(k, r) ==
  /\ r.subscriber = k.subscriber
  /\ r.isShuttingDown = k.isShuttingDown
  /\ r.closes = k.closes
  /\ k.lossy => r.lossy

(* What a message to s may change.                                          *)
Messaged(x, y, s) ==
  /\ y \in Worlds
  /\ SameTree(x.tree, y.tree)
  /\ \A u \in Sockets \ {s} : y.socket[u] = x.socket[u] /\ y.ws[u] = x.ws[u]
  /\ SameLife(x.ws[s], y.ws[s])
  /\ y.socket[s].closed = x.socket[s].closed
  /\ y.socket[s].shut = x.socket[s].shut
  /\ y.loop.dead = x.loop.dead

(* Unless there is backpressure, nothing is left behind or something was    *)
(* dropped.                                                                 *)
Settled(x, r, s) ==
  r.status # "BACKPRESSURE" /\ ~x.socket[s].closed =>
    Buffered(r.x, s) = << >> \/ r.x.ws[s].lossy

(* One message after the other.                                             *)
LEMMA MessagedTwice ==
  ASSUME NEW x, NEW y, NEW z, NEW s \in Sockets, Messaged(x, y, s), Messaged(y, z, s)
  PROVE  Messaged(x, z, s)
<1>1. SameTree(x.tree, z.tree)
  BY DEF Messaged, SameTree
<1>2. SameLife(x.ws[s], z.ws[s])
  BY DEF Messaged, SameLife
<1> QED
  BY <1>1, <1>2 DEF Messaged

(* A write is one of the things a message does.                             *)
LEMMA SentIsMessaged ==
  ASSUME NEW x, NEW y, NEW s \in Sockets, Sent(x, y, s)
  PROVE  Messaged(x, y, s)
<1>1. y.tree \in TreeData
  BY DEF Sent, Worlds
<1> QED
  BY <1>1 DEF Sent, Messaged, SameTree, SameLife

(* And nobody gets the cork in between.                                     *)
LEMMA ReleasedTwice ==
  ASSUME NEW x, NEW y, NEW z, Released(x, y), Released(y, z)
  PROVE  Released(x, z)
  BY DEF Released

(* A frame through the send buffer.                                         *)
LEMMA ShortIsSent ==
  ASSUME NEW x \in Worlds, NEW s \in Sockets, NEW m \in Messages
  PROVE  LET r == SendShort(x, s, m)
         IN  Sent(x, r.x, s) /\ Released(x, r.x) /\ Settled(x, r, s)
<1> DEFINE got == GetSendBuffer(x, s, Frame(m))
           e == << >>
           w == Write(got.x, s, e, FALSE)
           u == Uncork(got.x, s, e, FALSE)
           r == SendShort(x, s, m)
<1>1. /\ Sent(x, got.x, s)
      /\ got.needs \in {"drain", "uncork", "nothing"}
      /\ got.needs # "uncork" => got.x.loop.corked = x.loop.corked
      /\ got.needs = "uncork" => x.loop.corked = NoSocket /\ got.x.loop.corked = s
      /\ got.needs = "nothing" => Buffered(got.x, s) = << >>
  BY FrameIs, SendBufferGot
<1>2. e \in Seq(Tokens)
  OBVIOUS
<1>3. r = ShortSent(SendBuffer(got, s))
  BY DEF SendShort
<1>4. /\ got.needs = "drain" => SendBuffer(got, s) = w
      /\ got.needs = "uncork" => SendBuffer(got, s) = u
      /\ got.needs = "nothing" => SendBuffer(got, s) = Wrote(got.x, 0, FALSE)
  BY DEF SendBuffer
<1> HIDE DEF got, e, r
<1>5. got.x \in Worlds /\ got.x.socket[s].closed = x.socket[s].closed
  BY <1>1 DEF Sent
<1>6. /\ Sent(got.x, w.x, s) /\ Released(got.x, w.x)
      /\ ~w.failed /\ ~x.socket[s].closed => Buffered(w.x, s) = << >>
  BY <1>2, <1>5, Written
<1>7. /\ Sent(got.x, u.x, s)
      /\ got.x.loop.corked = s => u.x.loop.corked = NoSocket
      /\ got.x.loop.corked = s /\ ~u.failed /\ ~x.socket[s].closed => Buffered(u.x, s) = << >>
  BY <1>2, <1>5, Uncorked
<1> HIDE DEF w, u
<1>8. Sent(x, w.x, s) /\ Sent(x, u.x, s)
  BY <1>1, <1>6, <1>7, SentTwice
<1>9. CASE got.needs = "drain"
  <2>1. r.x = w.x /\ (r.status # "BACKPRESSURE" => ~w.failed)
    BY <1>3, <1>4, <1>9 DEF ShortSent
  <2>2. Released(x, w.x)
    BY <1>1, <1>6, <1>9 DEF Released
  <2> QED
    BY <1>6, <1>8, <2>1, <2>2 DEF Settled, r
<1>10. CASE got.needs = "uncork"
  <2>1. r.x = u.x /\ (r.status # "BACKPRESSURE" => ~u.failed)
    BY <1>3, <1>4, <1>10 DEF ShortSent
  <2>2. Released(x, u.x)
    BY <1>1, <1>7, <1>10 DEF Released
  <2> QED
    BY <1>1, <1>7, <1>8, <1>10, <2>1, <2>2 DEF Settled, r
<1>11. CASE got.needs = "nothing"
  <2>1. r.x = got.x
    BY <1>3, <1>4, <1>11 DEF ShortSent, Wrote
  <2>2. Released(x, got.x)
    BY <1>1, <1>11 DEF Released
  <2> QED
    BY <1>1, <1>11, <2>1, <2>2 DEF Settled, r
<1> QED
  BY <1>1, <1>9, <1>10, <1>11

(* The frame by itself, where cork and buffer are empty.                    *)
LEMMA LongIsSent ==
  ASSUME NEW x \in Worlds, NEW s \in Sockets, NEW m \in Messages,
         x.loop.cork = << >>, BufferedAmount(x, s) = 0
  PROVE  LET r == SendLong(x, s, m)
         IN  Sent(x, r.x, s) /\ Released(x, r.x) /\ Settled(x, r, s)
<1> DEFINE frame == Frame(m)
           put == Accept(x, s, frame)
           tail == From(frame, put.n)
           a == Append1(put.x, s, tail)
           y == UncorkWithoutSending(a, s)
           r == SendLong(x, s, m)
<1>1. frame \in Seq(Tokens)
  BY FrameIs
<1>2. r = LongSent(put, s, frame)
  BY DEF SendLong
<1> HIDE DEF frame, r
<1>3. /\ Sent(x, put.x, s) /\ put.x.loop = x.loop
      /\ Buffered(put.x, s) = Buffered(x, s)
      /\ put.n \in 0..Len(frame)
  BY <1>1, Accepted
<1> HIDE DEF put
<1>4. put.x \in Worlds
  BY <1>3 DEF Sent
<1>5. CASE put.n = Len(frame)
  <2>1. r.x = put.x
    BY <1>2, <1>5 DEF LongSent
  <2>2. Len(Buffered(x, s)) = 0 /\ Buffered(x, s) \in Seq(Tokens)
    BY BufferedIs
  <2>3. Buffered(x, s) = << >>
    BY <2>2, EmptySeq
  <2> QED
    BY <1>3, <2>1, <2>3 DEF Released, Settled, r
<1>6. CASE put.n # Len(frame)
  <2>1. tail \in Seq(Tokens)
    <3>1. \A i \in put.n + 1..Len(frame) : frame[i] \in Tokens
      BY <1>1, <1>3
    <3> QED
      BY <1>1, <1>3, <3>1, SubSeqProperties DEF From
  <2> HIDE DEF tail
  <2>2. Sent(put.x, a, s) /\ a.loop = put.x.loop
    BY <1>4, <2>1, Appended
  <2>3. r.x = y /\ r.status = "BACKPRESSURE"
    BY <1>2, <1>6 DEF LongSent, a, tail
  <2> HIDE DEF a
  <2>4. Sent(x, a, s) /\ a.loop = x.loop /\ a \in Worlds
    BY <1>3, <2>2, SentTwice DEF Sent
  <2>5. CASE a.loop.corked # s
    <3>1. y = a
      BY <2>5 DEF UncorkWithoutSending, IsCorked
    <3> QED
      BY <2>3, <2>4, <3>1 DEF Released, Settled, r
  <2>6. CASE a.loop.corked = s
    <3> DEFINE e == << >>
               z == WithCork(a, NoSocket, e)
    <3>1. z = y
      BY <2>4, <2>6 DEF WithCork, UncorkWithoutSending, IsCorked, Worlds, LoopData
    <3>2. CorkFits(NoSocket, e)
      BY SizesAreNatural DEF CorkFits
    <3> HIDE DEF e
    <3>3. Sent(a, z, s) /\ z.loop.corked = NoSocket
      BY <2>4, <3>2, CorkPut
    <3> HIDE DEF z
    <3>4. Sent(x, z, s)
      BY <2>4, <3>3, SentTwice
    <3> QED
      BY <2>3, <3>1, <3>3, <3>4 DEF Released, Settled, r
  <2> QED
    BY <2>5, <2>6
<1> QED
  BY <1>5, <1>6

(* The data of a WebSocket.                                                 *)
LEMMA WsIs ==
  ASSUME NEW x \in Worlds, NEW s \in Sockets
  PROVE  x.ws[s] \in WsData
  BY DEF Worlds

(* A WebSocket replaced by one of the same life.                            *)
LEMMA LifePut ==
  ASSUME NEW x \in Worlds, NEW s \in Sockets, NEW k \in WsData, SameLife(x.ws[s], k)
  PROVE  LET y == WithWs(x, s, k)
         IN  /\ Messaged(x, y, s) /\ y.loop = x.loop /\ y.socket = x.socket
             /\ y.tree = x.tree /\ y.ws[s] = k
<1>1. x.tree \in TreeData
  BY DEF Worlds
<1> QED
  BY <1>1, WsPut DEF Messaged, SameTree

(* A message over the limit of backpressure: the socket counts as lossy.    *)
LEMMA Dropped ==
  ASSUME NEW x \in Worlds, NEW s \in Sockets, NEW m \in Messages
  PROVE  LET y == Drop(x, s, m)
         IN  Messaged(x, y, s) /\ y.loop = x.loop /\ y.tree = x.tree /\ y.ws[s].lossy
<1> DEFINE k0 == x.ws[s]
           b == k0.readShut \/ closeOnBackpressureLimit
           k == [k0 EXCEPT !.lossy = TRUE, !.readShut = b]
<1>1. k0 \in WsData
  BY WsIs
<1>2. b \in BOOLEAN
  BY <1>1, LimitIsSet DEF WsData
<1>3. Drop(x, s, m) = WithWs(x, s, k)
  BY DEF Drop, WithWs, Worlds, WsData
<1> HIDE DEF b
<1>4. k \in WsData
  BY <1>1, <1>2 DEF WsData
<1>5. SameLife(k0, k) /\ k.lossy
  BY <1>1 DEF SameLife, WsData
<1> HIDE DEF k
<1> QED
  BY <1>3, <1>4, <1>5, LifePut

(* send without a drain.                                                    *)
LEMMA SentOrDropped ==
  ASSUME NEW x \in Worlds, NEW s \in Sockets, NEW m \in Messages
  PROVE  LET r == SendOrDrop(x, s, m)
         IN  Messaged(x, r.x, s) /\ Released(x, r.x) /\ r.x.tree = x.tree /\ Settled(x, r, s)
<1> DEFINE d == Drop(x, s, m)
           h == SendShort(x, s, m)
<1>1. Messaged(x, d, s) /\ d.loop = x.loop /\ d.tree = x.tree /\ d.ws[s].lossy
  BY Dropped
<1>2. Sent(x, h.x, s) /\ Released(x, h.x) /\ Settled(x, h, s)
  BY ShortIsSent
<1>3. SendOrDrop(x, s, m) = IF OverLimit(x, s) THEN [x |-> d, status |-> "DROPPED"] ELSE h
  BY DEF SendOrDrop
<1> HIDE DEF d, h
<1>4. CASE OverLimit(x, s)
  BY <1>1, <1>3, <1>4 DEF Released, Settled
<1>5. CASE ~OverLimit(x, s)
  BY <1>2, <1>3, <1>5, SentIsMessaged DEF Sent
<1> QED
  BY <1>4, <1>5

-----------------------------------------------------------------------------
(* The drain of one socket. *)

(* The topic tree of a world.                                               *)
LEMMA TreeIs ==
  ASSUME NEW x \in Worlds
  PROVE  x.tree \in TreeData
  BY DEF Worlds

(* What the callback remembers.                                             *)
LEMMA RememberPut ==
  ASSUME NEW x \in Worlds, NEW s \in Sockets, NEW b \in BOOLEAN
  PROVE  LET y == [x EXCEPT !.tree.needsUncork = b]
         IN  Messaged(x, y, s) /\ y.loop = x.loop /\ y.tree.needsUncork = b
<1> DEFINE r == [x.tree EXCEPT !.needsUncork = b]
           y == WithTree(x, r)
<1>1. x.tree \in TreeData
  BY TreeIs
<1>2. r \in TreeData /\ SameTree(x.tree, r) /\ r.needsUncork = b
  BY <1>1 DEF TreeData, SameTree
<1>3. y = [x EXCEPT !.tree.needsUncork = b]
  BY DEF WithTree, Worlds
<1> HIDE DEF r
<1>4. /\ y \in Worlds
      /\ y.loop = x.loop /\ y.tree = r /\ y.ws = x.ws /\ y.socket = x.socket
  BY <1>2, TreePut
<1> HIDE DEF y
<1> QED
  BY <1>2, <1>3, <1>4 DEF Messaged, SameLife

(* Within a batch for s that found the cork at h: nobody has got the cork   *)
(* but s, and then the callback remembers to give it back.                  *)
Batched(h, y, s) ==
  \/ y.loop.corked \in {h, NoSocket}
  \/ y.loop.corked = s /\ y.tree.needsUncork = TRUE

(* The callback takes a free cork, and remembers that it did.               *)
LEMMA CorkTaken ==
  ASSUME NEW x \in Worlds, NEW s \in Sockets, NEW flags, NEW h, Batched(h, x, s)
  PROVE  LET y == TakesCork(x, s, flags)
         IN  Messaged(x, y, s) /\ Batched(h, y, s)
<1> DEFINE y == TakesCork(x, s, flags)
<1>1. s # NoSocket
  BY PubSubAssumption
<1>2. CASE ~("FIRST" \in flags /\ CanCork(x) /\ ~IsCorked(x, s))
  <2>1. y = x
    BY <1>2 DEF TakesCork
  <2>2. Sent(x, x, s)
    BY DEF Sent
  <2> QED
    BY <2>1, <2>2, SentIsMessaged
<1>3. CASE "FIRST" \in flags /\ CanCork(x) /\ ~IsCorked(x, s)
  <2> DEFINE c == x.loop.cork
             z == WithCork(x, s, c)
             w == [z EXCEPT !.tree.needsUncork = TRUE]
  <2>1. x.loop.corked = NoSocket /\ c = << >>
    BY <1>3, CorkIs DEF CanCork
  <2>2. Cork(x, s) = z
    BY <2>1 DEF Cork, WithCork, Worlds, LoopData
  <2>3. y = w
    BY <1>3, <2>2 DEF TakesCork
  <2>4. CorkFits(s, c)
    BY <1>1, CorkIs DEF CorkFits
  <2> HIDE DEF c
  <2>5. Sent(x, z, s) /\ z.loop.corked = s
    BY <2>4, CorkPut
  <2> HIDE DEF z
  <2>6. z \in Worlds
    BY <2>5 DEF Sent
  <2>7. Messaged(z, w, s) /\ w.loop = z.loop /\ w.tree.needsUncork = TRUE
    BY <2>6, RememberPut
  <2> HIDE DEF w, y
  <2>8. Messaged(x, w, s)
    BY <2>5, <2>7, SentIsMessaged, MessagedTwice
  <2> QED
    BY <2>3, <2>5, <2>7, <2>8 DEF Batched, y
<1> QED
  BY <1>2, <1>3

(* With the last message of the batch it gives back what it took.           *)
LEMMA CorkGiven ==
  ASSUME NEW x \in Worlds, NEW s \in Sockets, NEW h, Batched(h, x, s)
  PROVE  LET y == GivesCork(x, s)
         IN  Messaged(x, y, s) /\ y.loop.corked \in {h, NoSocket}
<1> DEFINE e == << >>
           u == Uncork(x, s, e, FALSE)
           y == GivesCork(x, s)
<1>1. e \in Seq(Tokens)
  OBVIOUS
<1>2. y = IF x.tree.needsUncork THEN u.x ELSE x
  BY DEF GivesCork
<1> HIDE DEF e, y
<1>3. /\ Sent(x, u.x, s)
      /\ x.loop.corked = s => u.x.loop.corked = NoSocket
      /\ x.loop.corked # s => u.x = x
  BY <1>1, Uncorked
<1>4. Sent(x, x, s)
  BY DEF Sent
<1> HIDE DEF u
<1>5. Messaged(x, u.x, s) /\ Messaged(x, x, s)
  BY <1>3, <1>4, SentIsMessaged
<1> QED
  BY <1>2, <1>3, <1>5 DEF Batched, y

(* The drain callback: after the last message, or when it stops the batch,  *)
(* the cork is where it was before the batch, or free.                      *)
LEMMA CalledBack ==
  ASSUME NEW x \in Worlds, NEW s \in Sockets, NEW m \in Messages, NEW flags, NEW h,
         Batched(h, x, s)
  PROVE  LET r == DrainCallback(x, s, m, flags)
         IN  /\ r = [x |-> r.x, stop |-> r.stop] /\ r.stop \in BOOLEAN
             /\ Messaged(x, r.x, s)
             /\ Batched(h, r.x, s)
             /\ r.stop \/ "LAST" \in flags => r.x.loop.corked \in {h, NoSocket}
<1> DEFINE y == TakesCork(x, s, flags)
           sent == SendOrDrop(y, s, m)
           z == sent.x
           g == GivesCork(z, s)
           w == [g EXCEPT !.tree.needsUncork = FALSE]
           r == DrainCallback(x, s, m, flags)
<1>1. Messaged(x, y, s) /\ Batched(h, y, s)
  BY CorkTaken
<1>2. r = AfterSend(sent, s, flags)
  BY DEF DrainCallback
<1> HIDE DEF y, r
<1>3. y \in Worlds
  BY <1>1 DEF Messaged
<1>4. Messaged(y, z, s) /\ Released(y, z) /\ z.tree = y.tree
  BY <1>3, SentOrDropped
<1>5. r = IF sent.status = "DROPPED" THEN [x |-> w, stop |-> TRUE]
          ELSE [x |-> IF "LAST" \in flags THEN g ELSE z, stop |-> FALSE]
  BY <1>2 DEF AfterSend
<1> DEFINE dropped == sent.status = "DROPPED"
<1> HIDE DEF z, sent
<1>6. Messaged(x, z, s) /\ Batched(h, z, s) /\ z \in Worlds
  <2>1. Batched(h, z, s)
    BY <1>1, <1>4 DEF Released, Batched
  <2> QED
    BY <1>1, <1>4, <2>1, MessagedTwice DEF Messaged
<1>7. Messaged(z, g, s) /\ g.loop.corked \in {h, NoSocket}
  BY <1>6, CorkGiven
<1> HIDE DEF g
<1>8. g \in Worlds /\ Messaged(x, g, s)
  BY <1>6, <1>7, MessagedTwice DEF Messaged
<1>9. Messaged(g, w, s) /\ w.loop = g.loop
  BY <1>8, RememberPut
<1>10. Messaged(x, w, s)
  BY <1>8, <1>9, MessagedTwice
<1> HIDE DEF w
<1>11. CASE dropped
  <2>1. r = [x |-> w, stop |-> TRUE]
    BY <1>5, <1>11
  <2> QED
    BY <1>7, <1>9, <1>10, <2>1 DEF Batched, r
<1>12. CASE ~dropped /\ "LAST" \in flags
  <2>1. r = [x |-> g, stop |-> FALSE]
    BY <1>5, <1>12
  <2> QED
    BY <1>7, <1>8, <2>1 DEF Batched, r
<1>13. CASE ~dropped /\ "LAST" \notin flags
  <2>1. r = [x |-> z, stop |-> FALSE]
    BY <1>5, <1>13
  <2> QED
    BY <1>6, <1>13, <2>1 DEF r
<1> QED
  BY <1>11, <1>12, <1>13

-----------------------------------------------------------------------------
(* Folds over sequences. *)

(* The greatest element of a beginning of the numbers.                      *)
LEMMA GreatestIs ==
  ASSUME NEW k \in Nat, NEW s \in SUBSET (1..k + 1), k + 1 \in s
  PROVE  Max(s) = k + 1
<1>1. \A y \in s : k + 1 >= y
  OBVIOUS
<1>2. \A x \in s : (\A y \in s : x >= y) => x = k + 1
  BY <1>1
<1> QED
  BY <1>1, <1>2 DEF Max

(* A set of some of the first numbers has a greatest element.               *)
LEMMA GreatestExists ==
  ASSUME NEW n \in Nat, NEW s \in SUBSET (1..n), s # {}
  PROVE  Max(s) \in s
<1> DEFINE Has(r) == \E m \in r : \A y \in r : m >= y
           S == {k \in 0..n : \A r \in SUBSET (1..k) : r # {} => Has(r)}
<1>1. 0 \in S
  <2>1. \A r \in SUBSET (1..0) : r = {}
    OBVIOUS
  <2> HIDE DEF Has
  <2>2. \A r \in SUBSET (1..0) : r # {} => Has(r)
    BY <2>1
  <2>3. 0 \in 0..n
    OBVIOUS
  <2> QED
    BY <2>2, <2>3
<1>2. ASSUME NEW k \in 0..n - 1, k \in S PROVE k + 1 \in S
  <2>1. ASSUME NEW r \in SUBSET (1..k + 1), r # {} PROVE Has(r)
    <3>1. CASE k + 1 \in r
      BY <3>1
    <3>2. CASE k + 1 \notin r
      <4>1. r \in SUBSET (1..k)
        BY <3>2
      <4> QED
        BY <1>2, <2>1, <4>1
    <3> QED
      BY <3>1, <3>2
  <2>2. k + 1 \in 0..n
    OBVIOUS
  <2> HIDE DEF Has
  <2> QED
    BY <2>1, <2>2
<1>3. n \in S
  <2> HIDE DEF S
  <2>1. \A k \in 0..n - 1 : k \in S => k + 1 \in S
    BY <1>2
  <2>2. n \in 0..n
    OBVIOUS
  <2> QED
    BY <1>1, <2>1, <2>2, RangeInduction
<1>4. \E m \in s : \A y \in s : m >= y
  BY <1>3
<1> QED
  BY <1>4 DEF Max

(* The table that a fold of n steps builds from b on: for each set of steps *)
(* what these make of it, the last of them being F[s].                      *)
IsTable(h, T, F, b, n) ==
  \A s \in SUBSET (1..n) :
    h[s] \in T[s] /\ h[s] = IF s = {} THEN b ELSE F[s][h[s \ {Max(s)}]]

(* Each step leads to where the next one can start.                         *)
StepsStay(T, F, n) ==
  \A s \in SUBSET (1..n) : s # {} => \A a \in T[s \ {Max(s)}] : F[s][a] \in T[s]

(* Where every step can start from what the one before has made, the table  *)
(* of the fold exists.                                                      *)
LEMMA FoldTable ==
  ASSUME NEW n \in Nat, NEW T, NEW F, NEW b \in T[{}], StepsStay(T, F, n)
  PROVE  \E h : IsTable(h, T, F, b, n)
<1> DEFINE S == {k \in 0..n : \E h : IsTable(h, T, F, b, k)}
<1>1. 0 \in S
  <2> DEFINE h == [s \in SUBSET (1..0) |-> b]
  <2>1. SUBSET (1..0) = {{}}
    OBVIOUS
  <2>2. IsTable(h, T, F, b, 0)
    BY <2>1 DEF IsTable
  <2> HIDE DEF h
  <2>3. 0 \in 0..n
    OBVIOUS
  <2> QED
    BY <2>2, <2>3
<1>2. ASSUME NEW k \in 0..n - 1, k \in S PROVE k + 1 \in S
  <2>1. PICK f : IsTable(f, T, F, b, k)
    BY <1>2
  <2> DEFINE g == [s \in SUBSET (1..k + 1) |-> IF k + 1 \in s THEN F[s][f[s \ {k + 1}]] ELSE f[s]]
  <2>2. k \in Nat /\ k + 1 \in 1..n /\ k + 1 \in 0..n
    OBVIOUS
  <2>3. ASSUME NEW s \in SUBSET (1..k + 1)
        PROVE  g[s] \in T[s] /\ g[s] = IF s = {} THEN b ELSE F[s][g[s \ {Max(s)}]]
    <3>1. CASE k + 1 \in s
      <4>1. Max(s) = k + 1
        BY <2>2, <3>1, GreatestIs
      <4> DEFINE r == s \ {k + 1}
      <4>2. r \in SUBSET (1..k) /\ r \in SUBSET (1..k + 1) /\ k + 1 \notin r
        BY <2>2
      <4>3. g[r] = f[r] /\ f[r] \in T[r]
        BY <2>1, <4>2 DEF IsTable
      <4>4. g[s] = F[s][f[r]]
        BY <3>1
      <4>5. s \in SUBSET (1..n) /\ s # {} /\ r = s \ {Max(s)}
        BY <2>2, <3>1, <4>1
      <4> HIDE DEF g, r
      <4>6. F[s][f[r]] \in T[s]
        BY <4>3, <4>5 DEF StepsStay
      <4> QED
        BY <4>3, <4>4, <4>5, <4>6
    <3>2. CASE k + 1 \notin s
      <4>1. s \in SUBSET (1..k)
        <5>1. \A i \in s : i \in 1..k
          BY <2>2, <3>2
        <5> QED
          BY <5>1
      <4>2. g[s] = f[s]
        BY <3>2
      <4>3. f[s] \in T[s] /\ f[s] = IF s = {} THEN b ELSE F[s][f[s \ {Max(s)}]]
        BY <2>1, <4>1 DEF IsTable
      <4> DEFINE r == s \ {Max(s)}
      <4>4. r \in SUBSET (1..k) /\ r \in SUBSET (1..k + 1) /\ k + 1 \notin r
        BY <2>2, <3>2, <4>1
      <4>5. g[r] = f[r]
        BY <4>4
      <4> HIDE DEF g
      <4> QED
        BY <4>2, <4>3, <4>5
    <3> QED
      BY <3>1, <3>2
  <2> HIDE DEF g
  <2>4. IsTable(g, T, F, b, k + 1)
    BY <2>3 DEF IsTable
  <2> QED
    BY <2>2, <2>4
<1> HIDE DEF S
<1>3. n \in S
  <2>1. \A k \in 0..n - 1 : k \in S => k + 1 \in S
    BY <1>2
  <2>2. n \in 0..n
    OBVIOUS
  <2> QED
    BY <1>1, <2>1, <2>2, RangeInduction
<1> QED
  BY <1>3 DEF S

(* What holds along the beginnings of the numbers.                          *)
LEMMA BeginningsInduction ==
  ASSUME NEW n \in Nat, NEW T, NEW g, g[{}] \in T[{}],
         \A s \in SUBSET (1..n) : s # {} /\ g[s \ {Max(s)}] \in T[s \ {Max(s)}] => g[s] \in T[s]
  PROVE  g[1..n] \in T[1..n]
<1> DEFINE S == {k \in 0..n : g[1..k] \in T[1..k]}
<1>1. 0 \in S
  <2>1. 1..0 = {} /\ 0 \in 0..n
    OBVIOUS
  <2> QED
    BY <2>1
<1>2. ASSUME NEW k \in 0..n - 1, k \in S PROVE k + 1 \in S
  <2>1. k \in Nat /\ k + 1 \in 1..k + 1 /\ 1..k + 1 \in SUBSET (1..k + 1) /\ 1..k + 1 \in SUBSET (1..n)
    OBVIOUS
  <2>2. Max(1..k + 1) = k + 1
    BY <2>1, GreatestIs
  <2>3. (1..k + 1) \ {k + 1} = 1..k
    OBVIOUS
  <2>4. g[1..k + 1] \in T[1..k + 1]
    BY <1>2, <2>1, <2>2, <2>3
  <2>5. k + 1 \in 0..n
    OBVIOUS
  <2> QED
    BY <2>4, <2>5
<1> HIDE DEF S
<1>3. n \in S
  <2>1. \A k \in 0..n - 1 : k \in S => k + 1 \in S
    BY <1>2
  <2>2. n \in 0..n
    OBVIOUS
  <2> QED
    BY <1>1, <2>1, <2>2, RangeInduction
<1> QED
  BY <1>3 DEF S

-----------------------------------------------------------------------------
(* drainImpl. *)

(* What the fold over a batch carries.                                      *)
Batches == [x : Worlds, stop : BOOLEAN]

(* The messages of a batch are in the palette.                              *)
InPalette(x, s) ==
  \A i \in 1..Len(x.tree.indices[s]) : x.tree.indices[s][i] < Len(x.tree.palette)

(* The batch of a socket, and the messages it stands for.                   *)
LEMMA ParkedIs ==
  ASSUME NEW x \in Worlds, NEW s \in Sockets, InPalette(x, s)
  PROVE  /\ x.tree.indices[s] \in Seq(Nat) /\ Len(x.tree.indices[s]) \in Nat
         /\ \A i \in 1..Len(x.tree.indices[s]) : x.tree.palette[x.tree.indices[s][i] + 1] \in Messages
<1> DEFINE batch == x.tree.indices[s]
           p == x.tree.palette
<1>1. batch \in Seq(Nat) /\ p \in Seq(Messages)
  BY TreeIs DEF TreeData
<1> SUFFICES /\ Len(batch) \in Nat
             /\ \A i \in 1..Len(batch) : p[batch[i] + 1] \in Messages
  BY <1>1
<1>2. \A i \in 1..Len(batch) : batch[i] < Len(p)
  BY DEF InPalette
<1> HIDE DEF batch, p
<1>3. \A i \in 1..Len(batch) : batch[i] + 1 \in 1..Len(p)
  BY <1>1, <1>2
<1>4. \A j \in 1..Len(p) : p[j] \in Messages
  BY <1>1
<1> QED
  BY <1>1, <1>3, <1>4

Emitted(x, s, acc, i) ==
  IF acc.stop THEN acc
  ELSE DrainCallback(acc.x, s, x.tree.palette[x.tree.indices[s][i] + 1],
                     Flags(i, Len(x.tree.indices[s])))

(* What every step of a batch keeps holds in the end.                       *)
LEMMA EmitFold ==
  ASSUME NEW x, NEW s, Len(x.tree.indices[s]) \in Nat, NEW T,
         [x |-> [x EXCEPT !.tree.indices[s] = << >>], stop |-> FALSE] \in T[{}],
         \A r \in SUBSET (1..Len(x.tree.indices[s])) : r # {} =>
           \A a \in T[r \ {Max(r)}] : Emitted(x, s, a, Max(r)) \in T[r]
  PROVE  \E a \in T[1..Len(x.tree.indices[s])] : DrainImpl(x, s) = a.x
<1> DEFINE n == Len(x.tree.indices[s])
           b == [x |-> [x EXCEPT !.tree.indices[s] = << >>], stop |-> FALSE]
           q == [i \in 1..n |-> i]
           F == [r \in SUBSET (1..n) |-> [a \in T[r \ {Max(r)}] |-> Emitted(x, s, a, Max(r))]]
           Is(h) == h = [r \in SUBSET (1..n) |-> IF r = {} THEN b ELSE Emitted(x, s, h[r \ {Max(r)}], q[Max(r)])]
           g == CHOOSE h : Is(h)
<1>1. StepsStay(T, F, n)
  BY DEF StepsStay
<1>2. \A r \in SUBSET (1..n) : r # {} => q[Max(r)] = Max(r)
  BY GreatestExists
<1>3. \A r \in SUBSET (1..n) : r \ {Max(r)} \in SUBSET (1..n)
  OBVIOUS
<1>4. DrainImpl(x, s) = g[1..n].x
  BY DEF DrainImpl, Emitted, FoldLeft, MapThenFoldSet, Max
<1>9. \A r \in SUBSET (1..n) : r # {} => \A a \in T[r \ {Max(r)}] : Emitted(x, s, a, Max(r)) \in T[r]
  OBVIOUS
<1>10. n \in Nat
  OBVIOUS
<1> HIDE DEF b, q, n
<1>5. \E h : Is(h)
  <2>1. PICK h : IsTable(h, T, F, b, n)
    <3> HIDE DEF F
    <3> QED
      BY <1>1, <1>10, FoldTable DEF b
  <2> DEFINE t == [r \in SUBSET (1..n) |-> h[r]]
  <2>2. t = [r \in SUBSET (1..n) |-> t[r]]
    OBVIOUS
  <2>3. \A r \in SUBSET (1..n) : t[r] = h[r]
    OBVIOUS
  <2> HIDE DEF t
  <2>4. \A r \in SUBSET (1..n) : t[r] = IF r = {} THEN b ELSE Emitted(x, s, t[r \ {Max(r)}], q[Max(r)])
    BY <1>2, <1>3, <2>1, <2>3 DEF IsTable
  <2>5. Is(t)
    BY <2>2, <2>4
  <2> HIDE DEF Is
  <2> QED
    BY <2>5
<1>6. Is(g)
  <2> HIDE DEF Is
  <2> QED
    BY <1>5
<1> HIDE DEF g
<1>7. \A r \in SUBSET (1..n) : g[r] = IF r = {} THEN b ELSE Emitted(x, s, g[r \ {Max(r)}], q[Max(r)])
  BY <1>6
<1> HIDE DEF Is
<1>8. g[1..n] \in T[1..n]
  <2>1. g[{}] \in T[{}]
    BY <1>7 DEF b
  <2>2. \A r \in SUBSET (1..n) : r # {} /\ g[r \ {Max(r)}] \in T[r \ {Max(r)}] => g[r] \in T[r]
    BY <1>2, <1>7, <1>9
  <2> QED
    BY <1>10, <2>1, <2>2, BeginningsInduction
<1> QED
  BY <1>4, <1>8 DEF n

-----------------------------------------------------------------------------
(* The linked list and the readers. *)

(* A set put in an order.                                                   *)
LEMMA OrderedSet ==
  ASSUME NEW S, IsFiniteSet(S)
  PROVE  /\ SetToSeq(S) \in Seq(S) /\ Len(SetToSeq(S)) \in Nat
         /\ DOMAIN SetToSeq(S) = 1..Len(SetToSeq(S))
         /\ IsInjective(SetToSeq(S))
<1> DEFINE n == Cardinality(S)
<1>1. n \in Nat /\ ExistsBijection(1..n, S)
  BY FS_CardinalityType
<1> HIDE DEF n
<1>2. \E f \in [1..n -> S] : IsInjective(f)
  BY <1>1 DEF ExistsBijection, Bijection, Injection
<1> DEFINE q == CHOOSE f \in [1..n -> S] : IsInjective(f)
<1>3. q \in [1..n -> S] /\ IsInjective(q)
  BY <1>2
<1>4. SetToSeq(S) = q
  BY DEF SetToSeq, n
<1> HIDE DEF q
<1>5. q \in Seq(S) /\ Len(q) \in Nat /\ DOMAIN q = 1..Len(q)
  BY <1>1, <1>3
<1> QED
  BY <1>3, <1>4, <1>5

(* One element taken out of a list that has each once.                      *)
LEMMA Unlinked ==
  ASSUME NEW T, NEW q \in Seq(T), IsInjective(q), NEW e
  PROVE  LET r == RemoveFirst(q, e)
         IN  r \in Seq(T) /\ IsInjective(r) /\ Range(r) = Range(q) \ {e}
<1>0. Len(q) \in Nat /\ DOMAIN q = 1..Len(q) /\ \A i \in 1..Len(q) : q[i] \in T
  OBVIOUS
<1>1. CASE ~\E i \in 1..Len(q) : q[i] = e
  <2>1. RemoveFirst(q, e) = q
    BY <1>1 DEF RemoveFirst
  <2>2. e \notin Range(q)
    BY <1>0, <1>1 DEF Range
  <2> QED
    BY <2>1, <2>2
<1>2. CASE \E i \in 1..Len(q) : q[i] = e
  <2>1. PICK k \in 1..Len(q) : q[k] = e
    BY <1>2
  <2>2. \A i \in 1..Len(q) : q[i] = e => i = k
    BY <1>0, <2>1 DEF IsInjective
  <2> DEFINE I == {i \in 1..Len(q) : q[i] = e}
  <2>3. I = {k}
    BY <2>1, <2>2
  <2>4. SelectInSeq(q, LAMBDA v : v = e) = IF I # {} THEN Min(I) ELSE 0
    BY DEF SelectInSeq
  <2>5. Min({k}) = k
    <3>1. \A j \in {k} : (j \in {k} /\ \A y \in {k} : j <= y)
      BY <1>0
    <3> QED
      BY <3>1 DEF Min
  <2>6. SelectInSeq(q, LAMBDA v : v = e) = k
    BY <2>3, <2>4, <2>5
  <2> DEFINE r == SubSeq(q, 1, k - 1) \o SubSeq(q, k + 1, Len(q))
  <2>7. RemoveFirst(q, e) = r
    BY <1>2, <2>6 DEF RemoveFirst, RemoveAt
  <2> DEFINE a == SubSeq(q, 1, k - 1)
             b == SubSeq(q, k + 1, Len(q))
  <2>8. a \in Seq(T) /\ Len(a) = k - 1 /\ \A j \in 1..k - 1 : a[j] = q[j]
    <3>1. \A j \in 1..k - 1 : q[j] \in T
      BY <1>0
    <3> QED
      BY <1>0, <3>1, SubSeqProperties
  <2>9. b \in Seq(T) /\ Len(b) = Len(q) - k /\ \A j \in 1..Len(q) - k : b[j] = q[j + k]
    <3>1. \A j \in k + 1..Len(q) : q[j] \in T
      BY <1>0
    <3>2. k \in Nat /\ k + 1 >= 1 /\ k + 1 <= Len(q) + 1 /\ Len(q) - (k + 1) + 1 = Len(q) - k
      BY <1>0
    <3>3. b \in Seq(T) /\ Len(b) = Len(q) - k
      <4>1. b \in Seq(T) /\ Len(b) = IF k + 1 <= Len(q) THEN Len(q) - (k + 1) + 1 ELSE 0
        BY <1>0, <3>1, <3>2, SubSeqProperties
      <4>2. (IF k + 1 <= Len(q) THEN Len(q) - (k + 1) + 1 ELSE 0) = Len(q) - k
        <5>1. CASE k + 1 <= Len(q)
          BY <3>2, <5>1
        <5>2. CASE ~(k + 1 <= Len(q))
          <6>1. k \in Nat /\ Len(q) \in Nat /\ k <= Len(q)
            BY <1>0
          <6>2. Len(q) - k = 0
            BY <5>2, <6>1
          <6> QED
            BY <5>2, <6>2
        <5> QED
          BY <5>1, <5>2
      <4> QED
        BY <4>1, <4>2
    <3>4. ASSUME NEW j \in 1..Len(q) - k PROVE b[j] = q[j + k]
      <4>1. b[j] = q[k + 1 + j - 1]
        BY <1>0, <3>1, <3>2, SubSeqProperties
      <4> QED
        BY <1>0, <3>2, <4>1
    <3> QED
      BY <3>3, <3>4
  <2> HIDE DEF a, b
  <2>10. /\ a \o b \in Seq(T) /\ Len(a \o b) = Len(q) - 1
         /\ \A j \in 1..Len(q) - 1 : (a \o b)[j] = IF j < k THEN q[j] ELSE q[j + 1]
    <3>1. /\ a \o b \in Seq(T) /\ Len(a \o b) = Len(a) + Len(b)
          /\ \A j \in 1..Len(a) : (a \o b)[j] = a[j]
          /\ \A j \in 1..Len(b) : (a \o b)[Len(a) + j] = b[j]
      <4>1. a \in Seq(T) /\ b \in Seq(T)
        BY <2>8, <2>9
      <4> QED
        BY <4>1
    <3>2. k \in Nat /\ Len(a \o b) = Len(q) - 1
      BY <1>0, <2>8, <2>9, <3>1
    <3>3. ASSUME NEW j \in 1..Len(q) - 1, j < k PROVE (a \o b)[j] = q[j]
      BY <1>0, <2>8, <3>1, <3>2, <3>3
    <3>4. ASSUME NEW j \in 1..Len(q) - 1, ~(j < k) PROVE (a \o b)[j] = q[j + 1]
      <4> DEFINE i == j - (k - 1)
      <4>1. i \in 1..Len(b) /\ j = Len(a) + i /\ i + k = j + 1 /\ i \in 1..Len(q) - k
        BY <1>0, <2>8, <2>9, <3>2, <3>4
      <4> HIDE DEF i
      <4>2. (a \o b)[Len(a) + i] = b[i] /\ b[i] = q[i + k]
        BY <2>9, <3>1, <4>1
      <4> QED
        BY <4>1, <4>2
    <3> QED
      BY <3>1, <3>2, <3>3, <3>4
  <2>11. r = a \o b
    BY DEF a, b
  <2> HIDE DEF r
  <2>12. /\ r \in Seq(T) /\ DOMAIN r = 1..Len(q) - 1
         /\ \A j \in 1..Len(q) - 1 : r[j] = IF j < k THEN q[j] ELSE q[j + 1]
    <3>1. Len(r) \in Nat /\ DOMAIN r = 1..Len(r)
      BY <2>10, <2>11
    <3> QED
      BY <1>0, <2>10, <2>11, <3>1
  <2>13. IsInjective(r)
    <3> SUFFICES ASSUME NEW i \in 1..Len(q) - 1, NEW j \in 1..Len(q) - 1, r[i] = r[j]
                 PROVE  i = j
      BY <2>12 DEF IsInjective
    <3> DEFINE c(m) == IF m < k THEN m ELSE m + 1
    <3>1. c(i) \in 1..Len(q) /\ c(j) \in 1..Len(q) /\ r[i] = q[c(i)] /\ r[j] = q[c(j)]
      BY <1>0, <2>12
    <3>2. c(i) = c(j)
      BY <1>0, <3>1 DEF IsInjective
    <3> QED
      BY <1>0, <3>2
  <2>14. ASSUME NEW v \in Range(r) PROVE v \in Range(q) \ {e}
    <3>1. PICK j \in 1..Len(q) - 1 : v = r[j]
      BY <2>12 DEF Range
    <3>2. \E i \in 1..Len(q) : i # k /\ v = q[i]
      <4>1. CASE j < k
        BY <1>0, <2>12, <3>1, <4>1
      <4>2. CASE ~(j < k)
        <5>1. j + 1 \in 1..Len(q) /\ j + 1 # k /\ v = q[j + 1]
          BY <1>0, <2>12, <3>1, <4>2
        <5> QED
          BY <5>1
      <4> QED
        BY <4>1, <4>2
    <3> QED
      BY <1>0, <2>2, <3>2 DEF Range
  <2>15. ASSUME NEW v \in Range(q) \ {e} PROVE v \in Range(r)
    <3>1. PICK i \in 1..Len(q) : v = q[i]
      BY <1>0 DEF Range
    <3>2. i # k
      BY <2>1, <3>1
    <3>3. CASE i < k
      <4>1. i \in 1..Len(q) - 1 /\ v = r[i]
        BY <1>0, <2>12, <3>1, <3>3
      <4> QED
        BY <2>12, <4>1 DEF Range
    <3>4. CASE i > k
      <4>1. i - 1 \in 1..Len(q) - 1 /\ v = r[i - 1]
        BY <1>0, <2>12, <3>1, <3>4
      <4> QED
        BY <2>12, <4>1 DEF Range
    <3> QED
      BY <1>0, <3>2, <3>3, <3>4
  <2> QED
    BY <2>7, <2>12, <2>13, <2>14, <2>15
<1> QED
  BY <1>1, <1>2

-----------------------------------------------------------------------------
(* What a call does to one socket. *)

(* What sends and drains of s leave alone: the topics, the other sockets,   *)
(* the life of s; and nobody gets the cork.                                 *)
Touched(x, y, s) ==
  /\ y \in Worlds
  /\ y.tree.topics = x.tree.topics
  /\ y.tree.iterating = x.tree.iterating
  /\ \A u \in Sockets \ {s} : y.socket[u] = x.socket[u] /\ y.ws[u] = x.ws[u]
  /\ SameLife(x.ws[s], y.ws[s])
  /\ y.socket[s].closed = x.socket[s].closed
  /\ y.socket[s].shut = x.socket[s].shut
  /\ y.loop.dead = x.loop.dead
  /\ Released(x, y)

(* One such call after the other.                                           *)
LEMMA TouchedTwice ==
  ASSUME NEW x, NEW y, NEW z, NEW s \in Sockets, Touched(x, y, s), Touched(y, z, s)
  PROVE  Touched(x, z, s)
<1>1. SameLife(x.ws[s], z.ws[s])
  BY DEF Touched, SameLife
<1>2. Released(x, z)
  BY ReleasedTwice DEF Touched
<1> QED
  BY <1>1, <1>2 DEF Touched

(* A message that leaves the cork in no new hands.                          *)
LEMMA MessagedIsTouched ==
  ASSUME NEW x, NEW y, NEW s \in Sockets, Messaged(x, y, s), Released(x, y)
  PROVE  Touched(x, y, s)
  BY DEF Messaged, Touched, SameTree

(* A batch for s taken out of the tree.                                     *)
LEMMA BatchTaken ==
  ASSUME NEW x \in Worlds, NEW s \in Sockets
  PROVE  LET y == [x EXCEPT !.tree.indices[s] = << >>]
         IN  /\ y \in Worlds
             /\ y.loop = x.loop /\ y.socket = x.socket /\ y.ws = x.ws
             /\ y.tree.topics = x.tree.topics /\ y.tree.iterating = x.tree.iterating
             /\ y.tree.drainable = x.tree.drainable /\ y.tree.palette = x.tree.palette
             /\ y.tree.indices[s] = << >>
             /\ \A u \in Sockets \ {s} : y.tree.indices[u] = x.tree.indices[u]
<1> DEFINE e == << >>
<1>1. e \in Seq(Nat)
  OBVIOUS
<1> HIDE DEF e
<1> DEFINE f == [x.tree.indices EXCEPT ![s] = e]
<1>2. x.tree \in TreeData
  BY TreeIs
<1>3. f \in [Sockets -> Seq(Nat)] /\ f[s] = e /\ \A u \in Sockets \ {s} : f[u] = x.tree.indices[u]
  BY <1>1, <1>2 DEF TreeData
<1> HIDE DEF f
<1> DEFINE r == [x.tree EXCEPT !.indices = f]
<1>4. /\ r \in TreeData /\ r.topics = x.tree.topics /\ r.iterating = x.tree.iterating
      /\ r.drainable = x.tree.drainable /\ r.palette = x.tree.palette /\ r.indices = f
  BY <1>2, <1>3 DEF TreeData
<1> DEFINE y == WithTree(x, r)
<1>5. [x EXCEPT !.tree.indices[s] = << >>] = y
  BY DEF WithTree, e, f
<1> HIDE DEF r
<1>6. /\ y \in Worlds /\ y.loop = x.loop /\ y.tree = r /\ y.ws = x.ws /\ y.socket = x.socket
  BY <1>4, TreePut
<1> HIDE DEF y
<1>7. /\ y.tree.indices[s] = << >>
      /\ \A u \in Sockets \ {s} : y.tree.indices[u] = x.tree.indices[u]
  BY <1>3, <1>4, <1>6 DEF e
<1> QED
  BY <1>4, <1>5, <1>6, <1>7

(* The last message of a batch is announced as such.                        *)
LEMMA LastFlag ==
  ASSUME NEW i
  PROVE  "LAST" \in Flags(i, i)
  BY DEF Flags

(* The last of a beginning of the numbers that is not cut short.            *)
LEMMA GreatestIsLast ==
  ASSUME NEW n \in Nat, NEW r \in SUBSET (1..n), n \in r
  PROVE  Max(r) = n
<1>1. n # 0
  OBVIOUS
<1> DEFINE k == n - 1
<1>2. k \in Nat /\ n = k + 1
  BY <1>1
<1> HIDE DEF k
<1> QED
  BY <1>2, GreatestIs

(* drainImpl: the batch of s is gone, and the cork is not kept.             *)
LEMMA BatchDrained ==
  ASSUME NEW x \in Worlds, NEW s \in Sockets, InPalette(x, s)
  PROVE  LET y == DrainImpl(x, s)
         IN  /\ Touched(x, y, s)
             /\ y.tree.drainable = x.tree.drainable /\ y.tree.palette = x.tree.palette
             /\ y.tree.indices[s] = << >>
             /\ \A u \in Sockets \ {s} : y.tree.indices[u] = x.tree.indices[u]
<1> DEFINE n == Len(x.tree.indices[s])
           c == [x EXCEPT !.tree.indices[s] = << >>]
           h == x.loop.corked
           Kept(a, r) ==
             /\ Messaged(c, a.x, s) /\ Batched(h, a.x, s)
             /\ a.stop \/ n \in r \/ r = {} => a.x.loop.corked \in {h, NoSocket}
           T == [r \in SUBSET (1..n) |-> {a \in Batches : Kept(a, r)}]
           b == [x |-> c, stop |-> FALSE]
<1>1. /\ c \in Worlds
      /\ c.loop = x.loop /\ c.socket = x.socket /\ c.ws = x.ws
      /\ c.tree.topics = x.tree.topics /\ c.tree.iterating = x.tree.iterating
      /\ c.tree.drainable = x.tree.drainable /\ c.tree.palette = x.tree.palette
      /\ c.tree.indices[s] = << >>
      /\ \A u \in Sockets \ {s} : c.tree.indices[u] = x.tree.indices[u]
  BY BatchTaken
<1>2. /\ n \in Nat
      /\ \A i \in 1..n : x.tree.palette[x.tree.indices[s][i] + 1] \in Messages
  BY ParkedIs
<1>3. b \in T[{}]
  <2> HIDE DEF c, h
  <2>1. b \in Batches /\ b.x = c
    BY <1>1 DEF Batches
  <2>2. Messaged(c, c, s)
    BY <1>1, TreeIs DEF Messaged, SameTree, SameLife
  <2>3. Batched(h, c, s) /\ c.loop.corked \in {h, NoSocket}
    BY <1>1 DEF Batched, h
  <2> HIDE DEF b
  <2> QED
    BY <2>1, <2>2, <2>3
<1>4. ASSUME NEW r \in SUBSET (1..n), r # {}, NEW a \in T[r \ {Max(r)}]
      PROVE  Emitted(x, s, a, Max(r)) \in T[r]
  <2> DEFINE m == Max(r)
             e == Emitted(x, s, a, m)
  <2>1. m \in r /\ m \in 1..n
    BY <1>2, <1>4, GreatestExists
  <2>2. n \in r => m = n
    BY <1>2, GreatestIsLast
  <2>3. a \in Batches /\ Kept(a, r \ {m})
    BY <1>4
  <2> HIDE DEF c, h, m
  <2>4. CASE a.stop
    <3>1. e = a
      BY <2>4 DEF Emitted
    <3>2. Kept(a, r)
      BY <2>3, <2>4
    <3> QED
      BY <2>3, <3>1, <3>2 DEF m
  <2>5. CASE ~a.stop
    <3> DEFINE p == x.tree.palette[x.tree.indices[s][m] + 1]
               flags == Flags(m, n)
    <3>1. e = DrainCallback(a.x, s, p, flags)
      BY <2>5 DEF Emitted
    <3>2. p \in Messages /\ a.x \in Worlds
      BY <1>2, <2>1, <2>3 DEF Batches
    <3>3. n \in r => "LAST" \in flags
      BY <2>2, LastFlag
    <3> HIDE DEF p, flags, e
    <3>4. /\ e = [x |-> e.x, stop |-> e.stop] /\ e.stop \in BOOLEAN
          /\ Messaged(a.x, e.x, s) /\ Batched(h, e.x, s)
          /\ e.stop \/ "LAST" \in flags => e.x.loop.corked \in {h, NoSocket}
      BY <2>3, <3>1, <3>2, CalledBack
    <3>5. e.stop \/ n \in r => e.x.loop.corked \in {h, NoSocket}
      BY <3>3, <3>4
    <3>6. Messaged(c, e.x, s)
      BY <2>3, <3>4, MessagedTwice
    <3>7. e.x \in Worlds
      BY <3>6 DEF Messaged
    <3>8. e \in Batches
      BY <3>4, <3>7 DEF Batches
    <3>9. Kept(e, r)
      BY <1>4, <3>4, <3>5, <3>6
    <3>10. e \in T[r]
      BY <3>8, <3>9
    <3> QED
      BY <3>10 DEF e, m
  <2> QED
    BY <2>4, <2>5
<1>5. \E a \in T[1..n] : DrainImpl(x, s) = a.x
  <2> HIDE DEF T
  <2> QED
    BY <1>2, <1>3, <1>4, EmitFold
<1>6. PICK a \in T[1..n] : DrainImpl(x, s) = a.x
  BY <1>5
<1>7. a \in Batches /\ Kept(a, 1..n)
  BY <1>6
<1>8. n \in 1..n \/ 1..n = {}
  BY <1>2
<1> HIDE DEF c, h, n
<1>9. Messaged(c, a.x, s) /\ a.x.loop.corked \in {h, NoSocket}
  BY <1>7, <1>8
<1>10. Touched(x, a.x, s)
  BY <1>1, <1>9 DEF Touched, Messaged, SameTree, Released, h
<1>11. /\ a.x.tree.drainable = x.tree.drainable /\ a.x.tree.palette = x.tree.palette
       /\ a.x.tree.indices = c.tree.indices
  BY <1>1, <1>9 DEF Messaged, SameTree
<1> QED
  BY <1>1, <1>6, <1>10, <1>11

-----------------------------------------------------------------------------
(* The topic tree. *)

(* The list holds exactly who has something parked, each once; a batch has  *)
(* its bound; what is parked is in the palette, or, for those of P, comes   *)
(* into it next; and who is closed is in no topic.                          *)
ParkedNext(x, s) ==
  \A i \in 1..Len(x.tree.indices[s]) : x.tree.indices[s][i] <= Len(x.tree.palette)

ConsistentFor(x, P) ==
  /\ Range(x.tree.drainable) = {s \in Sockets : x.tree.indices[s] # << >>}
  /\ IsInjective(x.tree.drainable)
  /\ \A s \in Sockets :
       /\ Len(x.tree.indices[s]) <= BatchLimit
       /\ s \in P => ParkedNext(x, s)
       /\ s \notin P => InPalette(x, s)
       /\ x.ws[s].closes = 1 =>
            x.tree.indices[s] = << >> /\ \A t \in Topics : s \notin x.tree.topics[t]

Consistent(x) == ConsistentFor(x, {})

(* A FIN is the end of what was sent; the close event is given once.        *)
CleanAt(x, s) ==
  /\ x.ws[s].closes \in {0, 1}
  /\ x.ws[s].closes = 1 <=> x.ws[s].isShuttingDown \/ x.socket[s].closed
  /\ x.socket[s].shut /\ ~x.socket[s].closed =>
       /\ x.ws[s].isShuttingDown
       /\ Buffered(x, s) = << >> \/ x.ws[s].lossy
       /\ x.loop.corked # s

Clean(x) == \A s \in Sockets : CleanAt(x, s)

(* A call on a socket the application may use leaves the rest as it was.    *)
LEMMA CleanKept ==
  ASSUME NEW x, NEW y, NEW s \in Sockets, Clean(x), Touched(x, y, s), x.ws[s].closes = 0
  PROVE  Clean(y)
<1>1. CleanAt(y, s)
  BY DEF Clean, CleanAt, Touched, SameLife
<1>2. ASSUME NEW u \in Sockets \ {s} PROVE CleanAt(y, u)
  <2>1. y.socket[u] = x.socket[u] /\ y.ws[u] = x.ws[u]
    BY DEF Touched
  <2>2. Buffered(y, u) = Buffered(x, u)
    BY <2>1 DEF Buffered
  <2>3. x.loop.corked # u => y.loop.corked # u
    BY PubSubAssumption DEF Touched, Released
  <2> QED
    BY <2>1, <2>2, <2>3 DEF Clean, CleanAt
<1> QED
  BY <1>1, <1>2 DEF Clean

(* What is in the records of a tree.                                        *)
LEMMA TreeHas ==
  ASSUME NEW x \in Worlds
  PROVE  /\ x.tree.topics \in [Topics -> SUBSET Sockets]
         /\ x.tree.indices \in [Sockets -> Seq(Nat)]
         /\ x.tree.drainable \in Seq(Sockets)
         /\ x.tree.palette \in Seq(Messages)
         /\ x.tree.iterating \in Sockets \cup {NoSocket}
         /\ x.tree.needsUncork \in BOOLEAN
  BY TreeIs DEF TreeData

(* Another list and palette.                                                *)
WithList(x, q, p) == [x EXCEPT !.tree = [x.tree EXCEPT !.drainable = q, !.palette = p]]

(* The tree with that list and palette.                                     *)
LEMMA ListPut ==
  ASSUME NEW x \in Worlds, NEW q \in Seq(Sockets), NEW p \in Seq(Messages)
  PROVE  LET y == WithList(x, q, p)
         IN  /\ y \in Worlds
             /\ y.loop = x.loop /\ y.socket = x.socket /\ y.ws = x.ws
             /\ y.tree.topics = x.tree.topics /\ y.tree.iterating = x.tree.iterating
             /\ y.tree.indices = x.tree.indices
             /\ y.tree.drainable = q /\ y.tree.palette = p
<1> DEFINE r == [x.tree EXCEPT !.drainable = q, !.palette = p]
<1>1. x.tree \in TreeData
  BY TreeIs
<1>2. /\ r \in TreeData /\ r.topics = x.tree.topics /\ r.iterating = x.tree.iterating
      /\ r.drainable = q /\ r.palette = p /\ r.indices = x.tree.indices
  BY <1>1 DEF TreeData
<1> DEFINE y == WithTree(x, r)
<1>3. WithList(x, q, p) = y
  BY DEF WithList, WithTree
<1> HIDE DEF r
<1>4. /\ y \in Worlds /\ y.loop = x.loop /\ y.tree = r /\ y.ws = x.ws /\ y.socket = x.socket
  BY <1>2, TreePut
<1> HIDE DEF y
<1> QED
  BY <1>2, <1>3, <1>4

(* It leaves everything else alone.                                         *)
LEMMA ListIsTouched ==
  ASSUME NEW x \in Worlds, NEW s \in Sockets, NEW q \in Seq(Sockets), NEW p \in Seq(Messages)
  PROVE  Touched(x, WithList(x, q, p), s)
  BY ListPut DEF Touched, SameLife, Released

(* The assignments to list and palette in the tree's operations.            *)
LEMMA ListIs ==
  ASSUME NEW x \in Worlds, NEW q, NEW p
  PROVE  /\ [x EXCEPT !.tree.drainable = q] = WithList(x, q, x.tree.palette)
         /\ [x EXCEPT !.tree.palette = p] = WithList(x, x.tree.drainable, p)
         /\ [x EXCEPT !.tree.drainable = q, !.tree.palette = p] = WithList(x, q, p)
<1>1. x.tree \in TreeData
  BY TreeIs
<1>2. [x.tree EXCEPT !.drainable = q] = [x.tree EXCEPT !.drainable = q, !.palette = x.tree.palette]
  BY <1>1 DEF TreeData
<1>3. [x.tree EXCEPT !.palette = p] = [x.tree EXCEPT !.drainable = x.tree.drainable, !.palette = p]
  BY <1>1 DEF TreeData
<1> QED
  BY <1>2, <1>3 DEF WithList

(* A call that does nothing.                                                *)
LEMMA TouchedNot ==
  ASSUME NEW x \in Worlds, NEW s \in Sockets
  PROVE  Touched(x, x, s)
  BY DEF Touched, SameLife, Released

(* A list without elements.                                                 *)
LEMMA EmptyRange ==
  ASSUME NEW q \in Seq(Sockets)
  PROVE  (q = << >>) <=> (Range(q) = {})
<1>1. DOMAIN q = 1..Len(q) /\ Len(q) \in Nat
  OBVIOUS
<1>2. ASSUME q # << >> PROVE q[1] \in Range(q)
  <2>1. 1 \in DOMAIN q
    BY <1>1, <1>2
  <2> QED
    BY <2>1 DEF Range
<1>3. ASSUME q = << >> PROVE Range(q) = {}
  <2>1. DOMAIN q = {}
    BY <1>3
  <2> QED
    BY <2>1 DEF Range
<1> QED
  BY <1>2, <1>3

(* The palette is given up when nobody is in the list.                      *)
LEMMA Forgotten ==
  ASSUME NEW x \in Worlds, NEW s \in Sockets, NEW P, ConsistentFor(x, P)
  PROVE  LET y == ForgetIfDrained(x)
         IN  /\ Touched(x, y, s) /\ ConsistentFor(y, P)
             /\ y.tree.indices = x.tree.indices /\ y.ws = x.ws
<1>1. CASE x.tree.drainable # << >>
  <2>1. ForgetIfDrained(x) = x
    BY <1>1 DEF ForgetIfDrained
  <2> QED
    BY <2>1, TouchedNot
<1>2. CASE x.tree.drainable = << >>
  <2> DEFINE e == << >>
  <2>1. e \in Seq(Messages)
    OBVIOUS
  <2>2. \A u \in Sockets : x.tree.indices[u] = << >>
    BY <1>2, TreeHas, EmptyRange DEF ConsistentFor
  <2>3. ForgetIfDrained(x) = WithList(x, x.tree.drainable, e)
    BY <1>2, ListIs DEF ForgetIfDrained
  <2> HIDE DEF e
  <2> DEFINE y == WithList(x, x.tree.drainable, e)
  <2>5. /\ y \in Worlds
        /\ y.loop = x.loop /\ y.socket = x.socket /\ y.ws = x.ws
        /\ y.tree.topics = x.tree.topics /\ y.tree.iterating = x.tree.iterating
        /\ y.tree.indices = x.tree.indices
        /\ y.tree.drainable = x.tree.drainable /\ y.tree.palette = e
    BY <2>1, TreeHas, ListPut
  <2>6. Touched(x, y, s)
    BY <2>1, TreeHas, ListIsTouched
  <2> HIDE DEF y
  <2>7. \A u \in Sockets : Len(y.tree.indices[u]) = 0
    BY <2>2, <2>5
  <2>8. \A u \in Sockets : InPalette(y, u) /\ ParkedNext(y, u)
    BY <2>7 DEF InPalette, ParkedNext
  <2>9. ConsistentFor(y, P)
    BY <2>5, <2>8 DEF ConsistentFor
  <2> QED
    BY <2>3, <2>5, <2>6, <2>9 DEF y
<1> QED
  BY <1>1, <1>2

(* drain(Subscriber) *)
LEMMA DrainedOne ==
  ASSUME NEW x \in Worlds, NEW s \in Sockets, NEW P, s \notin P, ConsistentFor(x, P)
  PROVE  LET y == DrainOne(x, s)
         IN  /\ Touched(x, y, s) /\ ConsistentFor(y, P)
             /\ y.tree.indices[s] = << >>
<1>1. CASE ~NeedsDrainage(x, s)
  <2>1. DrainOne(x, s) = x /\ x.tree.indices[s] = << >>
    BY <1>1 DEF DrainOne, NeedsDrainage
  <2> QED
    BY <2>1, TouchedNot
<1>2. CASE NeedsDrainage(x, s)
  <2> DEFINE q == RemoveFirst(x.tree.drainable, s)
             y == Unlink(x, s)
             z == DrainImpl(y, s)
  <2>1. y = WithList(x, q, x.tree.palette)
    BY ListIs DEF Unlink
  <2>2. q \in Seq(Sockets) /\ IsInjective(q) /\ Range(q) = Range(x.tree.drainable) \ {s}
    BY TreeHas, Unlinked DEF ConsistentFor
  <2> HIDE DEF q, y
  <2>3. /\ y \in Worlds
        /\ y.loop = x.loop /\ y.socket = x.socket /\ y.ws = x.ws
        /\ y.tree.topics = x.tree.topics /\ y.tree.iterating = x.tree.iterating
        /\ y.tree.indices = x.tree.indices
        /\ y.tree.drainable = q /\ y.tree.palette = x.tree.palette
    BY <2>1, <2>2, TreeHas, ListPut
  <2>4. Touched(x, y, s)
    BY <2>1, <2>2, TreeHas, ListIsTouched
  <2>5. InPalette(y, s)
    BY <2>3 DEF InPalette, ConsistentFor
  <2>6. /\ Touched(y, z, s)
        /\ z.tree.drainable = q /\ z.tree.palette = x.tree.palette
        /\ z.tree.indices[s] = << >>
        /\ \A u \in Sockets \ {s} : z.tree.indices[u] = x.tree.indices[u]
    BY <2>3, <2>5, BatchDrained
  <2> HIDE DEF z
  <2>7. Touched(x, z, s) /\ z \in Worlds
    BY <2>4, <2>6, TouchedTwice DEF Touched
  <2>8. Range(z.tree.drainable) = {u \in Sockets : z.tree.indices[u] # << >>}
    BY <2>2, <2>6 DEF ConsistentFor
  <2>9. \A u \in Sockets : z.ws[u].closes = x.ws[u].closes
    BY <2>7 DEF Touched, SameLife
  <2>10. ASSUME NEW u \in Sockets
         PROVE  /\ Len(z.tree.indices[u]) <= BatchLimit
                /\ u \in P => ParkedNext(z, u)
                /\ u \notin P => InPalette(z, u)
                /\ z.ws[u].closes = 1 =>
                     z.tree.indices[u] = << >> /\ \A t \in Topics : u \notin z.tree.topics[t]
    <3>1. CASE u = s
      <4>1. Len(z.tree.indices[s]) = 0
        BY <2>6
      <4>2. InPalette(z, s) /\ ParkedNext(z, s)
        BY <4>1 DEF InPalette, ParkedNext
      <4>3. 0 <= BatchLimit
        BY LimitsArePositive
      <4> QED
        BY <2>6, <2>7, <2>9, <3>1, <4>1, <4>2, <4>3 DEF ConsistentFor, Touched
    <3>2. CASE u # s
      <4>1. z.tree.indices[u] = x.tree.indices[u] /\ z.tree.palette = x.tree.palette
            /\ z.tree.topics = x.tree.topics
        BY <2>6, <2>7, <3>2 DEF Touched
      <4> QED
        BY <2>9, <4>1 DEF ConsistentFor, InPalette, ParkedNext
    <3> QED
      BY <3>1, <3>2
  <2>11. ConsistentFor(z, P)
    BY <2>2, <2>6, <2>8, <2>10 DEF ConsistentFor
  <2> DEFINE r == ForgetIfDrained(z)
  <2>12. /\ Touched(z, r, s) /\ ConsistentFor(r, P)
         /\ r.tree.indices = z.tree.indices
    BY <2>7, <2>11, Forgotten
  <2>13. DrainOne(x, s) = r
    BY <1>2 DEF DrainOne, z, y
  <2> HIDE DEF r
  <2>14. Touched(x, r, s)
    BY <2>7, <2>12, TouchedTwice
  <2> QED
    BY <2>6, <2>12, <2>13, <2>14
<1> QED
  BY <1>1, <1>2

(* A message leaves the tree consistent.                                    *)
LEMMA ConsistentMessaged ==
  ASSUME NEW x, NEW y, NEW s \in Sockets, NEW P, ConsistentFor(x, P), Messaged(x, y, s)
  PROVE  ConsistentFor(y, P)
<1>1. \A u \in Sockets : y.ws[u].closes = x.ws[u].closes
  BY DEF Messaged, SameLife
<1>2. /\ y.tree.topics = x.tree.topics /\ y.tree.indices = x.tree.indices
      /\ y.tree.drainable = x.tree.drainable /\ y.tree.palette = x.tree.palette
  BY DEF Messaged, SameTree
<1> QED
  BY <1>1, <1>2 DEF ConsistentFor, InPalette, ParkedNext

(* send: what was published to s goes out first.                            *)
LEMMA SendTouches ==
  ASSUME NEW x \in Worlds, NEW s \in Sockets, NEW m \in Messages, Consistent(x)
  PROVE  LET r == Send(x, s, m)
         IN  Touched(x, r.x, s) /\ Consistent(r.x) /\ Settled(x, r, s)
<1> DEFINE r == Send(x, s, m)
           long == /\ IsBig(m) /\ ~x.ws[s].subscriber
                   /\ BufferedAmount(x, s) = 0 /\ x.loop.cork = << >>
<1>1. CASE OverLimit(x, s)
  <2> DEFINE y == Drop(x, s, m)
  <2>1. r.x = y /\ r.status = "DROPPED"
    BY <1>1 DEF Send
  <2>2. Messaged(x, y, s) /\ y.loop = x.loop /\ y.ws[s].lossy
    BY Dropped
  <2> HIDE DEF y, r
  <2>3. Touched(x, y, s) /\ Consistent(y)
    BY <2>2, MessagedIsTouched, ConsistentMessaged DEF Released, Consistent
  <2>4. Settled(x, r, s)
    BY <2>1, <2>2 DEF Settled
  <2> QED
    BY <2>1, <2>3, <2>4 DEF r
<1>2. CASE ~OverLimit(x, s) /\ long
  <2>1. r = SendLong(x, s, m)
    BY <1>2 DEF Send
  <2>2. Sent(x, r.x, s) /\ Released(x, r.x) /\ Settled(x, r, s)
    <3> HIDE DEF r
    <3> QED
      BY <1>2, <2>1, LongIsSent
  <2> HIDE DEF r
  <2>3. Messaged(x, r.x, s)
    BY <2>2, SentIsMessaged
  <2> QED
    BY <2>2, <2>3, MessagedIsTouched, ConsistentMessaged DEF Consistent, r
<1>3. CASE ~OverLimit(x, s) /\ ~long
  <2> DEFINE y == IF x.ws[s].subscriber THEN DrainOne(x, s) ELSE x
  <2>1. r = SendShort(y, s, m)
    BY <1>3 DEF Send
  <2>2. Touched(x, y, s) /\ Consistent(y)
    <3>1. CASE x.ws[s].subscriber
      BY <3>1, DrainedOne DEF Consistent
    <3>2. CASE ~x.ws[s].subscriber
      BY <3>2, TouchedNot
    <3> QED
      BY <3>1, <3>2
  <2> HIDE DEF y, r
  <2>3. y \in Worlds
    BY <2>2 DEF Touched
  <2>4. Sent(y, r.x, s) /\ Released(y, r.x) /\ Settled(y, r, s)
    BY <2>1, <2>3, ShortIsSent
  <2>5. Messaged(y, r.x, s)
    BY <2>4, SentIsMessaged
  <2>6. Touched(x, r.x, s) /\ Consistent(r.x)
    BY <2>2, <2>4, <2>5, MessagedIsTouched, ConsistentMessaged, TouchedTwice DEF Consistent
  <2>7. Settled(x, r, s)
    BY <2>2, <2>4 DEF Settled, Touched
  <2> QED
    BY <2>6, <2>7 DEF r
<1> QED
  BY <1>1, <1>2, <1>3

-----------------------------------------------------------------------------
(* Folds over the sockets of a list. *)

(* What a call may do that concerns several sockets: worlds that are        *)
(* consistent and clean lead to such, with the topics as they were and the  *)
(* cork in no other hands.                                                  *)
Kept(x, y) ==
  /\ y \in Worlds
  /\ Clean(y)
  /\ y.tree.topics = x.tree.topics
  /\ y.tree.iterating = x.tree.iterating
  /\ y.loop.dead = x.loop.dead
  /\ \A u \in Sockets : y.ws[u].closes = x.ws[u].closes
  /\ Released(x, y)

(* One such call after the other.                                           *)
LEMMA KeptTwice ==
  ASSUME NEW x, NEW y, NEW z, Kept(x, y), Kept(y, z)
  PROVE  Kept(x, z)
<1>1. Released(x, z)
  BY ReleasedTwice DEF Kept
<1> QED
  BY <1>1 DEF Kept

(* A call that does nothing.                                                *)
LEMMA KeptNot ==
  ASSUME NEW x \in Worlds, Clean(x)
  PROVE  Kept(x, x)
  BY DEF Kept, Released

(* A call on one socket that the application may still use.                 *)
LEMMA TouchedIsKept ==
  ASSUME NEW x, NEW y, NEW s \in Sockets, Clean(x), Touched(x, y, s), x.ws[s].closes = 0
  PROVE  Kept(x, y)
<1>1. Clean(y)
  BY CleanKept
<1>2. \A u \in Sockets : y.ws[u].closes = x.ws[u].closes
  BY DEF Touched, SameLife
<1> QED
  BY <1>1, <1>2 DEF Kept, Touched

(* What every step of a fold keeps holds in the end: T says what it is after *)
(* each beginning of the steps.                                             *)
LEMMA DrainFold ==
  ASSUME NEW b, NEW q, NEW n \in Nat, DOMAIN q = 1..n, NEW T, b \in T[{}],
         \A r \in SUBSET (1..n) : r # {} =>
           \A a \in T[r \ {Max(r)}] : DrainImpl(a, q[Max(r)]) \in T[r]
  PROVE  FoldLeft(DrainImpl, b, q) \in T[1..n]
<1> DEFINE F == [r \in SUBSET (1..n) |-> [a \in T[r \ {Max(r)}] |-> DrainImpl(a, q[Max(r)])]]
           D == DOMAIN q
           Is(h) == h = [r \in SUBSET D |-> IF r = {} THEN b ELSE DrainImpl(h[r \ {Max(r)}], q[Max(r)])]
           g == CHOOSE h : Is(h)
<1>1. StepsStay(T, F, n)
  BY DEF StepsStay
<1>2. \A r \in SUBSET (1..n) : r \ {Max(r)} \in SUBSET (1..n)
  OBVIOUS
<1>3. FoldLeft(DrainImpl, b, q) = g[D]
  BY DEF FoldLeft, MapThenFoldSet, Max
<1>4. D = 1..n
  OBVIOUS
<1> HIDE DEF D
<1>5. \E h : Is(h)
  <2>1. PICK h : IsTable(h, T, F, b, n)
    <3> HIDE DEF F
    <3> QED
      BY <1>1, FoldTable
  <2> DEFINE t == [r \in SUBSET D |-> h[r]]
  <2>2. t = [r \in SUBSET D |-> t[r]]
    OBVIOUS
  <2>3. \A r \in SUBSET D : t[r] = h[r]
    OBVIOUS
  <2> HIDE DEF t
  <2>4. \A r \in SUBSET D : t[r] = IF r = {} THEN b ELSE DrainImpl(t[r \ {Max(r)}], q[Max(r)])
    BY <1>2, <1>4, <2>1, <2>3 DEF IsTable
  <2>5. Is(t)
    BY <2>2, <2>4
  <2> HIDE DEF Is
  <2> QED
    BY <2>5
<1>6. Is(g)
  <2> HIDE DEF Is
  <2> QED
    BY <1>5
<1> HIDE DEF g
<1>7. \A r \in SUBSET (1..n) : g[r] = IF r = {} THEN b ELSE DrainImpl(g[r \ {Max(r)}], q[Max(r)])
  BY <1>4, <1>6
<1> HIDE DEF Is
<1>8. g[1..n] \in T[1..n]
  <2>1. g[{}] \in T[{}]
    BY <1>7
  <2>2. \A r \in SUBSET (1..n) : r # {} /\ g[r \ {Max(r)}] \in T[r \ {Max(r)}] => g[r] \in T[r]
    BY <1>7
  <2> QED
    BY <2>1, <2>2, BeginningsInduction
<1> QED
  BY <1>3, <1>4, <1>8

(* The same of the fold that parks a message for every reader.              *)
LEMMA ParkFold ==
  ASSUME NEW b, NEW q, NEW n \in Nat, DOMAIN q = 1..n, NEW T, b \in T[{}],
         \A r \in SUBSET (1..n) : r # {} =>
           \A a \in T[r \ {Max(r)}] : ParkFor(a, q[Max(r)]) \in T[r]
  PROVE  FoldLeft(ParkFor, b, q) \in T[1..n]
<1> DEFINE F == [r \in SUBSET (1..n) |-> [a \in T[r \ {Max(r)}] |-> ParkFor(a, q[Max(r)])]]
           D == DOMAIN q
           Is(h) == h = [r \in SUBSET D |-> IF r = {} THEN b ELSE ParkFor(h[r \ {Max(r)}], q[Max(r)])]
           g == CHOOSE h : Is(h)
<1>1. StepsStay(T, F, n)
  BY DEF StepsStay
<1>2. \A r \in SUBSET (1..n) : r \ {Max(r)} \in SUBSET (1..n)
  OBVIOUS
<1>3. FoldLeft(ParkFor, b, q) = g[D]
  BY DEF FoldLeft, MapThenFoldSet, Max
<1>4. D = 1..n
  OBVIOUS
<1> HIDE DEF D
<1>5. \E h : Is(h)
  <2>1. PICK h : IsTable(h, T, F, b, n)
    <3> HIDE DEF F
    <3> QED
      BY <1>1, FoldTable
  <2> DEFINE t == [r \in SUBSET D |-> h[r]]
  <2>2. t = [r \in SUBSET D |-> t[r]]
    OBVIOUS
  <2>3. \A r \in SUBSET D : t[r] = h[r]
    OBVIOUS
  <2> HIDE DEF t
  <2>4. \A r \in SUBSET D : t[r] = IF r = {} THEN b ELSE ParkFor(t[r \ {Max(r)}], q[Max(r)])
    BY <1>2, <1>4, <2>1, <2>3 DEF IsTable
  <2>5. Is(t)
    BY <2>2, <2>4
  <2> HIDE DEF Is
  <2> QED
    BY <2>5
<1>6. Is(g)
  <2> HIDE DEF Is
  <2> QED
    BY <1>5
<1> HIDE DEF g
<1>7. \A r \in SUBSET (1..n) : g[r] = IF r = {} THEN b ELSE ParkFor(g[r \ {Max(r)}], q[Max(r)])
  BY <1>4, <1>6
<1> HIDE DEF Is
<1>8. g[1..n] \in T[1..n]
  <2>1. g[{}] \in T[{}]
    BY <1>7
  <2>2. \A r \in SUBSET (1..n) : r # {} /\ g[r \ {Max(r)}] \in T[r \ {Max(r)}] => g[r] \in T[r]
    BY <1>7
  <2> QED
    BY <2>1, <2>2, BeginningsInduction
<1> QED
  BY <1>3, <1>4, <1>8

(* The same of the fold that sends a big message to every reader.           *)
LEMMA SendFold ==
  ASSUME NEW x, NEW sender, NEW t, NEW m,
         NEW q, q = Readers(x, sender, t),
         NEW n \in Nat, DOMAIN q = 1..n, NEW T, x \in T[{}],
         \A r \in SUBSET (1..n) : r # {} =>
           \A a \in T[r \ {Max(r)}] : SendOwed(a, q[Max(r)], m) \in T[r]
  PROVE  PublishBig(x, sender, t, m) \in T[1..n]
<1> DEFINE F == [r \in SUBSET (1..n) |-> [a \in T[r \ {Max(r)}] |-> SendOwed(a, q[Max(r)], m)]]
           D == DOMAIN q
           Is(h) == h = [r \in SUBSET D |-> IF r = {} THEN x ELSE SendOwed(h[r \ {Max(r)}], q[Max(r)], m)]
           g == CHOOSE h : Is(h)
<1>1. StepsStay(T, F, n)
  BY DEF StepsStay
<1>2. \A r \in SUBSET (1..n) : r \ {Max(r)} \in SUBSET (1..n)
  OBVIOUS
<1>3. PublishBig(x, sender, t, m) = g[D]
  BY DEF PublishBig, FoldLeft, MapThenFoldSet, Max
<1>4. D = 1..n
  OBVIOUS
<1> HIDE DEF D
<1>5. \E h : Is(h)
  <2>1. PICK h : IsTable(h, T, F, x, n)
    <3> HIDE DEF F
    <3> QED
      BY <1>1, FoldTable
  <2> DEFINE table == [r \in SUBSET D |-> h[r]]
  <2>2. table = [r \in SUBSET D |-> table[r]]
    OBVIOUS
  <2>3. \A r \in SUBSET D : table[r] = h[r]
    OBVIOUS
  <2> HIDE DEF table
  <2>4. \A r \in SUBSET D : table[r] = IF r = {} THEN x ELSE SendOwed(table[r \ {Max(r)}], q[Max(r)], m)
    BY <1>2, <1>4, <2>1, <2>3 DEF IsTable
  <2>5. Is(table)
    BY <2>2, <2>4
  <2> HIDE DEF Is
  <2> QED
    BY <2>5
<1>6. Is(g)
  <2> HIDE DEF Is
  <2> QED
    BY <1>5
<1> HIDE DEF g
<1>7. \A r \in SUBSET (1..n) : g[r] = IF r = {} THEN x ELSE SendOwed(g[r \ {Max(r)}], q[Max(r)], m)
  BY <1>4, <1>6
<1> HIDE DEF Is
<1>8. g[1..n] \in T[1..n]
  <2>1. g[{}] \in T[{}]
    BY <1>7
  <2>2. \A r \in SUBSET (1..n) : r # {} /\ g[r \ {Max(r)}] \in T[r \ {Max(r)}] => g[r] \in T[r]
    BY <1>7
  <2> QED
    BY <2>1, <2>2, BeginningsInduction
<1> QED
  BY <1>3, <1>4, <1>8

(* The same of the fold that subscribes to every topic.                     *)
LEMMA SubscribeFold ==
  ASSUME NEW x, NEW u, NEW topics,
         NEW q, q = SetToSeq(topics),
         NEW n \in Nat, DOMAIN q = 1..n, NEW T, x \in T[{}],
         \A r \in SUBSET (1..n) : r # {} =>
           \A a \in T[r \ {Max(r)}] : Subscribe(a, u, q[Max(r)]) \in T[r]
  PROVE  SubscribeTo(x, u, topics) \in T[1..n]
<1> DEFINE F == [r \in SUBSET (1..n) |-> [a \in T[r \ {Max(r)}] |-> Subscribe(a, u, q[Max(r)])]]
           D == DOMAIN q
           Is(h) == h = [r \in SUBSET D |-> IF r = {} THEN x ELSE Subscribe(h[r \ {Max(r)}], u, q[Max(r)])]
           g == CHOOSE h : Is(h)
<1>1. StepsStay(T, F, n)
  BY DEF StepsStay
<1>2. \A r \in SUBSET (1..n) : r \ {Max(r)} \in SUBSET (1..n)
  OBVIOUS
<1>3. SubscribeTo(x, u, topics) = g[D]
  BY DEF SubscribeTo, FoldLeft, MapThenFoldSet, Max
<1>4. D = 1..n
  OBVIOUS
<1> HIDE DEF D
<1>5. \E h : Is(h)
  <2>1. PICK h : IsTable(h, T, F, x, n)
    <3> HIDE DEF F
    <3> QED
      BY <1>1, FoldTable
  <2> DEFINE t == [r \in SUBSET D |-> h[r]]
  <2>2. t = [r \in SUBSET D |-> t[r]]
    OBVIOUS
  <2>3. \A r \in SUBSET D : t[r] = h[r]
    OBVIOUS
  <2> HIDE DEF t
  <2>4. \A r \in SUBSET D : t[r] = IF r = {} THEN x ELSE Subscribe(t[r \ {Max(r)}], u, q[Max(r)])
    BY <1>2, <1>4, <2>1, <2>3 DEF IsTable
  <2>5. Is(t)
    BY <2>2, <2>4
  <2> HIDE DEF Is
  <2> QED
    BY <2>5
<1>6. Is(g)
  <2> HIDE DEF Is
  <2> QED
    BY <1>5
<1> HIDE DEF g
<1>7. \A r \in SUBSET (1..n) : g[r] = IF r = {} THEN x ELSE Subscribe(g[r \ {Max(r)}], u, q[Max(r)])
  BY <1>4, <1>6
<1> HIDE DEF Is
<1>8. g[1..n] \in T[1..n]
  <2>1. g[{}] \in T[{}]
    BY <1>7
  <2>2. \A r \in SUBSET (1..n) : r # {} /\ g[r \ {Max(r)}] \in T[r \ {Max(r)}] => g[r] \in T[r]
    BY <1>7
  <2> QED
    BY <2>1, <2>2, BeginningsInduction
<1> QED
  BY <1>3, <1>4, <1>8

(* Who has something parked is not closed.                                  *)
LEMMA DrainableLives ==
  ASSUME NEW x \in Worlds, Consistent(x), Clean(x), NEW i \in 1..Len(x.tree.drainable)
  PROVE  x.tree.drainable[i] \in Sockets /\ x.ws[x.tree.drainable[i]].closes = 0
<1> DEFINE q == x.tree.drainable
<1>1. q \in Seq(Sockets)
  BY TreeHas
<1>2. q[i] \in Sockets /\ q[i] \in Range(q)
  <2> HIDE DEF q
  <2>1. i \in 1..Len(q)
    BY DEF q
  <2>2. DOMAIN q = 1..Len(q) /\ q[i] \in Sockets
    BY <1>1, <2>1
  <2> QED
    BY <2>1, <2>2 DEF Range
<1>3. x.tree.indices[q[i]] # << >>
  BY <1>2 DEF Consistent, ConsistentFor
<1>4. x.ws[q[i]].closes # 1
  BY <1>2, <1>3 DEF Consistent, ConsistentFor
<1> QED
  BY <1>2, <1>4 DEF Clean, CleanAt

(* Nothing parked, and nothing in the palette.                              *)
LEMMA ConsistentEmpty ==
  ASSUME NEW x \in Worlds, x.tree.drainable = << >>, \A u \in Sockets : x.tree.indices[u] = << >>,
         \A u \in Sockets : x.ws[u].closes = 1 => \A t \in Topics : u \notin x.tree.topics[t]
  PROVE  Consistent(x)
<1>1. \A u \in Sockets : Len(x.tree.indices[u]) = 0
  OBVIOUS
<1>2. 0 <= BatchLimit
  BY LimitsArePositive
<1>3. \A u \in Sockets : InPalette(x, u)
  BY <1>1 DEF InPalette
<1>4. Range(x.tree.drainable) = {} /\ IsInjective(x.tree.drainable)
  <2> DEFINE e == << >>
  <2>1. DOMAIN e = {}
    OBVIOUS
  <2> HIDE DEF e
  <2>2. x.tree.drainable = e
    BY DEF e
  <2> QED
    BY <2>1, <2>2 DEF Range, IsInjective
<1> QED
  BY <1>1, <1>2, <1>3, <1>4 DEF Consistent, ConsistentFor

(* drain(): nothing is left parked.                                         *)
LEMMA DrainedAll ==
  ASSUME NEW x \in Worlds, Consistent(x), Clean(x)
  PROVE  LET y == DrainAll(x)
         IN  Kept(x, y) /\ Consistent(y)
<1>1. CASE x.tree.drainable = << >>
  <2>1. DrainAll(x) = x
    BY <1>1 DEF DrainAll
  <2> QED
    BY <2>1, KeptNot
<1>2. CASE x.tree.drainable # << >>
  <2> DEFINE q == x.tree.drainable
             n == Len(q)
             Part(y, r) ==
               /\ Kept(x, y)
               /\ y.tree.drainable = q /\ y.tree.palette = x.tree.palette
               /\ \A u \in Sockets : y.tree.indices[u] = x.tree.indices[u] \/ y.tree.indices[u] = << >>
               /\ \A i \in r : y.tree.indices[q[i]] = << >>
             T == [r \in SUBSET (1..n) |-> {y \in Worlds : Part(y, r)}]
  <2>1. q \in Seq(Sockets) /\ n \in Nat /\ DOMAIN q = 1..n
    <3>1. q \in Seq(Sockets)
      BY TreeHas
    <3> HIDE DEF q
    <3> QED
      BY <3>1
  <2>2. \A i \in 1..n : q[i] \in Sockets /\ x.ws[q[i]].closes = 0
    BY DrainableLives
  <2>3. \A u \in Sockets : x.tree.indices[u] # << >> => \E i \in 1..n : q[i] = u
    <3>1. Range(q) = {u \in Sockets : x.tree.indices[u] # << >>}
      BY DEF Consistent, ConsistentFor
    <3> HIDE DEF q
    <3> QED
      BY <2>1, <3>1 DEF Range
  <2>4. x \in T[{}]
    BY KeptNot
  <2>5. ASSUME NEW r \in SUBSET (1..n), r # {}, NEW y \in T[r \ {Max(r)}]
        PROVE  DrainImpl(y, q[Max(r)]) \in T[r]
    <3> DEFINE m == Max(r)
               s == q[m]
               z == DrainImpl(y, s)
    <3>1. m \in r /\ m \in 1..n
      BY <2>1, <2>5, GreatestExists
    <3>2. y \in Worlds /\ Part(y, r \ {m})
      BY <2>5
    <3> HIDE DEF m, q, n
    <3>3. s \in Sockets /\ y.ws[s].closes = 0
      BY <2>2, <3>1, <3>2 DEF Kept
    <3> HIDE DEF s
    <3>4. InPalette(y, s)
      <4>1. InPalette(x, s)
        BY <3>3 DEF Consistent, ConsistentFor
      <4>2. CASE y.tree.indices[s] = x.tree.indices[s]
        BY <3>2, <4>1, <4>2 DEF InPalette
      <4>3. CASE y.tree.indices[s] = << >>
        <5>1. Len(y.tree.indices[s]) = 0
          BY <4>3
        <5> QED
          BY <5>1 DEF InPalette
      <4> QED
        BY <3>2, <3>3, <4>2, <4>3
    <3>5. /\ Touched(y, z, s)
          /\ z.tree.drainable = y.tree.drainable /\ z.tree.palette = y.tree.palette
          /\ z.tree.indices[s] = << >>
          /\ \A u \in Sockets \ {s} : z.tree.indices[u] = y.tree.indices[u]
      BY <3>2, <3>3, <3>4, BatchDrained
    <3> HIDE DEF z
    <3>6. Kept(x, z)
      BY <3>2, <3>3, <3>5, TouchedIsKept, KeptTwice DEF Kept
    <3>7. \A u \in Sockets : z.tree.indices[u] = x.tree.indices[u] \/ z.tree.indices[u] = << >>
      BY <3>2, <3>5
    <3>8. ASSUME NEW i \in r PROVE z.tree.indices[q[i]] = << >>
      <4>1. i \in 1..n
        OBVIOUS
      <4>2. q[i] \in Sockets
        BY <2>2, <4>1
      <4>3. CASE q[i] = s
        BY <3>5, <4>3
      <4>4. CASE q[i] # s
        <5>1. i # m
          BY <4>4 DEF s
        <5> QED
          BY <3>2, <3>5, <4>2, <4>4, <5>1
      <4> QED
        BY <4>3, <4>4
    <3>9. Part(z, r) /\ z \in Worlds
      BY <3>2, <3>5, <3>6, <3>7, <3>8 DEF Kept
    <3>10. z \in T[r]
      BY <3>9
    <3> QED
      BY <3>10 DEF z, s, m
  <2> DEFINE y == FoldLeft(DrainImpl, x, q)
  <2>6. y \in T[1..n]
    <3> HIDE DEF q, n, T
    <3> QED
      BY <2>1, <2>4, <2>5, DrainFold
  <2>7. y \in Worlds /\ Part(y, 1..n)
    BY <2>6
  <2> DEFINE e == << >>
  <2>8. DrainAll(x) = [y EXCEPT !.tree.drainable = e, !.tree.palette = e]
    BY <1>2 DEF DrainAll
  <2> HIDE DEF q, n, y
  <2>9. \A u \in Sockets : y.tree.indices[u] = << >>
    BY <2>3, <2>7
  <2> DEFINE z == WithList(y, e, e)
  <2>10. e \in Seq(Sockets) /\ e \in Seq(Messages)
    OBVIOUS
  <2> HIDE DEF e
  <2>11. DrainAll(x) = z
    <3>1. [y EXCEPT !.tree.drainable = e, !.tree.palette = e] = z
      BY DEF WithList
    <3> QED
      BY <2>8, <3>1
  <2>12. /\ z \in Worlds
         /\ z.loop = y.loop /\ z.socket = y.socket /\ z.ws = y.ws
         /\ z.tree.topics = y.tree.topics /\ z.tree.iterating = y.tree.iterating
         /\ z.tree.indices = y.tree.indices
         /\ z.tree.drainable = e
    BY <2>7, <2>10, ListPut
  <2> HIDE DEF z
  <2>13. Clean(z)
    BY <2>7, <2>12 DEF Kept, Clean, CleanAt, Buffered
  <2>14. Kept(x, z)
    BY <2>7, <2>12, <2>13 DEF Kept, Released
  <2>15. \A u \in Sockets : z.ws[u].closes = 1 => \A t \in Topics : u \notin z.tree.topics[t]
    BY <2>14 DEF Kept, Consistent, ConsistentFor
  <2>16. Consistent(z)
    BY <2>9, <2>12, <2>15, ConsistentEmpty DEF e
  <2> QED
    BY <2>11, <2>14, <2>16
<1> QED
  BY <1>1, <1>2

(* One more in front of the list.                                           *)
LEMMA Linked ==
  ASSUME NEW q \in Seq(Sockets), IsInjective(q), NEW s \in Sockets, s \notin Range(q)
  PROVE  /\ <<s>> \o q \in Seq(Sockets) /\ IsInjective(<<s>> \o q)
         /\ Range(<<s>> \o q) = Range(q) \cup {s}
<1> DEFINE u == <<s>>
<1>1. u \in Seq(Sockets) /\ DOMAIN u = {1} /\ u[1] = s /\ Len(u) = 1
  OBVIOUS
<1>2. Distinct(u) /\ Range(u) = {s}
  <2> HIDE DEF u
  <2> QED
    BY <1>1 DEF Distinct, Range
<1>3. Distinct(q)
  BY DEF Distinct, IsInjective
<1> HIDE DEF u
<1>4. u \o q \in Seq(Sockets) /\ Range(u \o q) = Range(u) \cup Range(q) /\ Distinct(u \o q)
  BY <1>1, <1>2, <1>3, RangeOfConcat
<1>5. IsInjective(u \o q)
  BY <1>4 DEF Distinct, IsInjective
<1> QED
  BY <1>2, <1>4, <1>5 DEF u

(* A tree with another batch of one socket and another list.                *)
WithBatch(x, s, b, q) ==
  [x EXCEPT !.tree = [x.tree EXCEPT !.indices = [x.tree.indices EXCEPT ![s] = b], !.drainable = q]]

(* The tree with that batch and list.                                       *)
LEMMA BatchPut ==
  ASSUME NEW x \in Worlds, NEW s \in Sockets, NEW b \in Seq(Nat), NEW q \in Seq(Sockets)
  PROVE  LET y == WithBatch(x, s, b, q)
         IN  /\ Touched(x, y, s)
             /\ y.ws = x.ws
             /\ y.tree.drainable = q /\ y.tree.palette = x.tree.palette
             /\ y.tree.indices[s] = b
             /\ \A u \in Sockets \ {s} : y.tree.indices[u] = x.tree.indices[u]
<1> DEFINE f == [x.tree.indices EXCEPT ![s] = b]
<1>1. x.tree \in TreeData
  BY TreeIs
<1>2. f \in [Sockets -> Seq(Nat)] /\ f[s] = b /\ \A u \in Sockets \ {s} : f[u] = x.tree.indices[u]
  BY <1>1 DEF TreeData
<1> HIDE DEF f
<1> DEFINE r == [x.tree EXCEPT !.indices = f, !.drainable = q]
<1>3. /\ r \in TreeData /\ r.topics = x.tree.topics /\ r.iterating = x.tree.iterating
      /\ r.drainable = q /\ r.palette = x.tree.palette /\ r.indices = f
  BY <1>1, <1>2 DEF TreeData
<1> DEFINE y == WithTree(x, r)
<1>4. WithBatch(x, s, b, q) = y
  BY DEF WithTree, WithBatch, f
<1> HIDE DEF r
<1>5. /\ y \in Worlds /\ y.loop = x.loop /\ y.tree = r /\ y.ws = x.ws /\ y.socket = x.socket
  BY <1>3, TreePut
<1> HIDE DEF y
<1>6. Touched(x, y, s)
  BY <1>3, <1>5 DEF Touched, SameLife, Released
<1> QED
  BY <1>2, <1>3, <1>4, <1>5, <1>6

(* What the next message is parked as.                                      *)
LEMMA NextIndex ==
  ASSUME NEW x \in Worlds
  PROVE  /\ Len(x.tree.palette) \in Nat
         /\ Len(x.tree.palette) % (PaletteLimit + 1) \in Nat
         /\ Len(x.tree.palette) % (PaletteLimit + 1) <= Len(x.tree.palette)
<1> DEFINE n == Len(x.tree.palette)
           m == PaletteLimit + 1
<1>1. n \in Nat
  BY TreeHas
<1>2. m \in Nat \ {0}
  BY LimitsArePositive
<1> HIDE DEF n, m
<1>3. n % m \in Nat /\ n % m <= n
  <2>1. n % m \in 0..m - 1
    BY <1>1, <1>2
  <2>2. CASE n < m
    BY <1>1, <1>2, <2>1, <2>2
  <2>3. CASE n >= m
    BY <1>1, <1>2, <2>1, <2>3
  <2> QED
    BY <1>1, <1>2, <2>1, <2>2, <2>3
<1> QED
  BY <1>1, <1>3 DEF n, m

(* Parked for s: its batch is one longer, and it is in the list.            *)
LEMMA Parked ==
  ASSUME NEW x \in Worlds, NEW s \in Sockets, NEW P, s \notin P, ConsistentFor(x, P),
         x.ws[s].closes # 1, Len(x.tree.indices[s]) < BatchLimit
  PROVE  LET y == Park(x, s)
         IN  Touched(x, y, s) /\ ConsistentFor(y, P \cup {s})
<1> DEFINE k == Len(x.tree.palette) % (PaletteLimit + 1)
           c == x.tree.indices[s]
           b == Append(c, k)
           q == x.tree.drainable
           r == IF NeedsDrainage(x, s) THEN q ELSE <<s>> \o q
           y == WithBatch(x, s, b, r)
<1>1. Park(x, s) = y
  BY DEF Park, WithBatch
<1>2. /\ Len(x.tree.palette) \in Nat /\ k \in Nat /\ k <= Len(x.tree.palette)
  BY NextIndex
<1>3. c \in Seq(Nat) /\ q \in Seq(Sockets)
  BY TreeHas
<1>4. IsInjective(q) /\ Range(q) = {u \in Sockets : x.tree.indices[u] # << >>}
  BY DEF ConsistentFor
<1> HIDE DEF k, q
<1>5. /\ b \in Seq(Nat) /\ Len(b) = Len(c) + 1 /\ b # << >>
      /\ \A i \in 1..Len(b) : b[i] <= Len(x.tree.palette)
  <2> HIDE DEF c
  <2>1. Len(c) \in Nat /\ b \in Seq(Nat) /\ Len(b) = Len(c) + 1 /\ b # << >>
    <3>1. c \in Seq(Nat) /\ k \in Nat
      BY <1>2, <1>3
    <3> QED
      BY <3>1, LenProperties, AppendProperties
  <2>2. /\ \A i \in 1..Len(c) : b[i] = c[i]
        /\ b[Len(c) + 1] = k
    BY <1>2, <1>3
  <2>3. \A i \in 1..Len(c) : c[i] < Len(x.tree.palette) /\ c[i] \in Nat
    BY <1>3 DEF ConsistentFor, InPalette, c
  <2>4. ASSUME NEW i \in 1..Len(b) PROVE b[i] <= Len(x.tree.palette)
    <3>1. CASE i = Len(c) + 1
      BY <1>2, <2>2, <3>1
    <3>2. CASE i # Len(c) + 1
      <4>1. i \in 1..Len(c)
        BY <2>1, <3>2
      <4> QED
        BY <1>2, <2>2, <2>3, <4>1
    <3> QED
      BY <3>1, <3>2
  <2> QED
    BY <2>1, <2>4
<1>6. r \in Seq(Sockets) /\ IsInjective(r) /\ Range(r) = Range(q) \cup {s}
  <2>1. CASE NeedsDrainage(x, s)
    <3>1. s \in Range(q)
      BY <1>4, <2>1 DEF NeedsDrainage
    <3> QED
      BY <1>3, <1>4, <2>1, <3>1
  <2>2. CASE ~NeedsDrainage(x, s)
    <3>1. s \notin Range(q)
      BY <1>4, <2>2 DEF NeedsDrainage
    <3> QED
      BY <1>3, <1>4, <2>2, <3>1, Linked
  <2> QED
    BY <2>1, <2>2
<1> HIDE DEF r, b
<1>7. /\ Touched(x, y, s) /\ y.ws = x.ws
      /\ y.tree.drainable = r /\ y.tree.palette = x.tree.palette
      /\ y.tree.indices[s] = b
      /\ \A u \in Sockets \ {s} : y.tree.indices[u] = x.tree.indices[u]
  BY <1>5, <1>6, BatchPut
<1> HIDE DEF y
<1>8. Range(y.tree.drainable) = {u \in Sockets : y.tree.indices[u] # << >>}
  BY <1>4, <1>5, <1>6, <1>7
<1>9. /\ Len(y.tree.indices[s]) <= BatchLimit
      /\ ParkedNext(y, s)
  <2>1. Len(c) \in Nat /\ BatchLimit \in Nat
    BY <1>3, LimitsArePositive
  <2> QED
    BY <1>5, <1>7, <2>1 DEF ParkedNext
<1>10. ASSUME NEW u \in Sockets
       PROVE  /\ Len(y.tree.indices[u]) <= BatchLimit
              /\ u \in P \cup {s} => ParkedNext(y, u)
              /\ u \notin P \cup {s} => InPalette(y, u)
              /\ y.ws[u].closes = 1 =>
                   y.tree.indices[u] = << >> /\ \A t \in Topics : u \notin y.tree.topics[t]
  <2>1. CASE u = s
    BY <1>7, <1>9, <2>1
  <2>2. CASE u # s
    <3>1. /\ y.tree.indices[u] = x.tree.indices[u] /\ y.tree.palette = x.tree.palette
          /\ y.tree.topics = x.tree.topics
      BY <1>7, <2>2 DEF Touched
    <3> QED
      BY <1>7, <2>2, <3>1 DEF ConsistentFor, InPalette, ParkedNext
  <2> QED
    BY <2>1, <2>2
<1>11. ConsistentFor(y, P \cup {s})
  BY <1>6, <1>7, <1>8, <1>10 DEF ConsistentFor
<1> QED
  BY <1>1, <1>7, <1>11

(* What is in the batch of a socket has a length.                           *)
LEMMA BatchSize ==
  ASSUME NEW x \in Worlds, NEW s \in Sockets
  PROVE  Len(x.tree.indices[s]) \in Nat
  BY TreeHas

(* A full batch is drained before another message is parked.                *)
LEMMA ParkedFor ==
  ASSUME NEW x \in Worlds, NEW s \in Sockets, NEW P, s \notin P, ConsistentFor(x, P),
         Clean(x), x.ws[s].closes = 0
  PROVE  LET y == ParkFor(x, s)
         IN  Kept(x, y) /\ ConsistentFor(y, P \cup {s})
<1> DEFINE z == IF Len(x.tree.indices[s]) = BatchLimit THEN DrainOne(x, s) ELSE x
<1>1. /\ Touched(x, z, s) /\ ConsistentFor(z, P)
      /\ Len(z.tree.indices[s]) < BatchLimit
  <2>1. CASE Len(x.tree.indices[s]) = BatchLimit
    <3>1. z = DrainOne(x, s)
      BY <2>1
    <3> HIDE DEF z
    <3>2. Touched(x, z, s) /\ ConsistentFor(z, P) /\ z.tree.indices[s] = << >>
      BY <3>1, DrainedOne
    <3>3. Len(z.tree.indices[s]) = 0
      BY <3>2
    <3> QED
      BY <3>2, <3>3, LimitsArePositive
  <2>2. CASE Len(x.tree.indices[s]) # BatchLimit
    <3>1. z = x
      BY <2>2
    <3> HIDE DEF z
    <3>2. Len(x.tree.indices[s]) <= BatchLimit
      BY DEF ConsistentFor
    <3>3. Len(x.tree.indices[s]) < BatchLimit
      BY <2>2, <3>2, BatchSize, LimitsArePositive
    <3> QED
      BY <3>1, <3>3, TouchedNot
  <2> QED
    BY <2>1, <2>2
<1>2. ParkFor(x, s) = Park(z, s)
  BY DEF ParkFor
<1> HIDE DEF z
<1>3. z \in Worlds /\ z.ws[s].closes = 0
  BY <1>1 DEF Touched, SameLife
<1> DEFINE y == Park(z, s)
<1>4. Touched(z, y, s) /\ ConsistentFor(y, P \cup {s})
  BY <1>1, <1>3, Parked
<1> HIDE DEF y
<1>5. Touched(x, y, s)
  BY <1>1, <1>4, TouchedTwice
<1> QED
  BY <1>2, <1>4, <1>5, TouchedIsKept DEF y

(* Those who read are open, and each comes once.                            *)
LEMMA ReadersAre ==
  ASSUME NEW x \in Worlds, Consistent(x), Clean(x), NEW sender, NEW t \in Topics
  PROVE  LET q == Readers(x, sender, t)
         IN  /\ Len(q) \in Nat /\ DOMAIN q = 1..Len(q) /\ IsInjective(q)
             /\ \A i \in 1..Len(q) : q[i] \in Sockets /\ x.ws[q[i]].closes = 0
<1> DEFINE S == x.tree.topics[t] \ {sender}
           q == Readers(x, sender, t)
<1>1. S \subseteq Sockets
  BY TreeHas
<1>2. IsFiniteSet(S)
  BY <1>1, PubSubAssumption, FS_Subset
<1>3. q = SetToSeq(S)
  BY DEF Readers
<1>4. \A u \in S : u \in Sockets /\ x.ws[u].closes = 0
  BY <1>1 DEF Consistent, ConsistentFor, Clean, CleanAt
<1> HIDE DEF S, q
<1>5. q \in Seq(S) /\ Len(q) \in Nat /\ DOMAIN q = 1..Len(q) /\ IsInjective(q)
  BY <1>2, <1>3, OrderedSet
<1>6. \A i \in 1..Len(q) : q[i] \in S
  BY <1>5
<1> QED
  BY <1>4, <1>5, <1>6 DEF q

(* publish: a message is parked for each reader and then put in the palette. *)
LEMMA TreePublished ==
  ASSUME NEW x \in Worlds, Consistent(x), Clean(x), NEW sender, NEW t \in Topics,
         NEW message \in Messages
  PROVE  LET y == TreePublish(x, sender, t, message)
         IN  Kept(x, y) /\ Consistent(y)
<1> DEFINE z == MakeRoom(x)
<1>1. Kept(x, z) /\ Consistent(z)
  BY DrainedAll, KeptNot DEF MakeRoom
<1>2. CASE x.tree.topics[t] = {} \/ x.tree.topics[t] \subseteq {sender}
  <2>1. TreePublish(x, sender, t, message) \in {x, z}
    BY <1>2 DEF TreePublish
  <2> QED
    BY <1>1, <2>1, KeptNot
<1>3. CASE ~(x.tree.topics[t] = {} \/ x.tree.topics[t] \subseteq {sender})
  <2> DEFINE q == Readers(x, sender, t)
             n == Len(q)
             Those(r) == {q[i] : i \in r}
             T == [r \in SUBSET (1..n) |-> {y \in Worlds : Kept(z, y) /\ ConsistentFor(y, Those(r))}]
             w == FoldLeft(ParkFor, z, q)
  <2>1. /\ n \in Nat /\ DOMAIN q = 1..n /\ IsInjective(q)
        /\ \A i \in 1..n : q[i] \in Sockets /\ x.ws[q[i]].closes = 0
    BY ReadersAre
  <2>2. TreePublish(x, sender, t, message) = [w EXCEPT !.tree.palette = Append(@, message)]
    BY <1>3 DEF TreePublish
  <2> HIDE DEF z, q, n
  <2>3. z \in T[{}]
    <3>1. Those({}) = {}
      OBVIOUS
    <3>2. Kept(z, z) /\ z \in Worlds
      BY <1>1, KeptNot DEF Kept
    <3> HIDE DEF Those
    <3>3. ConsistentFor(z, Those({}))
      BY <1>1, <3>1 DEF Consistent
    <3> QED
      BY <3>2, <3>3
  <2>4. ASSUME NEW r \in SUBSET (1..n), r # {}, NEW y \in T[r \ {Max(r)}]
        PROVE  ParkFor(y, q[Max(r)]) \in T[r]
    <3> DEFINE m == Max(r)
               s == q[m]
               v == ParkFor(y, s)
               P == Those(r \ {m})
    <3>1. m \in r /\ m \in 1..n
      BY <2>1, <2>4, GreatestExists
    <3>2. y \in Worlds /\ Kept(z, y) /\ ConsistentFor(y, P)
      BY <2>4
    <3> HIDE DEF m
    <3>3. s \in Sockets /\ y.ws[s].closes = 0
      BY <1>1, <2>1, <3>1, <3>2 DEF Kept
    <3>4. s \notin P
      BY <2>1, <3>1 DEF IsInjective
    <3>5. P \cup {s} = Those(r)
      BY <3>1
    <3> HIDE DEF s, P, Those
    <3>6. Kept(y, v) /\ ConsistentFor(v, P \cup {s})
      BY <3>2, <3>3, <3>4, ParkedFor DEF Kept
    <3> HIDE DEF v
    <3>7. Kept(z, v) /\ ConsistentFor(v, Those(r)) /\ v \in Worlds
      BY <3>2, <3>5, <3>6, KeptTwice DEF Kept
    <3>8. v \in T[r]
      BY <3>7
    <3> QED
      BY <3>8 DEF v, s, m
  <2>5. w \in T[1..n]
    <3> HIDE DEF T
    <3> QED
      BY <2>1, <2>3, <2>4, ParkFold
  <2> DEFINE P == Those(1..n)
  <2>6. w \in Worlds /\ Kept(z, w) /\ ConsistentFor(w, P)
    BY <2>5
  <2> HIDE DEF w, Those, P
  <2> DEFINE p == Append(w.tree.palette, message)
             y == WithList(w, w.tree.drainable, p)
  <2>7. TreePublish(x, sender, t, message) = y
    <3>1. [w EXCEPT !.tree.palette = Append(@, message)] = [w EXCEPT !.tree.palette = p]
      OBVIOUS
    <3> HIDE DEF p
    <3>2. [w EXCEPT !.tree.palette = p] = WithList(w, w.tree.drainable, p)
      BY <2>6, ListIs
    <3> QED
      BY <2>2, <3>1, <3>2
  <2>8. p \in Seq(Messages) /\ Len(p) = Len(w.tree.palette) + 1 /\ Len(w.tree.palette) \in Nat
    <3>1. w.tree.palette \in Seq(Messages)
      BY <2>6, TreeHas
    <3> QED
      BY <3>1
  <2> HIDE DEF p
  <2>9. /\ y \in Worlds
        /\ y.loop = w.loop /\ y.socket = w.socket /\ y.ws = w.ws
        /\ y.tree.topics = w.tree.topics /\ y.tree.iterating = w.tree.iterating
        /\ y.tree.indices = w.tree.indices
        /\ y.tree.drainable = w.tree.drainable /\ y.tree.palette = p
    BY <2>6, <2>8, TreeHas, ListPut
  <2> HIDE DEF y
  <2>10. Clean(y)
    BY <2>6, <2>9 DEF Kept, Clean, CleanAt, Buffered
  <2>11. Kept(w, y)
    BY <2>9, <2>10 DEF Kept, Released
  <2>12. ASSUME NEW u \in Sockets PROVE InPalette(y, u)
    <3>1. ASSUME NEW i \in 1..Len(w.tree.indices[u])
          PROVE  w.tree.indices[u][i] < Len(w.tree.palette) + 1
      <4> DEFINE c == w.tree.indices[u]
      <4>1. c \in Seq(Nat)
        BY <2>6, TreeHas
      <4>2. c[i] <= Len(w.tree.palette) \/ c[i] < Len(w.tree.palette)
        BY <2>6 DEF ConsistentFor, ParkedNext, InPalette
      <4> HIDE DEF c
      <4>3. i \in 1..Len(c)
        BY DEF c
      <4>4. c[i] \in Nat
        BY <4>1, <4>3
      <4> QED
        BY <2>8, <4>2, <4>4 DEF c
    <3> QED
      BY <2>8, <2>9, <3>1 DEF InPalette
  <2>13. Consistent(y)
    BY <2>6, <2>9, <2>12 DEF Consistent, ConsistentFor
  <2> QED
    BY <1>1, <2>6, <2>7, <2>11, <2>13, KeptTwice
<1> QED
  BY <1>2, <1>3

-----------------------------------------------------------------------------
(* What the application asks for. *)

(* A message that s is owed.                                                *)
LEMMA Owed ==
  ASSUME NEW x \in Worlds, NEW s \in Sockets, NEW m \in Messages
  PROVE  LET y == Owe(x, s, m)
         IN  Messaged(x, y, s) /\ y.loop = x.loop
<1> DEFINE o == Append(x.ws[s].owed, m.id)
           k == [x.ws[s] EXCEPT !.owed = o]
<1>1. x.ws[s] \in WsData /\ m.id \in Nat
  BY WsIs DEF Messages
<1>2. x.ws[s].owed \in Seq(Nat)
  BY <1>1 DEF WsData
<1>3. o \in Seq(Nat)
  BY <1>1, <1>2
<1> HIDE DEF o
<1>4. k \in WsData /\ SameLife(x.ws[s], k)
  BY <1>1, <1>3 DEF WsData, SameLife
<1>5. Owe(x, s, m) = WithWs(x, s, k)
  BY DEF Owe, WithWs, o
<1> HIDE DEF k
<1> QED
  BY <1>4, <1>5, LifePut

(* One message to one socket.                                               *)
LEMMA SentOwed ==
  ASSUME NEW x \in Worlds, NEW s \in Sockets, NEW m \in Messages,
         Consistent(x), Clean(x), x.ws[s].closes = 0
  PROVE  LET y == SendOwed(x, s, m)
         IN  Kept(x, y) /\ Consistent(y)
<1> DEFINE z == Owe(x, s, m)
<1>1. Messaged(x, z, s) /\ z.loop = x.loop
  BY Owed
<1>2. SendOwed(x, s, m) = Send(z, s, m).x
  BY DEF SendOwed
<1> HIDE DEF z
<1>3. Touched(x, z, s) /\ Consistent(z) /\ z \in Worlds
  BY <1>1, MessagedIsTouched, ConsistentMessaged DEF Released, Consistent, Messaged
<1> DEFINE y == Send(z, s, m).x
<1>4. Touched(z, y, s) /\ Consistent(y)
  BY <1>3, SendTouches
<1> HIDE DEF y
<1>5. Kept(x, y)
  BY <1>3, <1>4, TouchedTwice, TouchedIsKept
<1> QED
  BY <1>2, <1>4, <1>5 DEF y

(* publishBig *)
LEMMA PublishedBig ==
  ASSUME NEW x \in Worlds, Consistent(x), Clean(x), NEW sender, NEW t \in Topics,
         NEW message \in Messages
  PROVE  LET y == PublishBig(x, sender, t, message)
         IN  Kept(x, y) /\ Consistent(y)
<1> DEFINE q == Readers(x, sender, t)
           n == Len(q)
           T == [r \in SUBSET (1..n) |-> {y \in Worlds : Kept(x, y) /\ Consistent(y)}]
           w == PublishBig(x, sender, t, message)
<1>1. /\ n \in Nat /\ DOMAIN q = 1..n
      /\ \A i \in 1..n : q[i] \in Sockets /\ x.ws[q[i]].closes = 0
  BY ReadersAre
<1>2. q = Readers(x, sender, t)
  OBVIOUS
<1> HIDE DEF q, n
<1>3. x \in T[{}]
  BY KeptNot
<1>4. ASSUME NEW r \in SUBSET (1..n), r # {}, NEW y \in T[r \ {Max(r)}]
      PROVE  SendOwed(y, q[Max(r)], message) \in T[r]
  <2> DEFINE s == q[Max(r)]
             z == SendOwed(y, s, message)
  <2>1. Max(r) \in 1..n
    BY <1>1, <1>4, GreatestExists
  <2>2. y \in Worlds /\ Kept(x, y) /\ Consistent(y)
    BY <1>4
  <2>3. s \in Sockets /\ y.ws[s].closes = 0
    BY <1>1, <2>1, <2>2 DEF Kept
  <2> HIDE DEF s
  <2>4. Kept(y, z) /\ Consistent(z)
    BY <2>2, <2>3, SentOwed DEF Kept
  <2> HIDE DEF z
  <2>5. Kept(x, z) /\ Consistent(z) /\ z \in Worlds
    BY <2>2, <2>4, KeptTwice DEF Kept
  <2>6. z \in T[r]
    BY <2>5
  <2> QED
    BY <2>6 DEF z, s
<1>5. w \in T[1..n]
  <2> HIDE DEF T
  <2> QED
    BY <1>1, <1>2, <1>3, <1>4, SendFold
<1> QED
  BY <1>5

(* A message that all readers are owed.                                     *)
LEMMA OwedAll ==
  ASSUME NEW x \in Worlds, Consistent(x), Clean(x), NEW readers, NEW m \in Messages
  PROVE  LET y == OweAll(x, readers, m)
         IN  Kept(x, y) /\ Consistent(y)
<1> DEFINE k(s) == [x.ws[s] EXCEPT !.owed = Append(x.ws[s].owed, m.id)]
           f == [s \in Sockets |-> IF s \in readers THEN k(s) ELSE x.ws[s]]
           y == [x EXCEPT !.ws = f]
<1>1. OweAll(x, readers, m) = y
  BY DEF OweAll
<1>2. ASSUME NEW s \in Sockets PROVE f[s] \in WsData /\ SameLife(x.ws[s], f[s])
  <2>1. x.ws[s] \in WsData
    BY WsIs
  <2>2. CASE s \in readers
    <3> DEFINE o == Append(x.ws[s].owed, m.id)
    <3>1. o \in Seq(Nat)
      <4>1. x.ws[s].owed \in Seq(Nat) /\ m.id \in Nat
        BY <2>1 DEF WsData, Messages
      <4> QED
        BY <4>1
    <3>2. f[s] = [x.ws[s] EXCEPT !.owed = o]
      BY <2>2
    <3> HIDE DEF o, f
    <3> QED
      BY <2>1, <3>1, <3>2 DEF WsData, SameLife
  <2>3. CASE s \notin readers
    <3>1. f[s] = x.ws[s]
      BY <2>3
    <3> HIDE DEF f
    <3> QED
      BY <2>1, <3>1 DEF SameLife
  <2> QED
    BY <2>2, <2>3
<1>3. f \in [Sockets -> WsData]
  <2>1. f = [s \in Sockets |-> f[s]]
    OBVIOUS
  <2> HIDE DEF f
  <2> QED
    BY <1>2, <2>1
<1> HIDE DEF f
<1>4. /\ y \in Worlds /\ y.ws = f
      /\ y.loop = x.loop /\ y.tree = x.tree /\ y.socket = x.socket
  BY <1>3 DEF Worlds
<1> HIDE DEF y
<1>5. Clean(y)
  BY <1>2, <1>4 DEF Clean, CleanAt, SameLife, Buffered
<1>6. Kept(x, y)
  BY <1>2, <1>4, <1>5 DEF Kept, Released, SameLife
<1>7. \A s \in Sockets : y.ws[s].closes = x.ws[s].closes
  BY <1>6 DEF Kept
<1>8. Consistent(y)
  BY <1>4, <1>7 DEF Consistent, ConsistentFor, InPalette, ParkedNext
<1> QED
  BY <1>1, <1>6, <1>8

(* publish of App and of a socket.                                          *)
LEMMA AppPublished ==
  ASSUME NEW x \in Worlds, Consistent(x), Clean(x), NEW sender, NEW t \in Topics,
         NEW message \in Messages
  PROVE  LET y == AppPublish(x, sender, t, message)
         IN  Kept(x, y) /\ Consistent(y)
<1>1. CASE IsBig(message)
  <2>1. AppPublish(x, sender, t, message) = PublishBig(x, sender, t, message)
    BY <1>1 DEF AppPublish
  <2> QED
    BY <2>1, PublishedBig
<1>2. CASE ~IsBig(message)
  <2> DEFINE z == OweAll(x, x.tree.topics[t] \ {sender}, message)
             y == TreePublish(z, sender, t, message)
  <2>1. AppPublish(x, sender, t, message) = y
    BY <1>2 DEF AppPublish
  <2>2. Kept(x, z) /\ Consistent(z)
    BY OwedAll
  <2> HIDE DEF z
  <2>3. Kept(z, y) /\ Consistent(y)
    BY <2>2, TreePublished DEF Kept
  <2> HIDE DEF y
  <2> QED
    BY <2>1, <2>2, <2>3, KeptTwice
<1> QED
  BY <1>1, <1>2

(* A socket without a subscriber publishes nothing.                         *)
LEMMA Published ==
  ASSUME NEW x \in Worlds, Consistent(x), Clean(x), NEW s \in Sockets, NEW t \in Topics,
         NEW message \in Messages
  PROVE  LET y == Publish(x, s, t, message)
         IN  Kept(x, y) /\ Consistent(y)
<1>1. CASE x.ws[s].subscriber
  BY <1>1, AppPublished DEF Publish
<1>2. CASE ~x.ws[s].subscriber
  BY <1>2, KeptNot DEF Publish
<1> QED
  BY <1>1, <1>2

-----------------------------------------------------------------------------
(* The end of a socket. *)

(* A tree without a subscriber.                                             *)
LEMMA Freed ==
  ASSUME NEW x \in Worlds, NEW s \in Sockets, Consistent(x)
  PROVE  LET y == FreeSubscriber(x, s)
         IN  /\ y \in Worlds
             /\ y.loop = x.loop /\ y.socket = x.socket /\ y.ws = x.ws
             /\ y.tree.iterating = x.tree.iterating /\ y.tree.palette = x.tree.palette
             /\ \A t \in Topics : y.tree.topics[t] = x.tree.topics[t] \ {s}
             /\ y.tree.indices[s] = << >>
             /\ \A u \in Sockets \ {s} : y.tree.indices[u] = x.tree.indices[u]
             /\ IsInjective(y.tree.drainable)
             /\ Range(y.tree.drainable) = Range(x.tree.drainable) \ {s}
<1> DEFINE e == << >>
           q == RemoveFirst(x.tree.drainable, s)
           f == [x.tree.indices EXCEPT ![s] = e]
           g == [t \in Topics |-> x.tree.topics[t] \ {s}]
           r == [x.tree EXCEPT !.drainable = q, !.topics = g, !.indices = f]
           y == WithTree(x, r)
<1>1. x.tree \in TreeData
  BY TreeIs
<1>2. /\ q \in Seq(Sockets) /\ IsInjective(q)
      /\ Range(q) = Range(x.tree.drainable) \ {s}
  BY TreeHas, Unlinked DEF Consistent, ConsistentFor
<1>3. e \in Seq(Nat)
  OBVIOUS
<1>4. FreeSubscriber(x, s) = y
  BY <1>1 DEF FreeSubscriber, Unlink, WithTree, TreeData
<1> HIDE DEF e, q
<1>5. f \in [Sockets -> Seq(Nat)] /\ f[s] = e /\ \A u \in Sockets \ {s} : f[u] = x.tree.indices[u]
  BY <1>1, <1>3 DEF TreeData
<1>6. g \in [Topics -> SUBSET Sockets] /\ \A t \in Topics : g[t] = x.tree.topics[t] \ {s}
  BY <1>1 DEF TreeData
<1> HIDE DEF f, g
<1>7. /\ r \in TreeData /\ r.topics = g /\ r.iterating = x.tree.iterating
      /\ r.drainable = q /\ r.palette = x.tree.palette /\ r.indices = f
  BY <1>1, <1>2, <1>5, <1>6 DEF TreeData
<1> HIDE DEF r
<1>8. /\ y \in Worlds /\ y.loop = x.loop /\ y.tree = r /\ y.ws = x.ws /\ y.socket = x.socket
  BY <1>7, TreePut
<1> HIDE DEF y
<1> QED
  BY <1>2, <1>4, <1>5, <1>6, <1>7, <1>8 DEF e

(* on_close: the close event, and the subscriber is gone.                   *)
LEMMA CloseGiven ==
  ASSUME NEW x \in Worlds, NEW s \in Sockets, Consistent(x), x.ws[s].closes = 0
  PROVE  LET y == CloseEvent(x, s)
         IN  /\ y \in Worlds /\ Consistent(y)
             /\ y.loop = x.loop /\ y.socket = x.socket /\ y.tree.iterating = x.tree.iterating
             /\ \A u \in Sockets \ {s} : y.ws[u] = x.ws[u]
             /\ y.ws[s].closes = 1
             /\ y.ws[s].isShuttingDown = x.ws[s].isShuttingDown
             /\ y.ws[s].lossy = x.ws[s].lossy
<1> DEFINE z == FreeSubscriber(x, s)
           k == [z.ws[s] EXCEPT !.subscriber = FALSE, !.closes = @ + 1]
           y == WithWs(z, s, k)
<1>1. /\ z \in Worlds
      /\ z.loop = x.loop /\ z.socket = x.socket /\ z.ws = x.ws
      /\ z.tree.iterating = x.tree.iterating /\ z.tree.palette = x.tree.palette
      /\ \A t \in Topics : z.tree.topics[t] = x.tree.topics[t] \ {s}
      /\ z.tree.indices[s] = << >>
      /\ \A u \in Sockets \ {s} : z.tree.indices[u] = x.tree.indices[u]
      /\ IsInjective(z.tree.drainable)
      /\ Range(z.tree.drainable) = Range(x.tree.drainable) \ {s}
  BY Freed
<1>2. CloseEvent(x, s) = y
  BY <1>1 DEF CloseEvent, WithWs, Worlds
<1> HIDE DEF z
<1>3. /\ k \in WsData /\ k.closes = 1
      /\ k.isShuttingDown = x.ws[s].isShuttingDown /\ k.lossy = x.ws[s].lossy
  <2> DEFINE w == z.ws[s]
  <2>1. w \in WsData /\ w.closes = 0 /\ w = x.ws[s]
    BY <1>1, WsIs
  <2>2. k = [w EXCEPT !.subscriber = FALSE, !.closes = 1]
    BY <2>1 DEF WsData
  <2> HIDE DEF w, k
  <2> QED
    BY <2>1, <2>2 DEF WsData
<1> HIDE DEF k
<1>4. /\ y \in Worlds
      /\ y.loop = z.loop /\ y.tree = z.tree /\ y.socket = z.socket
      /\ y.ws[s] = k
      /\ \A u \in Sockets \ {s} : y.ws[u] = z.ws[u]
  BY <1>1, <1>3, WsPut
<1> HIDE DEF y
<1>5. Range(y.tree.drainable) = {u \in Sockets : y.tree.indices[u] # << >>}
  BY <1>1, <1>4 DEF Consistent, ConsistentFor
<1>6. ASSUME NEW u \in Sockets
      PROVE  /\ Len(y.tree.indices[u]) <= BatchLimit
             /\ InPalette(y, u)
             /\ y.ws[u].closes = 1 =>
                  y.tree.indices[u] = << >> /\ \A t \in Topics : u \notin y.tree.topics[t]
  <2>1. CASE u = s
    <3>1. Len(y.tree.indices[s]) = 0 /\ y.tree.indices[s] = << >>
      BY <1>1, <1>4
    <3>2. InPalette(y, s) /\ 0 <= BatchLimit
      BY <3>1, LimitsArePositive DEF InPalette
    <3>3. \A t \in Topics : s \notin y.tree.topics[t]
      BY <1>1, <1>4
    <3> QED
      BY <2>1, <3>1, <3>2, <3>3
  <2>2. CASE u # s
    <3>1. /\ y.tree.indices[u] = x.tree.indices[u] /\ y.tree.palette = x.tree.palette
          /\ y.ws[u] = x.ws[u]
      BY <1>1, <1>4, <2>2
    <3>2. \A t \in Topics : u \in y.tree.topics[t] => u \in x.tree.topics[t]
      BY <1>1, <1>4
    <3> QED
      BY <3>1, <3>2 DEF Consistent, ConsistentFor, InPalette
  <2> QED
    BY <2>1, <2>2
<1>7. Consistent(y)
  BY <1>1, <1>4, <1>5, <1>6 DEF Consistent, ConsistentFor
<1> QED
  BY <1>1, <1>2, <1>3, <1>4, <1>7

(* What holds between the calls, where the handler that runs may hold the   *)
(* cork at h; the process ends only where topics are being iterated.        *)
Good(h, x) ==
  /\ x \in Worlds
  /\ Consistent(x)
  /\ Clean(x)
  /\ x.loop.dead <=> x.tree.iterating # NoSocket
  /\ x.loop.corked \in {h, NoSocket}

(* A call on several sockets that keeps the tree consistent.                *)
LEMMA KeptIsGood ==
  ASSUME NEW h, NEW x, NEW y, Good(h, x), Kept(x, y), Consistent(y)
  PROVE  Good(h, y)
  BY DEF Good, Kept, Released

(* A call on one socket that does.                                          *)
LEMMA TouchedIsGood ==
  ASSUME NEW h, NEW x, NEW y, NEW s \in Sockets, Good(h, x), x.ws[s].closes = 0,
         Touched(x, y, s), Consistent(y)
  PROVE  Good(h, y)
  BY TouchedIsKept, KeptIsGood DEF Good

(* Who ends or has closed has got the close event; who has not may be used. *)
LEMMA OpenIs ==
  ASSUME NEW x, Clean(x), NEW s \in Sockets
  PROVE  /\ x.ws[s].closes \in {0, 1}
         /\ x.ws[s].closes = 0 <=> ~x.ws[s].isShuttingDown /\ ~x.socket[s].closed
         /\ x.ws[s].closes = 0 => ~(x.socket[s].shut /\ ~x.socket[s].closed)
  BY DEF Clean, CleanAt

(* A closed socket has nothing.                                             *)
LEMMA SocketGone ==
  ASSUME NEW x \in Worlds, NEW s \in Sockets
  PROVE  LET y == [x EXCEPT !.socket[s] = [NewSocket EXCEPT !.closed = TRUE], !.ws[s].owed = << >>]
         IN  /\ y \in Worlds
             /\ y.loop = x.loop /\ y.tree = x.tree
             /\ \A u \in Sockets \ {s} : y.socket[u] = x.socket[u] /\ y.ws[u] = x.ws[u]
             /\ SameLife(x.ws[s], y.ws[s]) /\ y.ws[s].lossy = x.ws[s].lossy
             /\ y.socket[s].closed
<1> DEFINE e == << >>
           k == [NewSocket EXCEPT !.closed = TRUE]
           j == [x.ws[s] EXCEPT !.owed = e]
           z == WithSocket(x, s, k)
           y == WithWs(z, s, j)
<1>1. k \in SocketData /\ k.closed
  <2> DEFINE n == NewSocket
  <2>1. /\ n = [buffer |-> e, pendingRemoval |-> 0, wire |-> e,
                closed |-> FALSE, shut |-> FALSE, polling |-> FALSE]
    BY DEF NewSocket
  <2>2. e \in Seq(Tokens) /\ Len(e) = 0
    OBVIOUS
  <2>3. k = [n EXCEPT !.closed = TRUE]
    OBVIOUS
  <2> HIDE DEF e, n, k
  <2>4. k = [buffer |-> e, pendingRemoval |-> 0, wire |-> e,
             closed |-> TRUE, shut |-> FALSE, polling |-> FALSE]
    BY <2>1, <2>3
  <2> QED
    BY <2>2, <2>4 DEF SocketData
<1>2. e \in Seq(Nat)
  OBVIOUS
<1>3. [x EXCEPT !.socket[s] = [NewSocket EXCEPT !.closed = TRUE], !.ws[s].owed = << >>] = y
  <2> HIDE DEF e, k
  <2> QED
    BY DEF WithWs, WithSocket, Worlds, e, k
<1> HIDE DEF e, k
<1>4. x.ws[s] \in WsData
  BY WsIs
<1>5. /\ j \in WsData /\ SameLife(x.ws[s], j) /\ j.lossy = x.ws[s].lossy
  BY <1>2, <1>4 DEF WsData, SameLife
<1> HIDE DEF j
<1>6. /\ z \in Worlds
      /\ z.loop = x.loop /\ z.tree = x.tree /\ z.ws = x.ws
      /\ z.socket[s] = k
      /\ \A u \in Sockets \ {s} : z.socket[u] = x.socket[u]
  BY <1>1, SocketPut
<1> HIDE DEF z
<1>7. /\ y \in Worlds
      /\ y.loop = z.loop /\ y.tree = z.tree /\ y.socket = z.socket
      /\ y.ws[s] = j
      /\ \A u \in Sockets \ {s} : y.ws[u] = z.ws[u]
  BY <1>5, <1>6, WsPut
<1> HIDE DEF y
<1> QED
  BY <1>1, <1>3, <1>5, <1>6, <1>7

(* us_socket_close: the close event is given unless it was.                 *)
LEMMA SocketClosed ==
  ASSUME NEW h, NEW x, NEW s \in Sockets, Good(h, x)
  PROVE  Good(h, CloseSocket(x, s))
<1>0. /\ x \in Worlds /\ Consistent(x) /\ Clean(x)
  BY DEF Good
<1> DEFINE z == [x EXCEPT !.socket[s] = [NewSocket EXCEPT !.closed = TRUE], !.ws[s].owed = << >>]
<1>1. /\ z \in Worlds
      /\ z.loop = x.loop /\ z.tree = x.tree
      /\ \A u \in Sockets \ {s} : z.socket[u] = x.socket[u] /\ z.ws[u] = x.ws[u]
      /\ SameLife(x.ws[s], z.ws[s]) /\ z.ws[s].lossy = x.ws[s].lossy
      /\ z.socket[s].closed
  BY <1>0, SocketGone
<1>2. CASE x.socket[s].closed
  BY <1>2 DEF CloseSocket
<1>3. CASE ~x.socket[s].closed /\ x.ws[s].isShuttingDown
  <2>1. CloseSocket(x, s) = z
    BY <1>3 DEF CloseSocket
  <2> HIDE DEF z
  <2>2. \A u \in Sockets : z.ws[u].closes = x.ws[u].closes
    BY <1>1 DEF SameLife
  <2>3. Consistent(z)
    BY <1>0, <1>1, <2>2 DEF Consistent, ConsistentFor, InPalette, ParkedNext
  <2>4. CleanAt(z, s)
    BY <1>0, <1>1, <1>3 DEF Clean, CleanAt, SameLife
  <2>5. \A u \in Sockets \ {s} : CleanAt(z, u)
    BY <1>0, <1>1 DEF Clean, CleanAt, Buffered
  <2>6. Clean(z)
    BY <2>4, <2>5 DEF Clean
  <2> QED
    BY <1>1, <2>1, <2>3, <2>6 DEF Good
<1>4. CASE ~x.socket[s].closed /\ ~x.ws[s].isShuttingDown
  <2> DEFINE y == CloseEvent(z, s)
  <2>1. CloseSocket(x, s) = y
    BY <1>4 DEF CloseSocket
  <2> HIDE DEF z
  <2>2. \A u \in Sockets : z.ws[u].closes = x.ws[u].closes
    BY <1>1 DEF SameLife
  <2>3. Consistent(z) /\ z.ws[s].closes = 0
    BY <1>0, <1>1, <1>4, <2>2, OpenIs DEF Consistent, ConsistentFor, InPalette, ParkedNext
  <2>4. /\ y \in Worlds /\ Consistent(y)
        /\ y.loop = z.loop /\ y.socket = z.socket /\ y.tree.iterating = z.tree.iterating
        /\ \A u \in Sockets \ {s} : y.ws[u] = z.ws[u]
        /\ y.ws[s].closes = 1
    BY <1>1, <2>3, CloseGiven
  <2> HIDE DEF y
  <2>5. CleanAt(y, s)
    BY <1>1, <2>4 DEF CleanAt
  <2>6. ASSUME NEW u \in Sockets \ {s} PROVE CleanAt(y, u)
    <3>1. y.socket[u] = x.socket[u] /\ y.ws[u] = x.ws[u] /\ y.loop = x.loop
      BY <1>1, <2>4
    <3> QED
      BY <1>0, <3>1 DEF Clean, CleanAt, Buffered
  <2>7. Clean(y)
    BY <2>5, <2>6 DEF Clean
  <2> QED
    BY <1>1, <2>1, <2>4, <2>7 DEF Good
<1> QED
  BY <1>2, <1>3, <1>4

(* WebSocket::close, which does nothing once the socket ends.               *)
LEMMA WsClosed ==
  ASSUME NEW h, NEW x, NEW s \in Sockets, Good(h, x)
  PROVE  Good(h, WsClose(x, s))
<1>1. CASE x.ws[s].isShuttingDown
  BY <1>1 DEF WsClose
<1>2. CASE ~x.ws[s].isShuttingDown
  BY <1>2, SocketClosed DEF WsClose
<1> QED
  BY <1>1, <1>2

(* A FIN.                                                                   *)
LEMMA ShutDown ==
  ASSUME NEW x \in Worlds, NEW s \in Sockets
  PROVE  LET y == Shutdown(x, s)
         IN  /\ y \in Worlds
             /\ y.loop = x.loop /\ y.tree = x.tree /\ y.ws = x.ws
             /\ \A u \in Sockets \ {s} : y.socket[u] = x.socket[u]
             /\ y.socket[s].closed = x.socket[s].closed
             /\ Buffered(y, s) = Buffered(x, s)
<1> DEFINE c == x.socket[s]
           b == c.shut \/ ~c.closed
           R == [buffer : Seq(Tokens), pendingRemoval : Nat, wire : Seq(Tokens),
                 closed : BOOLEAN, shut : BOOLEAN, polling : BOOLEAN]
           k == [c EXCEPT !.shut = b]
           y == WithSocket(x, s, k)
<1>1. c \in SocketData
  BY DEF Worlds
<1>2. c \in R /\ c.pendingRemoval <= Len(c.buffer)
  BY <1>1 DEF SocketData
<1>3. Shutdown(x, s) = y
  BY DEF Shutdown, WithSocket
<1> HIDE DEF c
<1>4. b \in BOOLEAN
  OBVIOUS
<1> HIDE DEF b
<1>5. /\ k \in R /\ k.buffer = c.buffer /\ k.pendingRemoval = c.pendingRemoval
      /\ k.closed = c.closed
  BY <1>2, <1>4
<1>6. k \in SocketData
  <2> HIDE DEF k
  <2> QED
    BY <1>2, <1>5 DEF SocketData
<1> HIDE DEF k
<1>7. /\ y \in Worlds
      /\ y.loop = x.loop /\ y.tree = x.tree /\ y.ws = x.ws
      /\ y.socket[s] = k
      /\ \A u \in Sockets \ {s} : y.socket[u] = x.socket[u]
  BY <1>6, SocketPut
<1> HIDE DEF y
<1>8. Buffered(y, s) = Buffered(x, s)
  BY <1>5, <1>7 DEF Buffered, c
<1> QED
  BY <1>3, <1>5, <1>7, <1>8 DEF c

(* A WebSocket that begins to shut down.                                    *)
LEMMA Ending ==
  ASSUME NEW x \in Worlds, NEW s \in Sockets
  PROVE  LET y == [x EXCEPT !.ws[s].isShuttingDown = TRUE]
         IN  /\ y \in Worlds
             /\ y.loop = x.loop /\ y.tree = x.tree /\ y.socket = x.socket
             /\ \A u \in Sockets \ {s} : y.ws[u] = x.ws[u]
             /\ y.ws[s].isShuttingDown = TRUE /\ y.ws[s].closes = x.ws[s].closes
<1> DEFINE k == [x.ws[s] EXCEPT !.isShuttingDown = TRUE]
           y == WithWs(x, s, k)
<1>1. [x EXCEPT !.ws[s].isShuttingDown = TRUE] = y
  BY DEF WithWs
<1>2. x.ws[s] \in WsData
  BY WsIs
<1>3. k \in WsData /\ k.isShuttingDown = TRUE /\ k.closes = x.ws[s].closes
  BY <1>2 DEF WsData
<1> HIDE DEF k
<1>4. /\ y \in Worlds
      /\ y.loop = x.loop /\ y.tree = x.tree /\ y.socket = x.socket
      /\ y.ws[s] = k
      /\ \A u \in Sockets \ {s} : y.ws[u] = x.ws[u]
  BY <1>3, WsPut
<1> HIDE DEF y
<1> QED
  BY <1>1, <1>3, <1>4

(* end: the close frame, the FIN unless the frame waits, the close event.   *)
LEMMA Ended ==
  ASSUME NEW h, NEW x, NEW s \in Sockets, NEW m \in Messages, Good(h, x),
         ~x.socket[s].closed \/ x.ws[s].closes = 0
  PROVE  Good(h, End(x, s, m))
<1>0. x \in Worlds /\ Consistent(x) /\ Clean(x)
  BY DEF Good
<1>1. CASE x.ws[s].isShuttingDown
  BY <1>1 DEF End
<1>2. CASE ~x.ws[s].isShuttingDown
  <2> DEFINE z == [x EXCEPT !.ws[s].isShuttingDown = TRUE]
             sent == Send(z, s, m)
             v == FinAfter(sent, s)
             y == CloseEvent(v, s)
  <2>0. End(x, s, m) = y
    BY <1>2 DEF End
  <2>1. x.ws[s].closes = 0 /\ ~x.socket[s].closed /\ ~x.socket[s].shut
    <3>1. x.ws[s].closes = 0 /\ ~x.socket[s].closed
      BY <1>0, <1>2, OpenIs
    <3> QED
      BY <1>0, <3>1, OpenIs
  <2>2. /\ z \in Worlds
        /\ z.loop = x.loop /\ z.tree = x.tree /\ z.socket = x.socket
        /\ \A u \in Sockets \ {s} : z.ws[u] = x.ws[u]
        /\ z.ws[s].isShuttingDown = TRUE /\ z.ws[s].closes = 0
    BY <1>0, <2>1, Ending
  <2> HIDE DEF z
  <2>3. Consistent(z)
    <3>1. \A u \in Sockets : z.ws[u].closes = x.ws[u].closes
      BY <2>1, <2>2
    <3> QED
      BY <1>0, <2>2, <3>1 DEF Consistent, ConsistentFor, InPalette, ParkedNext
  <2>4. Touched(z, sent.x, s) /\ Consistent(sent.x) /\ Settled(z, sent, s)
    BY <2>2, <2>3, SendTouches
  <2> HIDE DEF sent
  <2>5. /\ sent.x \in Worlds
        /\ \A u \in Sockets \ {s} : sent.x.socket[u] = x.socket[u] /\ sent.x.ws[u] = x.ws[u]
        /\ sent.x.ws[s].isShuttingDown /\ sent.x.ws[s].closes = 0
        /\ ~sent.x.socket[s].closed /\ ~sent.x.socket[s].shut
        /\ sent.x.loop.dead = x.loop.dead /\ sent.x.tree.iterating = x.tree.iterating
        /\ sent.x.loop.corked \in {x.loop.corked, NoSocket}
    BY <2>1, <2>2, <2>4 DEF Touched, SameLife, Released
  <2>6. /\ v \in Worlds
        /\ v.loop = sent.x.loop /\ v.tree = sent.x.tree /\ v.ws = sent.x.ws
        /\ \A u \in Sockets \ {s} : v.socket[u] = x.socket[u]
        /\ ~v.socket[s].closed
        /\ v.socket[s].shut => Buffered(v, s) = << >> \/ v.ws[s].lossy
        /\ v.socket[s].shut => v.loop.corked # s
    <3>1. CASE sent.status # "BACKPRESSURE" /\ ~IsCorked(sent.x, s)
      <4> DEFINE f == Shutdown(sent.x, s)
      <4>1. v = f
        BY <3>1 DEF FinAfter
      <4>2. /\ f \in Worlds
            /\ f.loop = sent.x.loop /\ f.tree = sent.x.tree /\ f.ws = sent.x.ws
            /\ \A u \in Sockets \ {s} : f.socket[u] = sent.x.socket[u]
            /\ f.socket[s].closed = sent.x.socket[s].closed
            /\ Buffered(f, s) = Buffered(sent.x, s)
        BY <2>5, ShutDown
      <4> HIDE DEF f
      <4>3. Buffered(sent.x, s) = << >> \/ sent.x.ws[s].lossy
        BY <2>1, <2>2, <2>4, <3>1 DEF Settled
      <4>4. sent.x.loop.corked # s
        BY <3>1 DEF IsCorked
      <4> HIDE DEF v
      <4>5. v \in Worlds /\ ~v.socket[s].closed
        BY <2>5, <4>1, <4>2
      <4>6. \A u \in Sockets \ {s} : v.socket[u] = x.socket[u]
        BY <2>5, <4>1, <4>2
      <4>7. Buffered(v, s) = << >> \/ v.ws[s].lossy
        BY <4>1, <4>2, <4>3
      <4> QED
        BY <4>1, <4>2, <4>4, <4>5, <4>6, <4>7
    <3>2. CASE ~(sent.status # "BACKPRESSURE" /\ ~IsCorked(sent.x, s))
      <4>1. v = sent.x
        BY <3>2 DEF FinAfter
      <4> HIDE DEF v
      <4> QED
        BY <2>5, <4>1
    <3> QED
      BY <3>1, <3>2
  <2> HIDE DEF v
  <2>7. Consistent(v) /\ v.ws[s].closes = 0
    BY <2>4, <2>5, <2>6 DEF Consistent, ConsistentFor, InPalette, ParkedNext
  <2>8. /\ y \in Worlds /\ Consistent(y)
        /\ y.loop = v.loop /\ y.socket = v.socket /\ y.tree.iterating = v.tree.iterating
        /\ \A u \in Sockets \ {s} : y.ws[u] = v.ws[u]
        /\ y.ws[s].closes = 1
        /\ y.ws[s].isShuttingDown = v.ws[s].isShuttingDown
        /\ y.ws[s].lossy = v.ws[s].lossy
    BY <2>6, <2>7, CloseGiven
  <2> HIDE DEF y
  <2>9. CleanAt(y, s)
    <3>1. Buffered(y, s) = Buffered(v, s)
      BY <2>8 DEF Buffered
    <3> QED
      BY <2>5, <2>6, <2>8, <3>1 DEF CleanAt
  <2>10. ASSUME NEW u \in Sockets \ {s} PROVE CleanAt(y, u)
    <3>1. y.socket[u] = x.socket[u] /\ y.ws[u] = x.ws[u]
      BY <2>5, <2>6, <2>8
    <3>2. x.loop.corked # u => y.loop.corked # u
      BY <2>5, <2>6, <2>8, PubSubAssumption
    <3> QED
      BY <1>0, <3>1, <3>2 DEF Clean, CleanAt, Buffered
  <2>11. Clean(y)
    BY <2>9, <2>10 DEF Clean
  <2> QED
    BY <2>0, <2>5, <2>6, <2>8, <2>11 DEF Good
<1> QED
  BY <1>1, <1>2

-----------------------------------------------------------------------------
(* Who reads what. *)

(* What a call that only changes the topics leaves alone.                   *)
Regrouped(x, y) ==
  /\ y \in Worlds
  /\ Consistent(y)
  /\ Clean(y)
  /\ y.loop = x.loop
  /\ y.tree.iterating = x.tree.iterating
  /\ \A u \in Sockets : y.ws[u].closes = x.ws[u].closes

(* One such call after the other.                                           *)
LEMMA RegroupedTwice ==
  ASSUME NEW x, NEW y, NEW z, Regrouped(x, y), Regrouped(y, z)
  PROVE  Regrouped(x, z)
  BY DEF Regrouped

(* It keeps what holds between the calls.                                   *)
LEMMA RegroupedIsGood ==
  ASSUME NEW h, NEW x, NEW y, Good(h, x), Regrouped(x, y)
  PROVE  Good(h, y)
  BY DEF Good, Regrouped

(* The readers of a topic replaced.                                         *)
WithReaders(x, t, S) == [x EXCEPT !.tree = [x.tree EXCEPT !.topics = [x.tree.topics EXCEPT ![t] = S]]]

(* A topic may be given any readers that are open.                          *)
LEMMA ReadersPut ==
  ASSUME NEW x \in Worlds, Consistent(x), Clean(x), NEW t \in Topics, NEW S \in SUBSET Sockets,
         \A u \in S : x.ws[u].closes # 1
  PROVE  Regrouped(x, WithReaders(x, t, S))
<1> DEFINE f == [x.tree.topics EXCEPT ![t] = S]
<1>1. x.tree \in TreeData
  BY TreeIs
<1>2. f \in [Topics -> SUBSET Sockets] /\ \A p \in Topics : f[p] = x.tree.topics[p] \/ f[p] = S
  BY <1>1 DEF TreeData
<1> HIDE DEF f
<1> DEFINE r == [x.tree EXCEPT !.topics = f]
<1>3. /\ r \in TreeData /\ r.topics = f /\ r.iterating = x.tree.iterating
      /\ r.drainable = x.tree.drainable /\ r.palette = x.tree.palette /\ r.indices = x.tree.indices
  BY <1>1, <1>2 DEF TreeData
<1> DEFINE y == WithTree(x, r)
<1>4. WithReaders(x, t, S) = y
  BY DEF WithReaders, WithTree, f
<1> HIDE DEF r
<1>5. /\ y \in Worlds /\ y.loop = x.loop /\ y.tree = r /\ y.ws = x.ws /\ y.socket = x.socket
  BY <1>3, TreePut
<1> HIDE DEF y
<1>6. Clean(y)
  BY <1>5 DEF Clean, CleanAt, Buffered
<1>7. ASSUME NEW u \in Sockets, y.ws[u].closes = 1
      PROVE  \A p \in Topics : u \notin y.tree.topics[p]
  <2>1. \A p \in Topics : u \notin x.tree.topics[p]
    BY <1>5, <1>7 DEF Consistent, ConsistentFor
  <2>2. u \notin S
    BY <1>5, <1>7
  <2> QED
    BY <1>2, <1>3, <1>5, <2>1, <2>2
<1>8. Consistent(y)
  BY <1>3, <1>5, <1>7 DEF Consistent, ConsistentFor, InPalette, ParkedNext
<1> QED
  BY <1>3, <1>4, <1>5, <1>6, <1>8 DEF Regrouped

(* A WebSocket that gets a subscriber.                                      *)
LEMMA SubscriberMade ==
  ASSUME NEW x \in Worlds, Consistent(x), Clean(x), NEW s \in Sockets
  PROVE  LET y == [x EXCEPT !.ws[s].subscriber = TRUE]
         IN  Regrouped(x, y) /\ y.tree = x.tree
<1> DEFINE k == [x.ws[s] EXCEPT !.subscriber = TRUE]
           y == WithWs(x, s, k)
<1>1. [x EXCEPT !.ws[s].subscriber = TRUE] = y
  BY DEF WithWs
<1>2. x.ws[s] \in WsData
  BY WsIs
<1>3. /\ k \in WsData /\ k.isShuttingDown = x.ws[s].isShuttingDown
      /\ k.closes = x.ws[s].closes /\ k.lossy = x.ws[s].lossy
  BY <1>2 DEF WsData
<1> HIDE DEF k
<1>4. /\ y \in Worlds
      /\ y.loop = x.loop /\ y.tree = x.tree /\ y.socket = x.socket
      /\ y.ws[s] = k
      /\ \A u \in Sockets \ {s} : y.ws[u] = x.ws[u]
  BY <1>3, WsPut
<1> HIDE DEF y
<1>5. \A u \in Sockets : /\ y.ws[u].closes = x.ws[u].closes
                         /\ y.ws[u].isShuttingDown = x.ws[u].isShuttingDown
                         /\ y.ws[u].lossy = x.ws[u].lossy
  BY <1>3, <1>4
<1>6. Clean(y)
  BY <1>4, <1>5 DEF Clean, CleanAt, Buffered
<1>7. Consistent(y)
  BY <1>4, <1>5 DEF Consistent, ConsistentFor, InPalette, ParkedNext
<1> QED
  BY <1>1, <1>4, <1>5, <1>6, <1>7 DEF Regrouped

(* subscribe and unsubscribe.                                               *)
LEMMA Subscribed ==
  ASSUME NEW x \in Worlds, Consistent(x), Clean(x), NEW s \in Sockets, NEW t \in Topics,
         x.ws[s].closes = 0, x.tree.iterating # s
  PROVE  Regrouped(x, Subscribe(x, s, t))
<1> DEFINE z == [x EXCEPT !.ws[s].subscriber = TRUE]
           S == z.tree.topics[t] \cup {s}
           y == WithReaders(z, t, S)
<1>1. Regrouped(x, z) /\ z.tree = x.tree
  BY SubscriberMade
<1>2. Subscribe(x, s, t) = Join(z, s, t)
  BY DEF Subscribe
<1> HIDE DEF z
<1>3. z \in Worlds /\ Consistent(z) /\ Clean(z) /\ z.ws[s].closes = 0 /\ z.tree.iterating # s
  BY <1>1 DEF Regrouped
<1>5. Join(z, s, t) = y
  BY <1>3 DEF Join, WithReaders
<1>6. S \in SUBSET Sockets
  BY <1>3, TreeHas
<1>7. \A u \in S : z.ws[u].closes # 1
  BY <1>3, <1>6 DEF Consistent, ConsistentFor
<1> HIDE DEF S
<1>8. Regrouped(z, y)
  BY <1>3, <1>6, <1>7, ReadersPut
<1> QED
  BY <1>1, <1>2, <1>5, <1>8, RegroupedTwice

(* unsubscribe, likewise.                                                   *)
LEMMA Unsubscribed ==
  ASSUME NEW x \in Worlds, Consistent(x), Clean(x), NEW s \in Sockets, NEW t \in Topics,
         x.tree.iterating # s
  PROVE  Regrouped(x, Unsubscribe(x, s, t))
<1> DEFINE S == x.tree.topics[t] \ {s}
           y == WithReaders(x, t, S)
<1>1. CASE ~x.ws[s].subscriber
  <2>1. Unsubscribe(x, s, t) = x
    BY <1>1 DEF Unsubscribe
  <2> QED
    BY <2>1 DEF Regrouped
<1>2. CASE x.ws[s].subscriber
  <2>1. Unsubscribe(x, s, t) = y
    BY <1>2 DEF Unsubscribe, Leave, WithReaders
  <2>2. S \in SUBSET Sockets
    BY TreeHas
  <2>3. \A u \in S : x.ws[u].closes # 1
    BY <2>2 DEF Consistent, ConsistentFor
  <2> HIDE DEF S
  <2> QED
    BY <2>1, <2>2, <2>3, ReadersPut
<1> QED
  BY <1>1, <1>2

(* Which topic is iterated over.                                            *)
LEMMA IteratingPut ==
  ASSUME NEW x \in Worlds, Consistent(x), Clean(x), NEW s \in Sockets \cup {NoSocket}
  PROVE  LET y == [x EXCEPT !.tree.iterating = s]
         IN  /\ y \in Worlds /\ Consistent(y) /\ Clean(y)
             /\ y.loop = x.loop /\ y.ws = x.ws /\ y.tree.iterating = s
             /\ y.tree.topics = x.tree.topics
<1> DEFINE r == [x.tree EXCEPT !.iterating = s]
           y == WithTree(x, r)
<1>1. x.tree \in TreeData
  BY TreeIs
<1>2. /\ r \in TreeData /\ r.topics = x.tree.topics /\ r.iterating = s
      /\ r.drainable = x.tree.drainable /\ r.palette = x.tree.palette /\ r.indices = x.tree.indices
  BY <1>1 DEF TreeData
<1>3. [x EXCEPT !.tree.iterating = s] = y
  BY DEF WithTree
<1> HIDE DEF r
<1>4. /\ y \in Worlds /\ y.loop = x.loop /\ y.tree = r /\ y.ws = x.ws /\ y.socket = x.socket
  BY <1>2, TreePut
<1> HIDE DEF y
<1>5. Clean(y)
  BY <1>4 DEF Clean, CleanAt, Buffered
<1>6. Consistent(y)
  BY <1>2, <1>4 DEF Consistent, ConsistentFor, InPalette, ParkedNext
<1> QED
  BY <1>2, <1>3, <1>4, <1>5, <1>6

(* iterateTopics: u is not the one whose topics are locked.                 *)
LEMMA IteratedForOther ==
  ASSUME NEW h, NEW x, NEW s \in Sockets, NEW u \in Sockets, u # s, Good(h, x),
         ~x.loop.dead, x.ws[u].closes = 0, NEW topics, topics \subseteq Topics
  PROVE  Good(h, IterateTopics(x, s, u, topics))
<1>0. x \in Worlds /\ Consistent(x) /\ Clean(x)
  BY DEF Good
<1>1. CASE ~x.ws[s].subscriber
  BY <1>1 DEF IterateTopics
<1>2. CASE x.ws[s].subscriber
  <2> DEFINE z == [x EXCEPT !.tree.iterating = s]
             q == SetToSeq(topics)
             n == Len(q)
             T == [r \in SUBSET (1..n) |-> {y \in Worlds : Regrouped(z, y)}]
             w == SubscribeTo(z, u, topics)
             y == [w EXCEPT !.tree.iterating = NoSocket]
  <2>2. /\ z \in Worlds /\ Consistent(z) /\ Clean(z)
        /\ z.loop = x.loop /\ z.ws = x.ws /\ z.tree.iterating = s
    BY <1>0, IteratingPut
  <2>3. /\ n \in Nat /\ DOMAIN q = 1..n
        /\ \A i \in 1..n : q[i] \in Topics
    <3>1. IsFiniteSet(topics)
      BY PubSubAssumption, FS_Subset
    <3>2. q \in Seq(topics) /\ n \in Nat /\ DOMAIN q = 1..n
      BY <3>1, OrderedSet
    <3> HIDE DEF q
    <3>3. \A i \in 1..n : q[i] \in topics
      BY <3>2
    <3> QED
      BY <3>3
  <2>4. q = SetToSeq(topics)
    OBVIOUS
  <2> HIDE DEF z, q, n
  <2>5. z \in T[{}]
    BY <2>2 DEF Regrouped
  <2>6. ASSUME NEW r \in SUBSET (1..n), r # {}, NEW v \in T[r \ {Max(r)}]
        PROVE  Subscribe(v, u, q[Max(r)]) \in T[r]
    <3> DEFINE t == q[Max(r)]
               f == Subscribe(v, u, t)
    <3>1. Max(r) \in 1..n
      BY <2>3, <2>6, GreatestExists
    <3>2. t \in Topics
      BY <2>3, <3>1
    <3>3. v \in Worlds /\ Regrouped(z, v)
      BY <2>6
    <3>4. Consistent(v) /\ Clean(v) /\ v.ws[u].closes = 0 /\ v.tree.iterating # u
      BY <2>2, <3>3 DEF Regrouped
    <3> HIDE DEF t
    <3>5. Regrouped(v, f)
      BY <3>2, <3>3, <3>4, Subscribed
    <3> HIDE DEF f
    <3>6. Regrouped(z, f) /\ f \in Worlds
      BY <3>3, <3>5, RegroupedTwice DEF Regrouped
    <3>7. f \in T[r]
      BY <3>6
    <3> QED
      BY <3>7 DEF f, t
  <2>7. w \in T[1..n]
    <3> HIDE DEF T
    <3> QED
      BY <2>3, <2>4, <2>5, <2>6, SubscribeFold
  <2>8. w \in Worlds /\ Regrouped(z, w)
    BY <2>7
  <2>1. IterateTopics(x, s, u, topics) = y
    BY <1>2, <2>2, <2>8 DEF IterateTopics, Regrouped, z
  <2> HIDE DEF w
  <2>9. /\ y \in Worlds /\ Consistent(y) /\ Clean(y)
        /\ y.loop = w.loop /\ y.ws = w.ws /\ y.tree.iterating = NoSocket
    BY <2>8, IteratingPut DEF Regrouped
  <2> HIDE DEF y
  <2> QED
    BY <2>1, <2>2, <2>8, <2>9 DEF Good, Regrouped
<1> QED
  BY <1>1, <1>2

(* checkIteratingSubscriber: the process ends, everything else stays.       *)
LEMMA TerminatedIs ==
  ASSUME NEW x \in Worlds
  PROVE  LET y == Terminated(x)
         IN  /\ y \in Worlds /\ y.socket = x.socket /\ y.tree = x.tree /\ y.ws = x.ws
             /\ y.loop.corked = x.loop.corked /\ y.loop.cork = x.loop.cork /\ y.loop.dead
<1> DEFINE l == [x.loop EXCEPT !.dead = TRUE]
           y == [x EXCEPT !.loop = l]
<1>1. Terminated(x) = y
  BY DEF Terminated
<1>2. /\ l \in LoopData /\ l.corked = x.loop.corked /\ l.cork = x.loop.cork /\ l.dead
  BY DEF Worlds, LoopData
<1> HIDE DEF l
<1>3. /\ y \in Worlds /\ y.loop = l /\ y.socket = x.socket /\ y.tree = x.tree /\ y.ws = x.ws
  BY <1>2 DEF Worlds
<1> QED
  BY <1>1, <1>2, <1>3

(* iterateTopics, with a callback that subscribes the one whose topics are  *)
(* locked: the first such call ends the process.                            *)
LEMMA IteratedForItself ==
  ASSUME NEW x \in Worlds, NEW s \in Sockets, x.ws[s].subscriber,
         NEW topics, topics \subseteq Topics
  PROVE  LET z == [x EXCEPT !.tree.iterating = s]
         IN  SubscribeTo(z, s, topics) \in {z, Terminated(z)}
<1> DEFINE z == [x EXCEPT !.tree.iterating = s]
           d == Terminated(z)
           q == SetToSeq(topics)
           n == Len(q)
           T == [r \in SUBSET (1..n) |-> {z, d}]
<1>1. z \in Worlds /\ z.tree.iterating = s /\ z.ws = x.ws
  <2>1. [x.tree EXCEPT !.iterating = s] \in TreeData
    BY TreeIs DEF TreeData
  <2> QED
    BY <2>1 DEF Worlds, TreeData
<1> HIDE DEF z
<1>2. d \in Worlds /\ d.tree.iterating = s /\ d.ws = x.ws /\ Terminated(d) = d
  <2>1. d \in Worlds /\ d.tree = z.tree /\ d.ws = z.ws /\ d.loop.dead
    BY <1>1, TerminatedIs
  <2>2. Terminated(d) = d
    BY <1>1 DEF Terminated, Worlds, LoopData
  <2> QED
    BY <1>1, <2>1, <2>2
<1>3. \A v \in {z, d} : \A t : Subscribe(v, s, t) = d
  <2>1. ASSUME NEW v \in {z, d}, NEW t PROVE Subscribe(v, s, t) = d
    <3>1. v \in Worlds /\ v.tree.iterating = s /\ v.ws[s].subscriber /\ Terminated(v) = d
      BY <1>1, <1>2
    <3> HIDE DEF d
    <3>2. [v EXCEPT !.ws[s].subscriber = TRUE] = v
      BY <3>1 DEF Worlds, WsData
    <3>3. Subscribe(v, s, t) = Join(v, s, t)
      BY <3>2 DEF Subscribe
    <3> QED
      BY <3>1, <3>3 DEF Join
  <2> QED
    BY <2>1
<1>4. /\ n \in Nat /\ DOMAIN q = 1..n
  <2>1. IsFiniteSet(topics)
    BY PubSubAssumption, FS_Subset
  <2> QED
    BY <2>1, OrderedSet
<1>5. q = SetToSeq(topics)
  OBVIOUS
<1> HIDE DEF d, q, n
<1>6. z \in T[{}]
  OBVIOUS
<1>7. ASSUME NEW r \in SUBSET (1..n), r # {}, NEW v \in T[r \ {Max(r)}]
      PROVE  Subscribe(v, s, q[Max(r)]) \in T[r]
  BY <1>3, <1>7
<1>8. SubscribeTo(z, s, topics) \in T[1..n]
  <2> HIDE DEF T
  <2> QED
    BY <1>4, <1>5, <1>6, <1>7, SubscribeFold
<1> QED
  BY <1>8 DEF d, z

(* iterateTopics, whoever the callback subscribes.                          *)
LEMMA Iterated ==
  ASSUME NEW h, NEW x, NEW s \in Sockets, NEW u \in Sockets, Good(h, x), ~x.loop.dead,
         x.ws[u].closes = 0, NEW topics, topics \subseteq Topics
  PROVE  Good(h, IterateTopics(x, s, u, topics))
<1> DEFINE z == [x EXCEPT !.tree.iterating = s]
           d == Terminated(z)
<1>0. x \in Worlds /\ Consistent(x) /\ Clean(x) /\ x.loop.corked \in {h, NoSocket}
  BY DEF Good
<1>1. CASE u # s
  BY <1>1, IteratedForOther
<1>2. CASE ~x.ws[s].subscriber
  BY <1>2 DEF IterateTopics
<1>3. CASE u = s /\ x.ws[s].subscriber
  <2> DEFINE w == SubscribeTo(z, u, topics)
             y == [w EXCEPT !.tree.iterating = NoSocket]
  <2>1. w \in {z, d}
    BY <1>0, <1>3, IteratedForItself
  <2>2. IterateTopics(x, s, u, topics) = IF w.loop.dead THEN w ELSE y
    BY <1>3 DEF IterateTopics
  <2>3. /\ z \in Worlds /\ Consistent(z) /\ Clean(z)
        /\ z.loop = x.loop /\ z.ws = x.ws /\ z.tree.iterating = s
    BY <1>0, IteratingPut
  <2> HIDE DEF z
  <2>4. /\ d \in Worlds /\ d.socket = z.socket /\ d.tree = z.tree /\ d.ws = z.ws
        /\ d.loop.corked = z.loop.corked /\ d.loop.cork = z.loop.cork /\ d.loop.dead
    BY <2>3, TerminatedIs
  <2> HIDE DEF d, w
  <2>5. CASE w = z
    <3>1. IterateTopics(x, s, u, topics) = y
      BY <2>2, <2>3, <2>5
    <3>2. /\ y \in Worlds /\ Consistent(y) /\ Clean(y)
          /\ y.loop = w.loop /\ y.tree.iterating = NoSocket
      BY <2>3, <2>5, IteratingPut
    <3> HIDE DEF y
    <3> QED
      BY <1>0, <2>3, <2>5, <3>1, <3>2 DEF Good
  <2>6. CASE w = d
    <3>1. IterateTopics(x, s, u, topics) = d
      BY <2>2, <2>4, <2>6
    <3>2. Consistent(d)
      BY <2>3, <2>4 DEF Consistent, ConsistentFor, InPalette, ParkedNext
    <3>3. Clean(d)
      BY <2>3, <2>4 DEF Clean, CleanAt, Buffered
    <3> QED
      BY <1>0, <2>3, <2>4, <3>1, <3>2, <3>3, PubSubAssumption DEF Good
  <2> QED
    BY <2>1, <2>5, <2>6
<1> QED
  BY <1>1, <1>2, <1>3

-----------------------------------------------------------------------------
(* The handlers. *)

(* The timeout of a WebSocket.                                              *)
LEMMA TimeoutPut ==
  ASSUME NEW x \in Worlds, NEW s \in Sockets, NEW b \in BOOLEAN
  PROVE  LET y == [x EXCEPT !.ws[s].hasTimedOut = b]
         IN  /\ y \in Worlds /\ y.loop = x.loop /\ y.socket = x.socket /\ y.tree = x.tree
             /\ \A u \in Sockets : /\ y.ws[u].closes = x.ws[u].closes
                                   /\ y.ws[u].isShuttingDown = x.ws[u].isShuttingDown
                                   /\ y.ws[u].lossy = x.ws[u].lossy
<1> DEFINE k == [x.ws[s] EXCEPT !.hasTimedOut = b]
           y == WithWs(x, s, k)
<1>1. [x EXCEPT !.ws[s].hasTimedOut = b] = y
  BY DEF WithWs
<1>2. x.ws[s] \in WsData
  BY WsIs
<1>3. /\ k \in WsData /\ k.isShuttingDown = x.ws[s].isShuttingDown
      /\ k.closes = x.ws[s].closes /\ k.lossy = x.ws[s].lossy
  BY <1>2 DEF WsData
<1> HIDE DEF k
<1>4. /\ y \in Worlds
      /\ y.loop = x.loop /\ y.tree = x.tree /\ y.socket = x.socket
      /\ y.ws[s] = k
      /\ \A u \in Sockets \ {s} : y.ws[u] = x.ws[u]
  BY <1>3, WsPut
<1> HIDE DEF y
<1> QED
  BY <1>1, <1>3, <1>4

(* It does not concern what holds between the calls.                        *)
LEMMA TimeoutIsGood ==
  ASSUME NEW h, NEW x, NEW s \in Sockets, NEW b \in BOOLEAN, Good(h, x)
  PROVE  LET y == [x EXCEPT !.ws[s].hasTimedOut = b]
         IN  /\ Good(h, y) /\ y.socket = x.socket
             /\ \A u \in Sockets : /\ y.ws[u].closes = x.ws[u].closes
                                   /\ y.ws[u].isShuttingDown = x.ws[u].isShuttingDown
<1> DEFINE y == [x EXCEPT !.ws[s].hasTimedOut = b]
<1>0. x \in Worlds /\ Consistent(x) /\ Clean(x)
  BY DEF Good
<1>1. /\ y \in Worlds /\ y.loop = x.loop /\ y.socket = x.socket /\ y.tree = x.tree
      /\ \A u \in Sockets : /\ y.ws[u].closes = x.ws[u].closes
                            /\ y.ws[u].isShuttingDown = x.ws[u].isShuttingDown
                            /\ y.ws[u].lossy = x.ws[u].lossy
  BY <1>0, TimeoutPut
<1> HIDE DEF y
<1>2. Clean(y)
  BY <1>0, <1>1 DEF Clean, CleanAt, Buffered
<1>3. Consistent(y)
  BY <1>0, <1>1 DEF Consistent, ConsistentFor, InPalette, ParkedNext
<1>4. Good(h, y)
  BY <1>1, <1>2, <1>3 DEF Good
<1> QED
  BY <1>1, <1>4 DEF y

(* cork, where it is free.                                                  *)
LEMMA CorkIsTaken ==
  ASSUME NEW x, NEW s \in Sockets, Good(NoSocket, x), x.ws[s].closes = 0
  PROVE  Good(s, Cork(x, s))
<1> DEFINE c == x.loop.cork
           y == WithCork(x, s, c)
<1>0. /\ x \in Worlds /\ Consistent(x) /\ Clean(x) /\ x.loop.corked = NoSocket
      /\ x.loop.dead <=> x.tree.iterating # NoSocket
  BY DEF Good
<1>1. c = << >> /\ c \in Seq(Tokens) /\ Len(c) <= CORK_BUFFER_SIZE
  BY <1>0, CorkIs
<1>2. Cork(x, s) = y
  <2>1. Cork(x, s) = [x EXCEPT !.loop.corked = s]
    BY <1>1 DEF Cork
  <2>2. [x.loop EXCEPT !.corked = s] = [x.loop EXCEPT !.corked = s, !.cork = x.loop.cork]
    BY <1>0 DEF Worlds, LoopData
  <2> QED
    BY <2>1, <2>2 DEF WithCork
<1>3. CorkFits(s, c)
  BY <1>1, PubSubAssumption DEF CorkFits
<1> HIDE DEF c
<1>4. /\ Sent(x, y, s)
      /\ y.loop.corked = s /\ y.loop.dead = x.loop.dead
      /\ y.socket = x.socket
  BY <1>0, <1>3, CorkPut
<1> HIDE DEF y
<1>5. y \in Worlds /\ y.ws = x.ws /\ y.tree = x.tree
  BY <1>4 DEF Sent
<1>6. CleanAt(y, s)
  BY <1>0, <1>4, <1>5, OpenIs DEF CleanAt
<1>7. \A u \in Sockets \ {s} : CleanAt(y, u)
  BY <1>0, <1>4, <1>5 DEF Clean, CleanAt, Buffered
<1>8. Clean(y)
  BY <1>6, <1>7 DEF Clean
<1>9. Consistent(y)
  BY <1>0, <1>5 DEF Consistent, ConsistentFor, InPalette, ParkedNext
<1> QED
  BY <1>0, <1>2, <1>4, <1>5, <1>8, <1>9 DEF Good

(* A write to a socket that has sent no FIN.                                *)
LEMMA SentIsGood ==
  ASSUME NEW h, NEW g, NEW x, NEW y, NEW s \in Sockets, Good(h, x), Sent(x, y, s),
         Released(x, y), y.loop.corked \in {g, NoSocket}, ~(x.socket[s].shut /\ ~x.socket[s].closed)
  PROVE  Good(g, y)
<1>0. x \in Worlds /\ Consistent(x) /\ Clean(x)
  BY DEF Good
<1>1. Consistent(y)
  BY <1>0, SentIsMessaged, ConsistentMessaged DEF Consistent
<1>2. CleanAt(y, s)
  BY <1>0 DEF Sent, Clean, CleanAt
<1>3. ASSUME NEW u \in Sockets \ {s} PROVE CleanAt(y, u)
  <2>1. y.socket[u] = x.socket[u] /\ y.ws[u] = x.ws[u]
    BY DEF Sent
  <2>2. x.loop.corked # u => y.loop.corked # u
    BY PubSubAssumption DEF Released
  <2> QED
    BY <1>0, <2>1, <2>2 DEF Clean, CleanAt, Buffered
<1>4. Clean(y)
  BY <1>2, <1>3 DEF Clean
<1> QED
  BY <1>1, <1>4 DEF Good, Sent

(* The cork of a handler is given back when it returns.                     *)
LEMMA CorkIsFree ==
  ASSUME NEW x, NEW s \in Sockets, Good(s, x)
  PROVE  Good(NoSocket, Uncork(x, s, << >>, FALSE).x)
<1> DEFINE e == << >>
           y == Uncork(x, s, e, FALSE).x
<1>0. x \in Worlds /\ Clean(x)
  BY DEF Good
<1>1. e \in Seq(Tokens)
  OBVIOUS
<1> HIDE DEF e
<1>2. /\ Sent(x, y, s) /\ Released(x, y)
      /\ x.loop.corked = s => y.loop.corked = NoSocket
      /\ x.loop.corked # s => y = x
  BY <1>0, <1>1, Uncorked
<1> HIDE DEF y
<1>3. CASE x.loop.corked = s
  <2>1. ~(x.socket[s].shut /\ ~x.socket[s].closed)
    BY <1>0, <1>3 DEF Clean, CleanAt
  <2>2. Good(NoSocket, y)
    BY <1>2, <1>3, <2>1, SentIsGood
  <2> QED
    BY <2>2 DEF y, e
<1>4. CASE x.loop.corked # s
  <2>1. Good(NoSocket, y)
    BY <1>2, <1>4 DEF Good
  <2> QED
    BY <2>1 DEF y, e
<1> QED
  BY <1>3, <1>4

(* The FIN that waited for the buffer.                                      *)
LEMMA FinIsGood ==
  ASSUME NEW x, NEW s \in Sockets, Good(NoSocket, x), BufferedAmount(x, s) = 0,
         x.ws[s].isShuttingDown
  PROVE  Good(NoSocket, Shutdown(x, s))
<1> DEFINE y == Shutdown(x, s)
<1>0. x \in Worlds /\ Consistent(x) /\ Clean(x) /\ x.loop.corked = NoSocket
  BY DEF Good
<1>1. /\ y \in Worlds
      /\ y.loop = x.loop /\ y.tree = x.tree /\ y.ws = x.ws
      /\ \A u \in Sockets \ {s} : y.socket[u] = x.socket[u]
      /\ y.socket[s].closed = x.socket[s].closed
      /\ Buffered(y, s) = Buffered(x, s)
  BY <1>0, ShutDown
<1>2. Buffered(x, s) = << >>
  <2> DEFINE b == Buffered(x, s)
  <2>1. b \in Seq(Tokens) /\ Len(b) \in Nat /\ Len(b) <= 0
    <3> DEFINE n == x.socket[s].pendingRemoval
    <3>1. b \in Seq(Tokens) /\ n \in 0..0 /\ Len(b) = 0 - n
      BY <1>0, BufferedIs
    <3> HIDE DEF b
    <3> QED
      BY <3>1
  <2> HIDE DEF b
  <2>2. b = << >>
    BY <2>1
  <2> QED
    BY <2>2 DEF b
<1> HIDE DEF y
<1>3. CleanAt(y, s)
  BY <1>0, <1>1, <1>2, PubSubAssumption DEF Clean, CleanAt
<1>4. \A u \in Sockets \ {s} : CleanAt(y, u)
  BY <1>0, <1>1 DEF Clean, CleanAt, Buffered
<1>5. Clean(y)
  BY <1>3, <1>4 DEF Clean
<1>6. Consistent(y)
  BY <1>0, <1>1 DEF Consistent, ConsistentFor, InPalette, ParkedNext
<1>7. Good(NoSocket, y)
  BY <1>1, <1>5, <1>6 DEF Good
<1> QED
  BY <1>7 DEF y

(* on_data, from its beginning to its end.                                  *)
LEMMA DataBegins ==
  ASSUME NEW x, NEW s \in Sockets, Good(NoSocket, x), x.ws[s].closes = 0
  PROVE  Good(s, OnDataBegin(x, s))
<1> DEFINE b == FALSE
           y == [x EXCEPT !.ws[s].hasTimedOut = b]
<1>1. Good(NoSocket, y) /\ y.ws[s].closes = 0
  <2> HIDE DEF b
  <2>1. b \in BOOLEAN
    BY DEF b
  <2> QED
    BY <2>1, TimeoutIsGood
<1>2. OnDataBegin(x, s) = Cork(y, s)
  BY DEF OnDataBegin
<1> HIDE DEF y
<1> QED
  BY <1>1, <1>2, CorkIsTaken

(* The cork goes out, and the FIN with it where the socket has ended.       *)
LEMMA DataEnds ==
  ASSUME NEW x, NEW s \in Sockets, Good(s, x)
  PROVE  Good(NoSocket, OnDataEnd(x, s))
<1> DEFINE y == Uncork(x, s, << >>, FALSE).x
<1>1. Good(NoSocket, y)
  BY CorkIsFree
<1>2. OnDataEnd(x, s) = FinIfSent(y, s)
  BY DEF OnDataEnd
<1> HIDE DEF y
<1>3. Good(NoSocket, FinIfSent(y, s))
  BY <1>1, FinIsGood DEF FinIfSent
<1> QED
  BY <1>2, <1>3

(* A socket that is told that it may write.                                 *)
LEMMA Told ==
  ASSUME NEW x, NEW s \in Sockets, Good(NoSocket, x)
  PROVE  LET y == [x EXCEPT !.socket[s].polling = FALSE]
         IN  /\ Good(NoSocket, y) /\ y.ws = x.ws
             /\ y.socket[s].closed = x.socket[s].closed
             /\ y.socket[s].shut = x.socket[s].shut
<1> DEFINE c == x.socket[s]
           R == [buffer : Seq(Tokens), pendingRemoval : Nat, wire : Seq(Tokens),
                 closed : BOOLEAN, shut : BOOLEAN, polling : BOOLEAN]
           k == [c EXCEPT !.polling = FALSE]
           y == WithSocket(x, s, k)
<1>0. x \in Worlds /\ Consistent(x) /\ Clean(x)
  BY DEF Good
<1>1. c \in SocketData
  BY <1>0 DEF Worlds
<1>2. c \in R /\ c.pendingRemoval <= Len(c.buffer)
  BY <1>1 DEF SocketData
<1>3. [x EXCEPT !.socket[s].polling = FALSE] = y
  BY DEF WithSocket
<1> HIDE DEF c
<1>4. /\ k \in R /\ k.buffer = c.buffer /\ k.pendingRemoval = c.pendingRemoval
      /\ k.closed = c.closed /\ k.shut = c.shut
  BY <1>2
<1>5. k \in SocketData
  <2> HIDE DEF k
  <2> QED
    BY <1>2, <1>4 DEF SocketData
<1> HIDE DEF k
<1>6. /\ y \in Worlds
      /\ y.loop = x.loop /\ y.tree = x.tree /\ y.ws = x.ws
      /\ y.socket[s] = k
      /\ \A u \in Sockets \ {s} : y.socket[u] = x.socket[u]
  BY <1>0, <1>5, SocketPut
<1> HIDE DEF y
<1>7. Buffered(y, s) = Buffered(x, s)
  BY <1>4, <1>6 DEF Buffered, c
<1>8. CleanAt(y, s)
  BY <1>0, <1>4, <1>6, <1>7 DEF Clean, CleanAt, c
<1>9. \A u \in Sockets \ {s} : CleanAt(y, u)
  BY <1>0, <1>6 DEF Clean, CleanAt, Buffered
<1>10. Clean(y)
  BY <1>8, <1>9 DEF Clean
<1>11. Consistent(y)
  BY <1>0, <1>6 DEF Consistent, ConsistentFor, InPalette, ParkedNext
<1>12. Good(NoSocket, y)
  BY <1>6, <1>10, <1>11 DEF Good
<1> QED
  BY <1>3, <1>4, <1>6, <1>12 DEF c

(* on_writable: what waits goes out, and then the FIN.                      *)
LEMMA WritableIsGood ==
  ASSUME NEW x, NEW s \in Sockets, Good(NoSocket, x), ~x.socket[s].closed
  PROVE  Good(NoSocket, OnWritable(x, s))
<1> DEFINE e == << >>
           b == FALSE
           told == [x EXCEPT !.socket[s].polling = FALSE]
           y == Write(told, s, e, b).x
           z == IF Drained(x, y, s) THEN [y EXCEPT !.ws[s].hasTimedOut = b] ELSE y
<1>1. /\ Good(NoSocket, told) /\ told.ws = x.ws
      /\ told.socket[s].closed = x.socket[s].closed
      /\ told.socket[s].shut = x.socket[s].shut
  BY Told
<1>2. OnWritable(x, s) =
        IF x.socket[s].shut THEN told
        ELSE IF x.ws[s].isShuttingDown /\ BufferedAmount(y, s) = 0 THEN Shutdown(z, s)
        ELSE z
  BY DEF OnWritable
<1>3. e \in Seq(Tokens) /\ b \in BOOLEAN
  OBVIOUS
<1> HIDE DEF e, b, told
<1>4. CASE x.socket[s].shut
  BY <1>1, <1>2, <1>4
<1>5. CASE ~x.socket[s].shut
  <2>1. told \in Worlds
    BY <1>1 DEF Good
  <2>2. Sent(told, y, s) /\ Released(told, y)
    BY <1>3, <2>1, Written
  <2> HIDE DEF y
  <2>3. y.loop.corked \in {NoSocket, NoSocket}
    BY <1>1, <2>2 DEF Good, Released
  <2>4. Good(NoSocket, y)
    BY <1>1, <1>5, <2>2, <2>3, SentIsGood
  <2>5. y.ws = x.ws
    BY <1>1, <2>2 DEF Sent
  <2>6. /\ Good(NoSocket, z) /\ z.socket = y.socket
        /\ z.ws[s].isShuttingDown = y.ws[s].isShuttingDown
    <3> DEFINE w == [y EXCEPT !.ws[s].hasTimedOut = b]
    <3>1. /\ Good(NoSocket, w) /\ w.socket = y.socket
          /\ \A u \in Sockets : /\ w.ws[u].closes = y.ws[u].closes
                                /\ w.ws[u].isShuttingDown = y.ws[u].isShuttingDown
      <4>1. b \in BOOLEAN
        BY <1>3
      <4> QED
        BY <2>4, <4>1, TimeoutIsGood
    <3>2. z \in {w, y}
      OBVIOUS
    <3> HIDE DEF w, z
    <3> QED
      BY <2>4, <3>1, <3>2
  <2> HIDE DEF z
  <2>7. BufferedAmount(z, s) = BufferedAmount(y, s)
    BY <2>6 DEF BufferedAmount
  <2>8. x.ws[s].isShuttingDown /\ BufferedAmount(y, s) = 0 => Good(NoSocket, Shutdown(z, s))
    BY <2>5, <2>6, <2>7, FinIsGood
  <2> QED
    BY <1>2, <1>5, <2>6, <2>8
<1> QED
  BY <1>4, <1>5

(* on_timeout: a ping, or the end.                                          *)
LEMMA TimedOut ==
  ASSUME NEW x, NEW s \in Sockets, NEW ping \in Messages, Good(NoSocket, x), ~x.socket[s].closed
  PROVE  Good(NoSocket, OnTimeout(x, s, ping))
<1>1. CASE sendPingsAutomatically /\ ~x.ws[s].isShuttingDown /\ ~x.ws[s].hasTimedOut
  <2> DEFINE f == FALSE
             b == TRUE
             z == [x EXCEPT !.ws[s].hasTimedOut = b]
             p == Frame(ping)
             y == Write(z, s, p, f).x
  <2>1. OnTimeout(x, s, ping) = y
    BY <1>1 DEF OnTimeout
  <2>2. b \in BOOLEAN /\ f \in BOOLEAN
    OBVIOUS
  <2> HIDE DEF b, f
  <2>3. /\ Good(NoSocket, z) /\ z.socket = x.socket
        /\ \A u \in Sockets : /\ z.ws[u].closes = x.ws[u].closes
                              /\ z.ws[u].isShuttingDown = x.ws[u].isShuttingDown
    BY <2>2, TimeoutIsGood
  <2> HIDE DEF z
  <2>4. p \in Seq(Tokens)
    BY FrameIs
  <2> HIDE DEF p
  <2>5. z \in Worlds /\ Clean(z)
    BY <2>3 DEF Good
  <2>6. Sent(z, y, s) /\ Released(z, y)
    BY <2>2, <2>4, <2>5, Written
  <2> HIDE DEF y
  <2>7. x.ws[s].closes = 0
    BY <1>1, OpenIs DEF Good
  <2>8. ~(z.socket[s].shut /\ ~z.socket[s].closed)
    BY <2>3, <2>5, <2>7, OpenIs
  <2>9. y.loop.corked \in {NoSocket, NoSocket}
    BY <2>3, <2>6 DEF Good, Released
  <2>10. Good(NoSocket, y)
    BY <2>3, <2>6, <2>8, <2>9, SentIsGood
  <2> QED
    BY <2>1, <2>10
<1>2. CASE ~(sendPingsAutomatically /\ ~x.ws[s].isShuttingDown /\ ~x.ws[s].hasTimedOut)
  <2>1. OnTimeout(x, s, ping) = CloseSocket(x, s)
    BY <1>2 DEF OnTimeout
  <2> QED
    BY <2>1, SocketClosed
<1> QED
  BY <1>1, <1>2

(* Before and after the events of an iteration.                             *)
LEMMA DrainIsGood ==
  ASSUME NEW h, NEW x, Good(h, x)
  PROVE  Good(h, DrainAll(x))
  BY DrainedAll, KeptIsGood DEF Good

(* Nobody holds the cork after the events, so that nothing dies.            *)
LEMMA IterationIsGood ==
  ASSUME NEW x, Good(NoSocket, x)
  PROVE  Good(NoSocket, PreCb(PostCb(x)))
<1> DEFINE y == DrainAll(x)
<1>1. Good(NoSocket, y)
  BY DrainIsGood
<1> HIDE DEF y
<1>2. DieIfCorked(y) = y
  <2> DEFINE l == y.loop
             R == [corked : Sockets \cup {NoSocket}, cork : Seq(Tokens), dead : BOOLEAN]
  <2>1. l \in R /\ l.corked = NoSocket
    BY <1>1 DEF Good, Worlds, LoopData
  <2>2. DieIfCorked(y) = [y EXCEPT !.loop = [l EXCEPT !.dead = l.dead \/ ~CanCork(y)]]
    BY DEF DieIfCorked
  <2>3. (l.dead \/ ~CanCork(y)) = l.dead
    BY <2>1 DEF CanCork
  <2>4. [l EXCEPT !.dead = l.dead] = l
    <3> HIDE DEF l
    <3> QED
      BY <2>1
  <2>5. [y EXCEPT !.loop = l] = y
    BY <1>1 DEF Good, Worlds
  <2> HIDE DEF l
  <2> QED
    BY <2>2, <2>3, <2>4, <2>5
<1>3. PreCb(PostCb(x)) = DrainAll(y)
  BY <1>2 DEF PreCb, PostCb, y
<1> QED
  BY <1>1, <1>3, DrainIsGood

-----------------------------------------------------------------------------
(* The peer. *)

Lefts == Seq(Tokens) \X Seq(Nat)

(* The end of a sequence.                                                   *)
LEMMA FromIn ==
  ASSUME NEW T, NEW q \in Seq(T), NEW n \in Nat
  PROVE  SubSeq(q, n + 1, Len(q)) \in Seq(T)
<1>1. Len(q) \in Nat /\ \A i \in n + 1..Len(q) : q[i] \in T
  OBVIOUS
<1> QED
  BY <1>1, SubSeqProperties

(* One message, or none, is taken off the wire.                             *)
LEMMA OneTaken ==
  ASSUME NEW left \in Lefts, NEW lossy
  PROVE  TakeOne(left, lossy) \in Lefts
<1> DEFINE wire == left[1]
           owed == left[2]
           message == wire[1][1]
           n == message.len + 1
           rest == SubSeq(wire, n + 1, Len(wire))
           at == IF lossy THEN SelectInSeq(owed, LAMBDA id : id = message.id) ELSE 1
           less == SubSeq(owed, at + 1, Len(owed))
<1>1. \/ TakeOne(left, lossy) = left
      \/ wire # << >> /\ TakeOne(left, lossy) = <<rest, owed>>
      \/ wire # << >> /\ at \in 1..Len(owed) /\ TakeOne(left, lossy) = <<rest, less>>
  BY DEF TakeOne
<1>2. wire \in Seq(Tokens) /\ owed \in Seq(Nat)
  BY DEF Lefts
<1> HIDE DEF wire, owed, at
<1>3. wire # << >> => rest \in Seq(Tokens)
  <2> SUFFICES ASSUME wire # << >> PROVE rest \in Seq(Tokens)
    OBVIOUS
  <2>1. wire[1] \in Tokens
    BY <1>2
  <2>2. n \in Nat
    BY <2>1 DEF Tokens, Messages
  <2> HIDE DEF n
  <2> QED
    BY <1>2, <2>2, FromIn
<1>4. at \in 1..Len(owed) => less \in Seq(Nat)
  <2> SUFFICES ASSUME at \in 1..Len(owed) PROVE less \in Seq(Nat)
    OBVIOUS
  <2>1. at \in Nat
    BY <1>2
  <2> QED
    BY <1>2, <2>1, FromIn
<1> HIDE DEF rest, less
<1> QED
  BY <1>1, <1>2, <1>3, <1>4 DEF Lefts

(* One message after the other.                                             *)
LEMMA TakingGoesOn ==
  ASSUME NEW lossy, NEW P \in SUBSET Lefts, NEW A \in P, \A left \in P : TakeOne(left, lossy) \in P
  PROVE  \E B \in [Nat -> P] : B[0] = A /\ \A k \in Nat : B[k + 1] = TakeOne(B[k], lossy)
<1> DEFINE F == [left \in P |-> TakeOne(left, lossy)]
<1>1. F \in [P -> P]
  OBVIOUS
<1>2. \A left \in P : F[left] = TakeOne(left, lossy)
  OBVIOUS
<1> HIDE DEF F
<1>3. PICK B \in [Nat -> P] : B[0] = A /\ \A k \in Nat : B[k + 1] = F[B[k]]
  <2>1. A \in P
    OBVIOUS
  <2> QED
    BY ONLY <1>1, <2>1, RecursionExists
<1> QED
  BY <1>2, <1>3

(* As many messages as can be: what one message keeps holds in the end.     *)
LEMMA TakenStays ==
  ASSUME NEW wire \in Seq(Tokens), NEW owed, NEW lossy, NEW P \in SUBSET Lefts,
         <<wire, owed>> \in P, \A left \in P : TakeOne(left, lossy) \in P
  PROVE  Taken(wire, owed, lossy) \in P
<1> DEFINE n == Len(wire)
           A == <<wire, owed>>
           Is(f) == f = [i \in 0..n |-> IF i = 0 THEN A ELSE TakeOne(f[i - 1], lossy)]
           g == CHOOSE f : Is(f)
<1>1. n \in Nat
  OBVIOUS
<1>2. Taken(wire, owed, lossy) = g[n]
  BY DEF Taken
<1>3. A \in P
  OBVIOUS
<1> HIDE DEF A, n
<1>4. \E f : Is(f)
  <2>1. PICK B \in [Nat -> P] : B[0] = A /\ \A k \in Nat : B[k + 1] = TakeOne(B[k], lossy)
    BY <1>3, TakingGoesOn
  <2> DEFINE f == [i \in 0..n |-> B[i]]
  <2>2. ASSUME NEW i \in 0..n, i # 0 PROVE f[i] = TakeOne(f[i - 1], lossy)
    <3>1. i - 1 \in Nat /\ i - 1 \in 0..n /\ (i - 1) + 1 = i
      BY <1>1, <2>2
    <3>2. B[i] = TakeOne(B[i - 1], lossy)
      BY <2>1, <3>1
    <3> QED
      BY <3>1, <3>2
  <2>3. f[0] = A
    BY <1>1, <2>1
  <2>4. f = [i \in 0..n |-> f[i]]
    OBVIOUS
  <2> HIDE DEF f
  <2>5. f = [i \in 0..n |-> IF i = 0 THEN A ELSE TakeOne(f[i - 1], lossy)]
    BY <2>2, <2>3, <2>4
  <2> QED
    BY <2>5
<1>5. Is(g)
  <2> HIDE DEF Is
  <2> QED
    BY <1>4
<1> HIDE DEF g
<1>6. \A i \in 0..n : g[i] = IF i = 0 THEN A ELSE TakeOne(g[i - 1], lossy)
  BY <1>5
<1> HIDE DEF Is
<1> DEFINE S == {i \in 0..n : g[i] \in P}
<1>7. 0 \in S
  BY <1>1, <1>3, <1>6
<1>8. ASSUME NEW k \in 0..n - 1, k \in S PROVE k + 1 \in S
  <2>1. k + 1 \in 0..n /\ k + 1 # 0 /\ (k + 1) - 1 = k
    BY <1>1
  <2>2. g[k + 1] = TakeOne(g[k], lossy)
    BY <1>6, <2>1
  <2> QED
    BY <1>8, <2>1, <2>2
<1>9. \A k \in 0..n : k \in S
  <2> HIDE DEF S
  <2> QED
    BY <1>1, <1>7, <1>8, RangeInduction
<1> QED
  BY <1>1, <1>2, <1>9

(* What is left is of the kind it was.                                      *)
LEMMA TakenIs ==
  ASSUME NEW wire \in Seq(Tokens), NEW owed \in Seq(Nat), NEW lossy
  PROVE  Taken(wire, owed, lossy) \in Lefts
<1>1. <<wire, owed>> \in Lefts
  BY DEF Lefts
<1>2. \A left \in Lefts : TakeOne(left, lossy) \in Lefts
  BY OneTaken
<1> HIDE DEF Lefts
<1> QED
  BY <1>1, <1>2, TakenStays

(* What the peer takes leaves the wire, and is owed no more.                *)
LEMMA DeliveredIs ==
  ASSUME NEW x \in Worlds
  PROVE  LET y == Delivered(x)
         IN  /\ y \in Worlds /\ y.loop = x.loop /\ y.tree = x.tree
             /\ \A s \in Sockets :
                  LET left == Taken(x.socket[s].wire, x.ws[s].owed, x.ws[s].lossy)
                  IN  /\ y.socket[s].wire = left[1] /\ y.ws[s].owed = left[2]
                      /\ y.socket[s].closed = x.socket[s].closed
                      /\ y.socket[s].shut = x.socket[s].shut
                      /\ y.socket[s].buffer = x.socket[s].buffer
                      /\ y.socket[s].pendingRemoval = x.socket[s].pendingRemoval
                      /\ y.ws[s].subscriber = x.ws[s].subscriber
                      /\ y.ws[s].closes = x.ws[s].closes
                      /\ y.ws[s].isShuttingDown = x.ws[s].isShuttingDown
                      /\ y.ws[s].lossy = x.ws[s].lossy
<1> DEFINE left == [s \in Sockets |-> Taken(x.socket[s].wire, x.ws[s].owed, x.ws[s].lossy)]
           f == [s \in Sockets |-> [x.socket[s] EXCEPT !.wire = left[s][1]]]
           g == [s \in Sockets |-> [x.ws[s] EXCEPT !.owed = left[s][2]]]
           y == [x EXCEPT !.socket = f, !.ws = g]
           R == [buffer : Seq(Tokens), pendingRemoval : Nat, wire : Seq(Tokens),
                 closed : BOOLEAN, shut : BOOLEAN, polling : BOOLEAN]
<1>1. Delivered(x) = y
  BY DEF Delivered, Worlds
<1>2. ASSUME NEW s \in Sockets
      PROVE  left[s] \in Lefts /\ left[s] = Taken(x.socket[s].wire, x.ws[s].owed, x.ws[s].lossy)
  <2>1. x.socket[s] \in SocketData /\ x.ws[s] \in WsData
    BY DEF Worlds
  <2>2. x.socket[s].wire \in Seq(Tokens) /\ x.ws[s].owed \in Seq(Nat)
    BY <2>1 DEF SocketData, WsData
  <2> QED
    BY <2>2, TakenIs
<1> HIDE DEF left
<1>3. ASSUME NEW s \in Sockets
      PROVE  /\ f[s] \in SocketData /\ f[s].wire = left[s][1]
             /\ f[s].closed = x.socket[s].closed /\ f[s].shut = x.socket[s].shut
             /\ f[s].buffer = x.socket[s].buffer
             /\ f[s].pendingRemoval = x.socket[s].pendingRemoval
  <2> DEFINE k == f[s]
             w == left[s][1]
             c == x.socket[s]
  <2>1. c \in R /\ c.pendingRemoval <= Len(c.buffer)
    BY DEF Worlds, SocketData
  <2>2. w \in Seq(Tokens)
    BY <1>2 DEF Lefts
  <2>3. k = [c EXCEPT !.wire = w]
    OBVIOUS
  <2> HIDE DEF k, w, c
  <2>4. /\ k \in R /\ k.wire = w /\ k.closed = c.closed /\ k.shut = c.shut
        /\ k.buffer = c.buffer /\ k.pendingRemoval = c.pendingRemoval
    BY <2>1, <2>2, <2>3
  <2>5. k \in SocketData
    BY <2>1, <2>4 DEF SocketData
  <2> QED
    BY <2>4, <2>5 DEF k, c, w
<1>4. ASSUME NEW s \in Sockets
      PROVE  /\ g[s] \in WsData /\ g[s].owed = left[s][2]
             /\ g[s].subscriber = x.ws[s].subscriber
             /\ g[s].closes = x.ws[s].closes /\ g[s].isShuttingDown = x.ws[s].isShuttingDown
             /\ g[s].lossy = x.ws[s].lossy
  <2> DEFINE k == g[s]
             o == left[s][2]
             c == x.ws[s]
  <2>1. c \in WsData
    BY WsIs
  <2>2. o \in Seq(Nat)
    BY <1>2 DEF Lefts
  <2>3. k = [c EXCEPT !.owed = o]
    OBVIOUS
  <2> HIDE DEF k, o, c
  <2>4. /\ k \in WsData /\ k.owed = o /\ k.subscriber = c.subscriber
        /\ k.closes = c.closes /\ k.isShuttingDown = c.isShuttingDown /\ k.lossy = c.lossy
    BY <2>1, <2>2, <2>3 DEF WsData
  <2> QED
    BY <2>4 DEF k, c, o
<1>5. f \in [Sockets -> SocketData]
  <2>1. f = [s \in Sockets |-> f[s]]
    OBVIOUS
  <2> HIDE DEF f
  <2> QED
    BY <1>3, <2>1
<1>6. g \in [Sockets -> WsData]
  <2>1. g = [s \in Sockets |-> g[s]]
    OBVIOUS
  <2> HIDE DEF g
  <2> QED
    BY <1>4, <2>1
<1> HIDE DEF f, g
<1>7. /\ y \in Worlds /\ y.socket = f /\ y.ws = g
      /\ y.loop = x.loop /\ y.tree = x.tree
  BY <1>5, <1>6 DEF Worlds
<1> HIDE DEF y
<1> QED
  BY <1>1, <1>2, <1>3, <1>4, <1>7

(* What the peer takes, nobody else sees.                                   *)
LEMMA DeliveredIsGood ==
  ASSUME NEW h, NEW x, Good(h, x)
  PROVE  Good(h, Delivered(x))
<1> DEFINE y == Delivered(x)
<1>1. x \in Worlds /\ Consistent(x) /\ Clean(x)
  BY DEF Good
<1>2. /\ y \in Worlds /\ y.loop = x.loop /\ y.tree = x.tree
      /\ \A s \in Sockets :
           /\ y.socket[s].closed = x.socket[s].closed
           /\ y.socket[s].shut = x.socket[s].shut
           /\ y.socket[s].buffer = x.socket[s].buffer
           /\ y.socket[s].pendingRemoval = x.socket[s].pendingRemoval
           /\ y.ws[s].closes = x.ws[s].closes
           /\ y.ws[s].isShuttingDown = x.ws[s].isShuttingDown
           /\ y.ws[s].lossy = x.ws[s].lossy
  BY <1>1, DeliveredIs
<1> HIDE DEF y
<1>3. ASSUME NEW s \in Sockets PROVE CleanAt(y, s)
  <2>1. Buffered(y, s) = Buffered(x, s)
    BY <1>2 DEF Buffered
  <2> QED
    BY <1>1, <1>2, <2>1 DEF Clean, CleanAt
<1>4. Clean(y)
  BY <1>3 DEF Clean
<1>5. Consistent(y)
  BY <1>1, <1>2 DEF Consistent, ConsistentFor, InPalette, ParkedNext
<1>6. Good(h, y)
  BY <1>2, <1>4, <1>5 DEF Good
<1> QED
  BY <1>6 DEF y

-----------------------------------------------------------------------------
(* The inductive invariant. *)

(* Who may hold the cork between two calls: the socket whose handler runs.  *)
Holder == IF running.in \in {"data", "cork"} THEN running.at ELSE NoSocket

(* The handler the loop is in. *)
HandlerIs ==
  running \in {Idle, InCall} \cup [in : {"data", "cork"}, at : Sockets]

IInv ==
  /\ nextId \in Nat \ {0}
  /\ HandlerIs
  /\ Good(Holder, Now)

WorldOf(l, k, r, w, kernel) == [loop |-> l, socket |-> k, tree |-> r, ws |-> w, kernel |-> kernel]

(* None of this depends on what the kernel is about to take.                *)
LEMMA KernelIsFree ==
  ASSUME NEW h, NEW l, NEW k, NEW r, NEW w, NEW p, NEW q \in Seq(Nat),
         Good(h, WorldOf(l, k, r, w, p))
  PROVE  Good(h, WorldOf(l, k, r, w, q))
<1> DEFINE x == WorldOf(l, k, r, w, p)
           y == WorldOf(l, k, r, w, q)
<1>1. x.loop = l /\ x.socket = k /\ x.tree = r /\ x.ws = w /\ x.kernel = p
  BY DEF WorldOf
<1>2. y.loop = l /\ y.socket = k /\ y.tree = r /\ y.ws = w /\ y.kernel = q
  BY DEF WorldOf
<1>3. y \in Worlds
  BY DEF Good, Worlds, WorldOf
<1> HIDE DEF x, y
<1>4. \A s \in Sockets : Buffered(y, s) = Buffered(x, s)
  BY <1>1, <1>2 DEF Buffered
<1>5. Good(h, x) BY DEF x
<1>6. Good(h, y)
  BY <1>1, <1>2, <1>3, <1>4, <1>5
     DEF Good, Consistent, ConsistentFor, Clean, CleanAt, InPalette, ParkedNext
<1> QED BY <1>6 DEF y

(* A world is the record of its parts.                                      *)
LEMMA WorldIs ==
  ASSUME NEW y \in Worlds
  PROVE  y = WorldOf(y.loop, y.socket, y.tree, y.ws, y.kernel)
BY DEF Worlds, WorldOf

(* A call is made from what is between the calls.                           *)
LEMMA CallStarts ==
  ASSUME NEW h, NEW kernel \in Kernels, Good(h, Now)
  PROVE  Good(h, World(kernel)) /\ kernel \in Seq(Nat)
<1>1. kernel \in Seq(Nat) BY PubSubAssumption
<1> QED BY <1>1, KernelIsFree DEF World, Now, WorldOf

(* And ends there.                                                          *)
LEMMA CallEnds ==
  ASSUME NEW h, NEW x, Good(h, x), Becomes(x)
  PROVE  Good(h, Now')
<1> DEFINE y == Delivered(x)
<1>1. Good(h, y) BY DeliveredIsGood
<1>2. loop' = y.loop /\ socket' = y.socket /\ tree' = y.tree /\ ws' = y.ws
  BY DEF Becomes
<1> HIDE DEF y
<1>3. y = WorldOf(y.loop, y.socket, y.tree, y.ws, y.kernel)
  BY <1>1, WorldIs DEF Good
<1>4. Good(h, WorldOf(y.loop, y.socket, y.tree, y.ws, y.kernel))
  BY <1>1, <1>3, Zenon
<1>6. Good(h, WorldOf(y.loop, y.socket, y.tree, y.ws, << >>))
  BY <1>4, << >> \in Seq(Nat), KernelIsFree
<1>5. Now' = WorldOf(y.loop, y.socket, y.tree, y.ws, << >>)
  BY <1>2 DEF Now, World, WorldOf
<1> QED BY <1>6, <1>5

-----------------------------------------------------------------------------
(* The steps. *)
(* What a call reads of the state.                                          *)
LEMMA WorldHas ==
  ASSUME NEW kernel
  PROVE  /\ World(kernel).ws = ws /\ World(kernel).socket = socket
         /\ World(kernel).loop = loop /\ World(kernel).tree = tree
BY DEF World

(* And of what is between the calls.                                        *)
LEMMA NowHas ==
  /\ Now.ws = ws /\ Now.socket = socket /\ Now.loop = loop /\ Now.tree = tree
BY DEF Now, World

(* A message of the application, and one of the library.                    *)
LEMMA MessageIs ==
  ASSUME IInv, NEW len \in Nat, NEW op \in {"data", "ping", "close"}
  PROVE  Message(op, len) \in Messages
BY DEF IInv, Message, Messages

(* What the application sends has a length, and a number of its own.        *)
LEMMA LengthIs ==
  ASSUME IInv, Numbered, NEW len \in Lengths[nextId]
  PROVE  Message("data", len) \in Messages /\ nextId' \in Nat \ {0}
<1>1. nextId \in Nat \ {0} /\ nextId <= MaxMessages /\ nextId' = nextId + 1
  BY DEF IInv, Numbered
<1>2. nextId \in 1..MaxMessages
  BY <1>1, PubSubAssumption
<1>3. Lengths[nextId] \subseteq Nat
  BY <1>2, PubSubAssumption
<1> QED BY <1>1, <1>3, MessageIs

(* A call inside a handler that ends well.                                  *)
LEMMA CallKeeps ==
  ASSUME IInv, NEW y, Good(Holder, y), Calls(y), nextId' \in Nat \ {0}
  PROVE  IInv'
<1>1. running' = running /\ Becomes(y)
  BY DEF Calls
<1>2. Holder' = Holder /\ HandlerIs'
  BY <1>1 DEF Holder, HandlerIs, IInv
<1>3. Good(Holder, Now')
  BY <1>1, CallEnds
<1> QED BY <1>2, <1>3 DEF IInv

(* Between the handlers nobody holds the cork.                              *)
LEMMA NobodyHolds ==
  ASSUME running \in {Idle, InCall}
  PROVE  Holder = NoSocket
BY DEF Holder, Idle, InCall

(* One step of the loop outside its handlers.                               *)
LEMMA DispatchKeeps ==
  ASSUME NEW y, Good(NoSocket, y), Becomes(y), running' \in {Idle, InCall}, nextId' \in Nat \ {0}
  PROVE  IInv'
<1>1. Good(NoSocket, Now')
  BY CallEnds
<1>2. Holder' = NoSocket /\ HandlerIs'
  BY DEF Holder, HandlerIs, Idle, InCall
<1> QED BY <1>1, <1>2 DEF IInv

(* One lemma for each action: send of one socket.                           *)
LEMMA SendKeeps ==
  ASSUME IInv, NEW s \in Sockets, AppSend(s)
  PROVE  IInv'
<1>1. PICK kernel \in Kernels, len \in Lengths[nextId] :
        Calls(SendOwed(World(kernel), s, Message("data", len)))
  BY DEF AppSend
<1>2. Good(Holder, World(kernel))
  BY CallStarts DEF IInv
<1>3. Message("data", len) \in Messages /\ nextId' \in Nat \ {0}
  BY LengthIs DEF AppSend
<1>4. World(kernel).ws[s].closes = 0
  BY WorldHas DEF AppSend, Usable
<1> DEFINE x == World(kernel)
           m == Message("data", len)
<1> HIDE DEF x, m
<1>5. Kept(x, SendOwed(x, s, m)) /\ Consistent(SendOwed(x, s, m))
  BY <1>2, <1>3, <1>4, SentOwed DEF Good, x, m
<1>6. Good(Holder, SendOwed(x, s, m))
  BY <1>2, <1>5, KeptIsGood DEF x
<1> QED BY <1>1, <1>3, <1>6, CallKeeps DEF x, m

(* publish of one socket.                                                   *)
LEMMA PublishKeeps ==
  ASSUME IInv, NEW s \in Sockets, NEW t \in Topics, AppPublishes(s, t)
  PROVE  IInv'
<1>1. PICK kernel \in Kernels, len \in Lengths[nextId] :
        Calls(Publish(World(kernel), s, t, Message("data", len)))
  BY DEF AppPublishes
<1>2. Good(Holder, World(kernel))
  BY CallStarts DEF IInv
<1>3. Message("data", len) \in Messages /\ nextId' \in Nat \ {0}
  BY LengthIs DEF AppPublishes
<1> DEFINE x == World(kernel)
           m == Message("data", len)
<1> HIDE DEF x, m
<1>5. Kept(x, Publish(x, s, t, m)) /\ Consistent(Publish(x, s, t, m))
  BY <1>2, <1>3, Published DEF Good, x, m
<1>6. Good(Holder, Publish(x, s, t, m))
  BY <1>2, <1>5, KeptIsGood DEF x
<1> QED BY <1>1, <1>3, <1>6, CallKeeps DEF x, m

(* publish of App, which excludes nobody.                                   *)
LEMMA PublishToAllKeeps ==
  ASSUME IInv, NEW t \in Topics, AppPublishesToAll(t)
  PROVE  IInv'
<1>1. PICK kernel \in Kernels, len \in Lengths[nextId] :
        Calls(AppPublish(World(kernel), NoSocket, t, Message("data", len)))
  BY DEF AppPublishesToAll
<1>2. Good(Holder, World(kernel))
  BY CallStarts DEF IInv
<1>3. Message("data", len) \in Messages /\ nextId' \in Nat \ {0}
  BY LengthIs DEF AppPublishesToAll
<1> DEFINE x == World(kernel)
           m == Message("data", len)
<1> HIDE DEF x, m
<1>5. Kept(x, AppPublish(x, NoSocket, t, m)) /\ Consistent(AppPublish(x, NoSocket, t, m))
  BY <1>2, <1>3, AppPublished DEF Good, x, m
<1>6. Good(Holder, AppPublish(x, NoSocket, t, m))
  BY <1>2, <1>5, KeptIsGood DEF x
<1> QED BY <1>1, <1>3, <1>6, CallKeeps DEF x, m

(* end by the application.                                                  *)
LEMMA EndKeeps ==
  ASSUME IInv, NEW s \in Sockets, AppEnd(s)
  PROVE  IInv'
<1>1. PICK kernel \in Kernels : Calls(End(World(kernel), s, Message("close", 1)))
  BY DEF AppEnd
<1>2. Good(Holder, World(kernel))
  BY CallStarts DEF IInv
<1>3. Message("close", 1) \in Messages
  BY MessageIs
<1>4. nextId' \in Nat \ {0}
  BY DEF AppEnd, IInv
<1>5. World(kernel).ws[s].closes = 0
  BY WorldHas DEF AppEnd, Usable
<1>6. Good(Holder, End(World(kernel), s, Message("close", 1)))
  BY <1>2, <1>3, <1>5, Ended
<1> QED BY <1>1, <1>4, <1>6, CallKeeps

(* close by the application.                                                *)
LEMMA CloseKeeps ==
  ASSUME IInv, NEW s \in Sockets, AppCloses(s)
  PROVE  IInv'
<1>1. Good(Holder, WsClose(Now, s))
  BY WsClosed DEF IInv
<1>2. nextId' \in Nat \ {0} /\ Calls(WsClose(Now, s))
  BY DEF AppCloses, IInv
<1> QED BY <1>1, <1>2, CallKeeps

(* subscribe: nobody is iterating between two calls.                        *)
LEMMA SubscribeKeeps ==
  ASSUME IInv, NEW s \in Sockets, NEW t \in Topics, AppSubscribes(s, t)
  PROVE  IInv'
<1>1. Good(Holder, Now)
  BY DEF IInv
<1>2. Now.ws[s].closes = 0 /\ ~Now.loop.dead
  BY NowHas DEF AppSubscribes, Usable
<1>3. Now.tree.iterating # s
  BY <1>1, <1>2, PubSubAssumption DEF Good
<1>4. Regrouped(Now, Subscribe(Now, s, t))
  BY <1>1, <1>2, <1>3, Subscribed DEF Good
<1>5. Good(Holder, Subscribe(Now, s, t))
  BY <1>1, <1>4, RegroupedIsGood
<1>6. nextId' \in Nat \ {0} /\ Calls(Subscribe(Now, s, t))
  BY DEF AppSubscribes, IInv
<1> QED BY <1>5, <1>6, CallKeeps

(* unsubscribe, likewise.                                                   *)
LEMMA UnsubscribeKeeps ==
  ASSUME IInv, NEW s \in Sockets, NEW t \in Topics, AppUnsubscribes(s, t)
  PROVE  IInv'
<1>1. Good(Holder, Now)
  BY DEF IInv
<1>3. Now.tree.iterating # s
  BY <1>1, NowHas, PubSubAssumption DEF Good, AppUnsubscribes, Usable
<1>4. Regrouped(Now, Unsubscribe(Now, s, t))
  BY <1>1, <1>3, Unsubscribed DEF Good
<1>5. Good(Holder, Unsubscribe(Now, s, t))
  BY <1>1, <1>4, RegroupedIsGood
<1>6. nextId' \in Nat \ {0} /\ Calls(Unsubscribe(Now, s, t))
  BY DEF AppUnsubscribes, IInv
<1> QED BY <1>5, <1>6, CallKeeps

(* iterateTopics of s, with a callback that subscribes u.                   *)
LEMMA IterateKeeps ==
  ASSUME IInv, NEW s \in Sockets, NEW u \in Sockets, AppIterates(s, u)
  PROVE  IInv'
<1>1. Good(Holder, Now)
  BY DEF IInv
<1>2. Now.ws[u].closes = 0 /\ ~Now.loop.dead
  BY NowHas DEF AppIterates, Usable
<1>3. PICK topics \in {TopicsOf(Now, s), OtherTopics(Now, s)} : Calls(IterateTopics(Now, s, u, topics))
  BY DEF AppIterates
<1>4. topics \subseteq Topics
  BY <1>3 DEF TopicsOf, OtherTopics
<1>5. Good(Holder, IterateTopics(Now, s, u, topics))
  BY <1>1, <1>2, <1>4, Iterated
<1>6. nextId' \in Nat \ {0}
  BY DEF AppIterates, IInv
<1> QED BY <1>3, <1>5, <1>6, CallKeeps

(* A handler that holds the cork at s.                                      *)
LEMMA HandlerKeeps ==
  ASSUME NEW s \in Sockets, NEW in \in {"data", "cork"}, running' = [in |-> in, at |-> s],
         nextId' \in Nat \ {0}, NEW y, Good(s, y), Becomes(y)
  PROVE  IInv'
<1>1. Good(s, Now')
  BY CallEnds
<1>2. Holder' = s /\ HandlerIs'
  BY DEF Holder, HandlerIs
<1> QED BY <1>1, <1>2 DEF IInv

(* WebSocket::cork, whose handler then holds the cork.                      *)
LEMMA CorkKeeps ==
  ASSUME IInv, NEW s \in Sockets, AppCorks(s)
  PROVE  IInv'
<1>1. Good(NoSocket, Now) /\ Now.ws[s].closes = 0
  BY NobodyHolds, NowHas DEF IInv, AppCorks, Usable
<1>2. Good(s, Cork(Now, s))
  BY <1>1, CorkIsTaken
<1>3. nextId' \in Nat \ {0} /\ running' = [in |-> "cork", at |-> s] /\ Becomes(Cork(Now, s))
  BY DEF AppCorks, IInv
<1> QED BY <1>2, <1>3, HandlerKeeps

(* A handler that returns has its cork taken back.                          *)
LEMMA ReturnKeeps ==
  ASSUME IInv, HandlerReturns
  PROVE  IInv'
<1>1. PICK kernel \in Kernels : Becomes(Returned(World(kernel)))
  BY DEF HandlerReturns
<1>2. Good(Holder, World(kernel))
  BY CallStarts DEF IInv
<1>3. nextId' \in Nat \ {0} /\ running' \in {Idle, InCall}
  BY DEF HandlerReturns, IInv
<1> DEFINE x == World(kernel)
<1> HIDE DEF x
<1>4. Good(NoSocket, Returned(x))
  <2>1. CASE running.in = "data"
    <3>1. running.at \in Sockets /\ Holder = running.at
      BY <2>1 DEF IInv, HandlerIs, Holder, Idle, InCall
    <3>2. Returned(x) = OnDataEnd(x, running.at)
      BY <2>1 DEF Returned
    <3> QED BY <1>2, <3>1, <3>2, DataEnds DEF x
  <2>2. CASE running.in = "cork"
    <3>1. running.at \in Sockets /\ Holder = running.at
      BY <2>2 DEF IInv, HandlerIs, Holder, Idle, InCall
    <3>2. Returned(x) = Uncork(x, running.at, << >>, FALSE).x
      BY <2>2 DEF Returned
    <3> QED BY <1>2, <3>1, <3>2, CorkIsFree DEF x
  <2>3. CASE running.in \notin {"data", "cork"}
    <3>1. Holder = NoSocket
      BY <2>3 DEF Holder
    <3>2. Returned(x) = x
      BY <2>3 DEF Returned
    <3> QED BY <1>2, <3>1, <3>2 DEF x
  <2> QED BY <2>1, <2>2, <2>3
<1> QED BY <1>1, <1>3, <1>4, DispatchKeeps DEF x

(* Between the handlers.                                                    *)
LEMMA FreeIs ==
  ASSUME IInv, Free
  PROVE  Good(NoSocket, Now) /\ running \in {Idle, InCall}
BY NobodyHolds DEF IInv, Free

(* Data comes in: a socket that is open and does not end may be corked.     *)
LEMMA DataKeeps ==
  ASSUME IInv, NEW s \in Sockets, OnData(s)
  PROVE  IInv'
<1>1. Good(NoSocket, Now)
  BY FreeIs DEF OnData, Open
<1>2. ~Now.ws[s].isShuttingDown /\ ~Now.socket[s].closed
  BY NowHas DEF OnData, Open
<1>3. Now.ws[s].closes = 0
  BY <1>1, <1>2, OpenIs DEF Good
<1>4. Good(s, OnDataBegin(Now, s))
  BY <1>1, <1>3, DataBegins
<1>5. nextId' \in Nat \ {0} /\ running' = [in |-> "data", at |-> s] /\ Becomes(OnDataBegin(Now, s))
  BY DEF OnData, IInv
<1> QED BY <1>4, <1>5, HandlerKeeps

(* The FIN of the peer.                                                     *)
LEMMA FinKeeps ==
  ASSUME IInv, NEW s \in Sockets, OnEnd(s)
  PROVE  IInv'
<1>1. Good(NoSocket, Now) /\ running \in {Idle, InCall}
  BY FreeIs DEF OnEnd, Open
<1>2. Good(NoSocket, CloseSocket(Now, s))
  BY <1>1, SocketClosed
<1>3. nextId' \in Nat \ {0} /\ running' = running /\ Becomes(CloseSocket(Now, s))
  BY DEF OnEnd, IInv
<1> QED BY <1>1, <1>2, <1>3, DispatchKeeps

(* The idle timeout.                                                        *)
LEMMA TimeoutKeeps ==
  ASSUME IInv, NEW s \in Sockets, Timeout(s)
  PROVE  IInv'
<1>1. Good(NoSocket, Now) /\ running \in {Idle, InCall}
  BY FreeIs DEF Timeout, Open
<1>2. PICK kernel \in Kernels : Becomes(OnTimeout(World(kernel), s, Message("ping", 1)))
  BY DEF Timeout
<1>3. Good(NoSocket, World(kernel)) /\ ~World(kernel).socket[s].closed
  BY <1>1, CallStarts, WorldHas DEF Timeout, Open
<1>4. Message("ping", 1) \in Messages
  BY MessageIs
<1>5. Good(NoSocket, OnTimeout(World(kernel), s, Message("ping", 1)))
  BY <1>3, <1>4, TimedOut
<1>6. nextId' \in Nat \ {0} /\ running' = running
  BY DEF Timeout, IInv
<1> QED BY <1>1, <1>2, <1>5, <1>6, DispatchKeeps

(* The long timeout, which ends a socket that may have ended before.        *)
LEMMA LongTimeoutKeeps ==
  ASSUME IInv, NEW s \in Sockets, LongTimeout(s)
  PROVE  IInv'
<1>1. Good(NoSocket, Now) /\ running \in {Idle, InCall}
  BY FreeIs DEF LongTimeout, Open
<1>2. PICK kernel \in Kernels : Becomes(End(World(kernel), s, Message("close", 1)))
  BY DEF LongTimeout
<1>3. Good(NoSocket, World(kernel)) /\ ~World(kernel).socket[s].closed
  BY <1>1, CallStarts, WorldHas DEF LongTimeout, Open
<1>4. Message("close", 1) \in Messages
  BY MessageIs
<1>5. Good(NoSocket, End(World(kernel), s, Message("close", 1)))
  BY <1>3, <1>4, Ended
<1>6. nextId' \in Nat \ {0} /\ running' = running
  BY DEF LongTimeout, IInv
<1> QED BY <1>1, <1>2, <1>5, <1>6, DispatchKeeps

(* A socket that may be written to again.                                   *)
LEMMA WritableKeeps ==
  ASSUME IInv, NEW s \in Sockets, NEW kernel \in Kernels, Writable(s, kernel)
  PROVE  IInv'
<1>1. Good(NoSocket, Now)
  BY FreeIs DEF Writable, Open
<1>2. Good(NoSocket, World(kernel)) /\ ~World(kernel).socket[s].closed
  BY <1>1, CallStarts, WorldHas DEF Writable, Open
<1>3. Good(NoSocket, OnWritable(World(kernel), s))
  BY <1>2, WritableIsGood
<1>4. nextId' \in Nat \ {0} /\ running' \in {Idle, InCall} /\ Becomes(OnWritable(World(kernel), s))
  BY DEF Writable, IInv
<1> QED BY <1>3, <1>4, DispatchKeeps

(* The end of one iteration and the start of the next.                      *)
LEMMA IterationKeeps ==
  ASSUME IInv, Iterate
  PROVE  IInv'
<1>1. Good(NoSocket, Now) /\ running \in {Idle, InCall}
  BY FreeIs DEF Iterate
<1>2. PICK kernel \in Kernels : Becomes(PreCb(PostCb(World(kernel))))
  BY DEF Iterate
<1>3. Good(NoSocket, PreCb(PostCb(World(kernel))))
  BY <1>1, CallStarts, IterationIsGood
<1>4. nextId' \in Nat \ {0} /\ running' = running
  BY DEF Iterate, IInv
<1> QED BY <1>1, <1>2, <1>3, <1>4, DispatchKeeps

(* A timer, a deferred callback or a drain handler begins.                  *)
LEMMA CallBegins ==
  ASSUME IInv, Call
  PROVE  IInv'
<1>1. Good(NoSocket, Now)
  BY FreeIs DEF Call
<1>2. Now' = Now /\ nextId' = nextId /\ running' = InCall
  BY DEF Call, world, Now, World
<1>3. Holder' = NoSocket /\ HandlerIs'
  BY <1>2 DEF Holder, HandlerIs, InCall
<1> QED BY <1>1, <1>2, <1>3 DEF IInv

(* A step that changes nothing.                                             *)
LEMMA StutterKeeps ==
  ASSUME IInv, UNCHANGED vars
  PROVE  IInv'
<1>1. Now' = Now /\ nextId' = nextId /\ running' = running
  BY DEF vars, world, Now, World
<1>2. Holder' = Holder /\ HandlerIs'
  BY <1>1 DEF Holder, HandlerIs, IInv
<1> QED BY <1>1, <1>2 DEF IInv

(* A loop whose sockets have just been opened.                              *)
LEMMA InvStarts ==
  ASSUME Init
  PROVE  IInv
<1>1. PICK subscribed \in Subscriptions :
        /\ loop = NewLoop
        /\ socket = [s \in Sockets |-> NewSocket]
        /\ tree = NewTree(subscribed)
        /\ ws = [s \in Sockets |-> [NewWs EXCEPT !.subscriber = subscribed[s] # {}]]
  BY DEF Init
<1>2. nextId = 1 /\ running = Idle
  BY DEF Init
<1>3. Holder = NoSocket /\ HandlerIs
  BY <1>2 DEF Holder, HandlerIs, Idle
<1> DEFINE x == Now
<1>4. x.loop = loop /\ x.socket = socket /\ x.tree = tree /\ x.ws = ws
  BY NowHas
<1>5. loop \in LoopData /\ loop.corked = NoSocket /\ loop.cork = << >> /\ ~loop.dead
  <2>1. loop = [corked |-> NoSocket, cork |-> << >>, dead |-> FALSE]
    BY <1>1 DEF NewLoop
  <2>2. Len(<< >>) = 0 /\ << >> \in Seq(Tokens)
    OBVIOUS
  <2>3. CorkFits(NoSocket, << >>)
    BY <2>2, SizesAreNatural DEF CorkFits
  <2>4. loop.corked = NoSocket /\ loop.cork = << >> /\ loop.dead = FALSE
    BY <2>1
  <2>5. loop \in [corked : Sockets \cup {NoSocket}, cork : Seq(Tokens), dead : BOOLEAN]
    BY <2>1, <2>2
  <2> QED BY <2>3, <2>4, <2>5 DEF LoopData
<1>6. NewSocket \in SocketData
  BY DEF NewSocket, SocketData
<1>7. tree \in TreeData /\ tree.iterating = NoSocket /\ tree.drainable = << >>
      /\ \A s \in Sockets : tree.indices[s] = << >>
  BY <1>1 DEF NewTree, TreeData
<1>8. ws \in [Sockets -> WsData]
  <2>1. ASSUME NEW s \in Sockets
        PROVE  [NewWs EXCEPT !.subscriber = subscribed[s] # {}] \in WsData
    <3> DEFINE b == subscribed[s] # {}
    <3>1. b \in BOOLEAN
      OBVIOUS
    <3> HIDE DEF b
    <3>2. NewWs \in WsData
      BY DEF NewWs, WsData
    <3>3. [NewWs EXCEPT !.subscriber = b] \in WsData
      BY <3>1, <3>2 DEF WsData
    <3> QED BY <3>3 DEF b
  <2> QED BY <1>1, <2>1
<1>9. x \in Worlds
  BY <1>1, <1>5, <1>6, <1>7, <1>8 DEF Worlds, Now, World
<1>10. \A s \in Sockets : x.ws[s].closes = 0 /\ ~x.ws[s].isShuttingDown
  BY <1>1, <1>4 DEF NewWs
<1>11. \A s \in Sockets : ~x.socket[s].closed /\ ~x.socket[s].shut
  BY <1>1, <1>4 DEF NewSocket
<1> HIDE DEF x
<1>12. Consistent(x)
  BY <1>4, <1>7, <1>9, <1>10, ConsistentEmpty
<1>13. Clean(x)
  BY <1>10, <1>11 DEF Clean, CleanAt
<1>14. Good(NoSocket, x)
  BY <1>4, <1>5, <1>7, <1>9, <1>12, <1>13 DEF Good
<1> QED BY <1>2, <1>3, <1>14 DEF IInv, x

(* Every step keeps the invariant.                                          *)
LEMMA StepKeepsInv ==
  ASSUME IInv, [Next]_vars
  PROVE  IInv'
<1>1. ASSUME NEW s \in Sockets, NEW kernel \in Kernels, Writable(s, kernel) PROVE IInv'
  BY <1>1, WritableKeeps
<1>2. ASSUME NEW s \in Sockets,
             \/ AppSend(s) \/ AppEnd(s) \/ AppCloses(s) \/ AppCorks(s)
             \/ OnData(s) \/ OnEnd(s) \/ Timeout(s) \/ LongTimeout(s)
      PROVE  IInv'
  BY <1>2, SendKeeps, EndKeeps, CloseKeeps, CorkKeeps, DataKeeps, FinKeeps,
     TimeoutKeeps, LongTimeoutKeeps
<1>3. ASSUME NEW s \in Sockets, NEW t \in Topics,
             AppPublishes(s, t) \/ AppSubscribes(s, t) \/ AppUnsubscribes(s, t)
      PROVE  IInv'
  BY <1>3, PublishKeeps, SubscribeKeeps, UnsubscribeKeeps
<1>4. ASSUME NEW t \in Topics, AppPublishesToAll(t) PROVE IInv'
  BY <1>4, PublishToAllKeeps
<1>5. ASSUME NEW s \in Sockets, NEW u \in Sockets, AppIterates(s, u) PROVE IInv'
  BY <1>5, IterateKeeps
<1>6. ASSUME HandlerReturns \/ Iterate \/ Call PROVE IInv'
  BY <1>6, ReturnKeeps, IterationKeeps, CallBegins
<1>7. CASE UNCHANGED vars
  BY <1>7, StutterKeeps
<1>8. CASE Next
  BY <1>8, <1>1, <1>2, <1>3, <1>4, <1>5, <1>6 DEF Next
<1> QED BY <1>7, <1>8

(* Between the calls, whatever the application does: the invariant.         *)
THEOREM InvHolds == Spec => []IInv
<1>1. Init => IInv
  BY InvStarts
<1>2. IInv /\ [Next]_vars => IInv'
  BY StepKeepsInv
<1> QED BY <1>1, <1>2, PTL DEF Spec

(* PubSub!TypeOK, for any sockets, topics, kernels and limits: the cork buffer *)
(* stays within its size, no more is removed from a backpressure than there *)
(* is, a batch within the messageIndices of a Subscriber.                   *)
THEOREM TypesHold == Spec => []TypeOK
<1>1. ASSUME IInv PROVE TypeOK
  <2>1. Now \in Worlds /\ Consistent(Now) /\ Clean(Now)
    BY <1>1 DEF IInv, Good
  <2>2. loop.corked \in Sockets \cup {NoSocket} /\ Len(loop.cork) <= CORK_BUFFER_SIZE
    BY <2>1, CorkIs, NowHas
  <2>3. ASSUME NEW s \in Sockets
        PROVE  /\ socket[s].pendingRemoval \in 0..Len(socket[s].buffer)
               /\ ws[s].closes \in {0, 1}
               /\ Len(tree.indices[s]) <= BatchLimit
    <3>1. socket[s].pendingRemoval \in 0..Len(socket[s].buffer)
      BY <2>1, BufferedIs, NowHas
    <3>2. ws[s].closes \in {0, 1}
      BY <2>1, OpenIs, NowHas
    <3>3. Len(tree.indices[s]) <= BatchLimit
      BY <2>1, NowHas DEF Consistent, ConsistentFor
    <3> QED BY <3>1, <3>2, <3>3
  <2>4. tree.topics \in [Topics -> SUBSET Sockets]
    BY <2>1, TreeHas, NowHas
  <2>5. running.in \in {"none", "data", "call", "cork"}
    BY <1>1 DEF IInv, HandlerIs, Idle, InCall
  <2> QED BY <2>2, <2>3, <2>4, <2>5 DEF TypeOK
<1> QED BY <1>1, InvHolds, PTL

(* PubSub!CorkIsGivenBack: the std::terminate of cork and of postCb are not *)
(* reached, that of the topic tree only while the topics of a socket are    *)
(* being iterated, and a handler that has returned leaves no cork behind    *)
(* (AsyncSocket.h, Loop.h, TopicTree.h).                                    *)
THEOREM CorkIsAlwaysGivenBack == Spec => []CorkIsGivenBack
<1>1. ASSUME IInv PROVE CorkIsGivenBack
  <2>1. /\ Now \in Worlds /\ Now.loop.corked \in {Holder, NoSocket}
        /\ Now.loop.dead => Now.tree.iterating # NoSocket
    BY <1>1 DEF IInv, Good
  <2>2. loop.cork # << >> => loop.corked # NoSocket
    BY <2>1, CorkIs, NowHas
  <2>3. running \in {Idle, InCall} => loop.corked = NoSocket
    BY <2>1, NobodyHolds, NowHas
  <2> QED BY <2>1, <2>2, <2>3, NowHas DEF CorkIsGivenBack
<1> QED BY <1>1, InvHolds, PTL

(* PubSub!TreeIsConsistent: the linked list of the topic tree holds exactly *)
(* the subscribers with something parked, whose indices lie in the palette, *)
(* and nobody that has closed (TopicTree.h).                                *)
THEOREM TreeIsAlwaysConsistent == Spec => []TreeIsConsistent
<1>1. ASSUME IInv PROVE TreeIsConsistent
  <2>1. Consistent(Now)
    BY <1>1 DEF IInv, Good
  <2>2. /\ Range(tree.drainable) = {s \in Sockets : tree.indices[s] # << >>}
        /\ IsInjective(tree.drainable)
        /\ \A s \in Sockets :
             /\ \A i \in 1..Len(tree.indices[s]) : tree.indices[s][i] < Len(tree.palette)
             /\ ws[s].closes = 1 =>
                  tree.indices[s] = << >> /\ \A t \in Topics : s \notin tree.topics[t]
    BY <2>1, NowHas DEF Consistent, ConsistentFor, InPalette
  <2>3. \A s \in Sockets : NeedsDrainage(Now, s) <=> tree.indices[s] # << >>
    BY NowHas DEF NeedsDrainage
  <2>4. \A s \in Sockets : (\A t \in Topics : s \notin tree.topics[t]) => TopicsOf(Now, s) = {}
    BY NowHas DEF TopicsOf
  <2>5. Range(tree.drainable) = {s \in Sockets : NeedsDrainage(Now, s)}
    BY <2>2, <2>3
  <2> QED BY <2>2, <2>3, <2>4, <2>5 DEF TreeIsConsistent
<1> QED BY <1>1, InvHolds, PTL

(* PubSub!EndIsClean: a FIN is sent by who ended and behind all that was sent, *)
(* and the close event is given once (WebSocket.h, WebSocketContext.h).     *)
THEOREM EndIsAlwaysClean == Spec => []EndIsClean
<1>1. ASSUME IInv PROVE EndIsClean
  <2>1. Clean(Now) /\ Now \in Worlds
    BY <1>1 DEF IInv, Good
  <2>2. ASSUME NEW s \in Sockets
        PROVE  /\ Live(s) /\ socket[s].shut =>
                    ws[s].isShuttingDown /\ (Buffered(Now, s) = << >> \/ ws[s].lossy)
               /\ ws[s].closes = 1 <=> ws[s].isShuttingDown \/ socket[s].closed
    BY <2>1, NowHas DEF Clean, CleanAt, Live
  <2> QED BY <2>2 DEF EndIsClean
<1> QED BY <1>1, InvHolds, PTL
=============================================================================
