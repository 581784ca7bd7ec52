----------------------------- MODULE StreamProofs -----------------------------
(***************************************************************************)
(* What the peer of a WebSocket gets, proved for every set of sockets and  *)
(* topics, every kernel and all limits: whole frames in the order of the   *)
(* calls, and all that was sent unless something was dropped.              *)
(*                                                                         *)
(* The lemmas follow the calls as those of PubSubProofs do.  A write adds  *)
(* its bytes to the stream of its socket and leaves the other streams      *)
(* alone (Streamed).                                                       *)
(***************************************************************************)
EXTENDS PubSubProofs

-----------------------------------------------------------------------------
(* Sequences. *)

(* What is cut in two is what it was.                                       *)
LEMMA CutInTwo ==
  ASSUME NEW T, NEW q \in Seq(T), NEW n \in 0..Len(q)
  PROVE  /\ SubSeq(q, 1, n) \in Seq(T) /\ From(q, n) \in Seq(T)
         /\ SubSeq(q, 1, n) \o From(q, n) = q
<1>1. Len(q) \in Nat
  BY LenProperties
<1>2. \A i \in 1..n : q[i] \in T
  BY <1>1
<1>3. \A i \in n + 1..Len(q) : q[i] \in T
  BY <1>1
<1>4. SubSeq(q, 1, n) \in Seq(T)
  BY <1>1, <1>2, SubSeqProperties
<1>5. SubSeq(q, n + 1, Len(q)) \in Seq(T)
  BY <1>1, <1>3, SubSeqProperties
<1>6. SubSeq(q, 1, n) \o SubSeq(q, n + 1, Len(q)) = SubSeq(q, 1, Len(q))
  <2>1. 1 \in 1..Len(q) + 1 /\ n \in 1 - 1..Len(q) /\ Len(q) \in n..Len(q)
    BY <1>1
  <2> QED
    BY <2>1, ConcatAdjacentSubSeq
<1>7. SubSeq(q, 1, Len(q)) = q
  BY SubSeqFull
<1> QED
  BY <1>4, <1>5, <1>6, <1>7 DEF From

(* Three streams in a row.                                                  *)
LEMMA InARow ==
  ASSUME NEW a \in Seq(Tokens), NEW b \in Seq(Tokens), NEW c \in Seq(Tokens)
  PROVE  (a \o b) \o c = a \o (b \o c)
BY ConcatAssociative

(* Three sequences of ids in a row.                                         *)
LEMMA IdsInARow ==
  ASSUME NEW a \in Seq(Nat), NEW b \in Seq(Nat), NEW c \in Seq(Nat)
  PROVE  /\ (a \o b) \o c = a \o (b \o c)
         /\ a \o b \in Seq(Nat) /\ b \o c \in Seq(Nat) /\ a \o (b \o c) \in Seq(Nat)
<1>1. a \o b \in Seq(Nat) /\ b \o c \in Seq(Nat)
  BY ConcatProperties
<1>2. a \o (b \o c) \in Seq(Nat)
  BY <1>1, ConcatProperties
<1> QED
  BY <1>1, <1>2, ConcatAssociative

(* The rest of a rest.                                                      *)
LEMMA RestOfRest ==
  ASSUME NEW T, NEW q \in Seq(T), NEW p \in Nat, NEW n \in Nat, p + n <= Len(q)
  PROVE  From(q, p + n) = From(From(q, p), n)
<1>1. Len(q) \in Nat
  BY LenProperties
<1>2. \A i \in p + 1..Len(q) : q[i] \in T
  BY <1>1
<1>3. \A i \in p + n + 1..Len(q) : q[i] \in T
  BY <1>1
<1> DEFINE a == SubSeq(q, p + 1, Len(q))
           b == SubSeq(q, p + n + 1, Len(q))
<1>4. /\ a \in Seq(T) /\ Len(a) = Len(q) - p
      /\ \A i \in 1..Len(q) - p : a[i] = q[p + i]
  BY <1>1, <1>2, SubSeqProperties
<1>5. /\ b \in Seq(T) /\ Len(b) = Len(q) - p - n
      /\ \A i \in 1..Len(q) - p - n : b[i] = q[p + n + i]
  BY <1>1, <1>3, SubSeqProperties
<1> HIDE DEF a, b
<1> DEFINE c == SubSeq(a, n + 1, Len(a))
<1>6. \A i \in n + 1..Len(a) : a[i] \in T
  BY <1>1, <1>4
<1>7. /\ c \in Seq(T) /\ Len(c) = Len(q) - p - n
      /\ \A i \in 1..Len(q) - p - n : c[i] = a[n + i]
  BY <1>1, <1>4, <1>6, SubSeqProperties
<1> HIDE DEF c
<1>8. \A i \in 1..Len(b) : b[i] = c[i]
  BY <1>1, <1>4, <1>5, <1>7
<1>9. b = c
  BY <1>5, <1>7, <1>8, SeqEqual
<1> QED
  BY <1>9 DEF a, b, c, From

(* The rest of what was made longer.                                        *)
LEMMA RestOfLonger ==
  ASSUME NEW T, NEW q \in Seq(T), NEW d \in Seq(T), NEW p \in 0..Len(q)
  PROVE  From(q \o d, p) = From(q, p) \o d
<1>1. Len(q) \in Nat /\ Len(d) \in Nat
  BY LenProperties
<1> DEFINE e == q \o d
<1>2. /\ e \in Seq(T) /\ Len(e) = Len(q) + Len(d)
      /\ \A i \in 1..Len(q) + Len(d) : e[i] = IF i <= Len(q) THEN q[i] ELSE d[i - Len(q)]
  BY ConcatProperties
<1> HIDE DEF e
<1> DEFINE a == SubSeq(q, p + 1, Len(q))
           b == SubSeq(e, p + 1, Len(e))
<1>3. \A i \in p + 1..Len(q) : q[i] \in T
  BY <1>1
<1>4. \A i \in p + 1..Len(e) : e[i] \in T
  BY <1>1, <1>2
<1>5. /\ a \in Seq(T) /\ Len(a) = Len(q) - p
      /\ \A i \in 1..Len(q) - p : a[i] = q[p + i]
  BY <1>1, <1>3, SubSeqProperties
<1>6. /\ b \in Seq(T) /\ Len(b) = Len(q) + Len(d) - p
      /\ \A i \in 1..Len(q) + Len(d) - p : b[i] = e[p + i]
  BY <1>1, <1>2, <1>4, SubSeqProperties
<1> HIDE DEF a, b
<1> DEFINE c == a \o d
<1>7. /\ c \in Seq(T) /\ Len(c) = Len(a) + Len(d)
      /\ \A i \in 1..Len(a) + Len(d) : c[i] = IF i <= Len(a) THEN a[i] ELSE d[i - Len(a)]
  BY <1>5, ConcatProperties
<1> HIDE DEF c
<1>8. Len(b) = Len(c)
  BY <1>1, <1>5, <1>6, <1>7
<1>9. ASSUME NEW i \in 1..Len(b) PROVE b[i] = c[i]
  <2>1. i \in Int /\ 1 <= i /\ i <= Len(q) + Len(d) - p /\ p + i \in 1..Len(q) + Len(d) /\ b[i] = e[p + i]
    BY <1>1, <1>6
  <2>2. CASE i <= Len(a)
    BY <1>1, <1>2, <1>5, <1>7, <2>1, <2>2
  <2>3. CASE ~(i <= Len(a))
    <3>1. ~(p + i <= Len(q)) /\ p + i - Len(q) = i - Len(a)
      BY <1>1, <1>5, <2>1, <2>3
    <3>2. e[p + i] = d[p + i - Len(q)]
      BY <1>2, <2>1, <3>1
    <3>3. c[i] = d[i - Len(a)]
      BY <1>1, <1>5, <1>7, <2>1, <2>3
    <3> QED
      BY <2>1, <3>1, <3>2, <3>3
  <2> QED
    BY <2>2, <2>3
<1>10. b = c
  BY <1>6, <1>7, <1>8, <1>9, SeqEqual
<1> QED
  BY <1>10 DEF a, b, c, e, From


-----------------------------------------------------------------------------
(* AsyncSocket. *)

(* What is past the cork, and what s has in it.                             *)
Out(x, s) == x.socket[s].wire \o Buffered(x, s)
CorkOf(x, s) == IF IsCorked(x, s) THEN x.loop.cork ELSE << >>

(* Out and cork are the stream.                                             *)
LEMMA StreamIs ==
  ASSUME NEW x \in Worlds, NEW s \in Sockets
  PROVE  /\ x.socket[s].wire \in Seq(Tokens)
         /\ Out(x, s) \in Seq(Tokens) /\ CorkOf(x, s) \in Seq(Tokens)
         /\ Stream(x, s) \in Seq(Tokens)
         /\ Stream(x, s) = Out(x, s) \o CorkOf(x, s)
         /\ CorkOf(x, s) = << >> => Stream(x, s) = Out(x, s)
<1>1. x.socket[s].wire \in Seq(Tokens)
  BY DEF Worlds, SocketData
<1>2. Buffered(x, s) \in Seq(Tokens)
  BY BufferedIs
<1>3. Out(x, s) \in Seq(Tokens)
  BY <1>1, <1>2, ConcatProperties DEF Out
<1>4. CorkOf(x, s) \in Seq(Tokens)
  BY CorkIs, EmptySeq DEF CorkOf
<1>5. Stream(x, s) = Out(x, s) \o CorkOf(x, s)
  BY DEF Stream, Out, CorkOf
<1>6. Out(x, s) \o CorkOf(x, s) \in Seq(Tokens)
  BY <1>3, <1>4, ConcatProperties
<1>7. CorkOf(x, s) = << >> => Out(x, s) \o CorkOf(x, s) = Out(x, s)
  BY <1>3, ConcatEmptySeq
<1> QED
  BY <1>1, <1>3, <1>4, <1>5, <1>6, <1>7

(* Bytes behind the backpressure come last.                                 *)
LEMMA AppendedOut ==
  ASSUME NEW x \in Worlds, NEW s \in Sockets, NEW data \in Seq(Tokens)
  PROVE  Out(Append1(x, s, data), s) = Out(x, s) \o data
<1> DEFINE b == x.socket[s].buffer
           n == x.socket[s].pendingRemoval
           w == x.socket[s].wire
           y == Append1(x, s, data)
<1>1. b \in Seq(Tokens) /\ n \in 0..Len(b) /\ Buffered(x, s) \in Seq(Tokens)
  BY BufferedIs
<1>2. y.socket[s].buffer = b \o data /\ y.socket[s].pendingRemoval = n /\ y.socket[s].wire = w
  BY DEF Append1, Worlds, SocketData
<1>3. w \in Seq(Tokens)
  BY StreamIs
<1> HIDE DEF y
<1>4. Buffered(y, s) = From(b \o data, n) /\ Buffered(x, s) = From(b, n)
  BY <1>2 DEF Buffered
<1> HIDE DEF b, n
<1>5. From(b \o data, n) = From(b, n) \o data
  BY <1>1, RestOfLonger
<1>6. Out(y, s) = w \o (Buffered(x, s) \o data) /\ Out(x, s) = w \o Buffered(x, s)
  BY <1>2, <1>4, <1>5 DEF Out
<1> HIDE DEF w
<1>7. (w \o Buffered(x, s)) \o data = w \o (Buffered(x, s) \o data)
  BY <1>1, <1>3, ConcatAssociative
<1> QED
  BY <1>6, <1>7 DEF y

(* Erasing takes as much from the front of the backpressure.                *)
LEMMA ErasedOut ==
  ASSUME NEW x \in Worlds, NEW s \in Sockets, NEW n \in 0..Len(Buffered(x, s))
  PROVE  LET y == Erase(x, s, n)
         IN  y.socket[s].wire = x.socket[s].wire /\ Buffered(y, s) = From(Buffered(x, s), n)
<1> DEFINE b == x.socket[s].buffer
           p == x.socket[s].pendingRemoval
           w == x.socket[s].wire
           y == Erase(x, s, n)
<1>1. b \in Seq(Tokens) /\ p \in 0..Len(b) /\ Len(b) \in Nat /\ Buffered(x, s) \in Seq(Tokens)
      /\ Len(Buffered(x, s)) = Len(b) - p
  BY BufferedIs, LenProperties
<1>2. Buffered(x, s) = From(b, p)
  BY DEF Buffered
<1>3. x.socket \in [Sockets -> SocketData] /\ x.socket[s] \in SocketData
  BY DEF Worlds
<1>4. /\ y.socket[s].wire = w
      /\ \/ y.socket[s].buffer = From(b, p + n) /\ y.socket[s].pendingRemoval = 0
         \/ y.socket[s].buffer = b /\ y.socket[s].pendingRemoval = p + n
  <2> DEFINE k0 == x.socket[s]
             k1 == [k0 EXCEPT !.buffer = From(@, p + n), !.pendingRemoval = 0]
             k2 == [k0 EXCEPT !.pendingRemoval = p + n]
  <2>1. y.socket[s] \in {k1, k2}
    BY <1>3 DEF Erase, Worlds
  <2>2. k1.wire = w /\ k1.buffer = From(b, p + n) /\ k1.pendingRemoval = 0
    BY <1>3 DEF SocketData
  <2>3. k2.wire = w /\ k2.buffer = b /\ k2.pendingRemoval = p + n
    BY <1>3 DEF SocketData
  <2> HIDE DEF y, k1, k2
  <2> QED
    BY <2>1, <2>2, <2>3
<1> HIDE DEF y, b, p, w
<1>5. p + n \in 0..Len(b) /\ p \in Nat /\ n \in Nat /\ p + n <= Len(b)
  BY <1>1
<1>6. From(b, p + n) \in Seq(Tokens)
  BY <1>1, <1>5, CutInTwo
<1> DEFINE c == From(b, p + n)
<1>7. c = From(Buffered(x, s), n)
  BY <1>1, <1>2, <1>5, RestOfRest
<1>8. c \in Seq(Tokens)
  BY <1>6
<1> HIDE DEF c
<1>9. From(c, 0) = c
  BY <1>8, SubSeqFull DEF From
<1>10. Buffered(y, s) = c
  BY <1>4, <1>9 DEF Buffered, c
<1> QED
  BY <1>4, <1>7, <1>10 DEF y, w

(* us_socket_write: what is taken is behind what the kernel has.            *)
LEMMA AcceptedOut ==
  ASSUME NEW x \in Worlds, NEW s \in Sockets, NEW data \in Seq(Tokens)
  PROVE  LET put == Accept(x, s, data)
         IN  put.x.socket[s].wire = x.socket[s].wire \o SubSeq(data, 1, put.n)
<1> DEFINE put == Accept(x, s, data)
           n == put.n
<1> DEFINE c == IF ~x.socket[s].closed /\ ~x.socket[s].shut /\ x.kernel # << >> THEN Tail(x.kernel) ELSE x.kernel
           w == x.socket[s].wire \o SubSeq(data, 1, n)
           p == x.socket[s].polling \/ (~x.socket[s].closed /\ ~x.socket[s].shut /\ n < Len(data))
<1>1. put.x = [x EXCEPT !.kernel = c, !.socket[s].wire = w, !.socket[s].polling = p]
  BY DEF Accept
<1> HIDE DEF put, n, c, w, p
<1>2. put.x.socket[s].wire = w
  BY <1>1 DEF Worlds, SocketData
<1> QED
  BY <1>2 DEF put, n, w

(* No backpressure, and the kernel has what it had.                         *)
LEMMA ClearedOut ==
  ASSUME NEW x \in Worlds, NEW s \in Sockets
  PROVE  Clear(x, s).socket[s].wire = x.socket[s].wire
BY DEF Clear, Worlds, SocketData

(* The start of write moves the backpressure to the kernel.                 *)
LEMMA BackpressureOut ==
  ASSUME NEW x \in Worlds, NEW s \in Sockets
  PROVE  Out(SendBackpressure(x, s).x, s) = Out(x, s)
<1> DEFINE all == Buffered(x, s)
           put == Accept(x, s, all)
           sent == SendBackpressure(x, s)
           w == x.socket[s].wire
           n == put.n
<1>1. all \in Seq(Tokens) /\ w \in Seq(Tokens)
  BY BufferedIs, StreamIs
<1>2. Len(all) \in Nat
  BY <1>1, LenProperties
<1>3. sent = IF all = << >> THEN [x |-> x, empty |-> TRUE]
             ELSE IF n < Len(all) THEN [x |-> Erase(put.x, s, n), empty |-> FALSE]
             ELSE [x |-> Clear(put.x, s), empty |-> TRUE]
  BY DEF SendBackpressure, Unsent
<1>4. Out(x, s) = w \o all
  BY DEF Out
<1> HIDE DEF all
<1>5. /\ put.x \in Worlds /\ Buffered(put.x, s) = all /\ n \in 0..Len(all)
  BY <1>1, Accepted DEF Sent, all
<1>6. put.x.socket[s].wire = w \o SubSeq(all, 1, n)
  BY <1>1, AcceptedOut
<1> HIDE DEF put, sent, w, n
<1>7. SubSeq(all, 1, n) \in Seq(Tokens) /\ From(all, n) \in Seq(Tokens) /\ SubSeq(all, 1, n) \o From(all, n) = all
  BY <1>1, <1>5, CutInTwo
<1>8. (w \o SubSeq(all, 1, n)) \o From(all, n) = w \o all
  <2> DEFINE front == SubSeq(all, 1, n)
             rest == From(all, n)
  <2>1. front \in Seq(Tokens) /\ rest \in Seq(Tokens) /\ front \o rest = all
    BY <1>7
  <2> HIDE DEF front, rest
  <2>2. w \in Seq(Tokens)
    BY <1>1
  <2>3. (w \o front) \o rest = w \o (front \o rest)
    BY <2>1, <2>2, InARow
  <2> QED
    BY <2>1, <2>3 DEF front, rest
<1>9. CASE all = << >>
  BY <1>3, <1>9 DEF sent
<1>10. CASE all # << >> /\ n < Len(all)
  <2> DEFINE y == Erase(put.x, s, n)
  <2>1. y.socket[s].wire = put.x.socket[s].wire /\ Buffered(y, s) = From(all, n)
    BY <1>5, ErasedOut
  <2> HIDE DEF y
  <2>2. Out(y, s) = w \o all
    BY <1>6, <1>8, <2>1 DEF Out
  <2>3. sent.x = y
    BY <1>3, <1>10 DEF y
  <2> QED
    BY <1>4, <2>2, <2>3 DEF sent
<1>11. CASE all # << >> /\ ~(n < Len(all))
  <2> DEFINE y == Clear(put.x, s)
             e == << >>
  <2>1. y.socket[s].wire = put.x.socket[s].wire /\ Buffered(y, s) = e
    BY <1>5, ClearedOut, Cleared
  <2>2. n = Len(all)
    BY <1>2, <1>5, <1>11
  <2>3. SubSeq(all, 1, n) = all
    BY <1>1, <2>2, SubSeqFull
  <2>4. (w \o all) \o e = w \o all
    BY <1>1, ConcatProperties, ConcatEmptySeq
  <2> HIDE DEF y, e
  <2>5. Out(y, s) = w \o all
    BY <1>6, <2>1, <2>3, <2>4 DEF Out
  <2>6. sent.x = y
    BY <1>3, <1>11 DEF y
  <2> QED
    BY <1>4, <2>5, <2>6 DEF sent
<1> QED
  BY <1>9, <1>10, <1>11


(* The rest of write, where the cork is not used: the bytes come last.      *)
LEMMA PastCorkOut ==
  ASSUME NEW s \in Sockets, NEW src \in Seq(Tokens), NEW sent, sent.x \in Worlds,
         sent.empty => Buffered(sent.x, s) = << >>
  PROVE  Out(PastCork(sent, s, src, FALSE).x, s) = Out(sent.x, s) \o src
<1> DEFINE z == sent.x
           put == Accept(z, s, src)
           r == PastCork(sent, s, src, FALSE)
           w == z.socket[s].wire
           n == put.n
           front == SubSeq(src, 1, n)
           rest == From(src, n)
<1>1. w \in Seq(Tokens) /\ Out(z, s) \in Seq(Tokens)
  BY StreamIs
<1>2. put.x \in Worlds /\ Buffered(put.x, s) = Buffered(z, s) /\ n \in 0..Len(src)
  BY Accepted DEF Sent
<1>3. put.x.socket[s].wire = w \o front
  BY AcceptedOut
<1>4. front \in Seq(Tokens) /\ rest \in Seq(Tokens) /\ front \o rest = src
  BY <1>2, CutInTwo
<1>5. r = IF ~sent.empty THEN Wrote(Append1(z, s, src), Len(src), TRUE)
          ELSE IF src = << >> THEN Wrote(z, 0, FALSE)
          ELSE IF n = Len(src) THEN Wrote(put.x, Len(src), FALSE)
          ELSE Wrote(Append1(put.x, s, rest), Len(src), TRUE)
  BY DEF PastCork, Behind, Direct
<1>6. n = Len(src) => front = src
  BY SubSeqFull
<1> HIDE DEF put, w, n, front, rest, r
<1>7. Out(Append1(z, s, src), s) = Out(z, s) \o src
  BY AppendedOut
<1>8. Out(Append1(put.x, s, rest), s) = Out(put.x, s) \o rest
  BY <1>2, <1>4, AppendedOut
<1>9. CASE ~sent.empty
  <2>1. r.x = Append1(z, s, src)
    BY <1>5, <1>9 DEF Wrote
  <2> QED
    BY <1>7, <2>1 DEF r
<1>10. CASE sent.empty /\ src = << >>
  <2>1. r.x = z
    BY <1>5, <1>10 DEF Wrote
  <2>2. Out(z, s) \o << >> = Out(z, s)
    BY <1>1, ConcatEmptySeq
  <2> QED
    BY <1>10, <2>1, <2>2 DEF r
<1>11. CASE sent.empty /\ src # << >>
  <2>1. Out(z, s) = w
    <3>1. w \o << >> = w
      BY <1>1, ConcatEmptySeq
    <3> QED
      BY <1>11, <3>1 DEF Out, w
  <2>2. Out(put.x, s) = w \o front
    <3>1. w \o front \in Seq(Tokens)
      BY <1>1, <1>4, ConcatProperties
    <3>2. (w \o front) \o << >> = w \o front
      BY <3>1, ConcatEmptySeq
    <3> QED
      BY <1>2, <1>3, <1>11, <3>2 DEF Out
  <2>3. Out(put.x, s) \o rest = w \o src
    <3>1. (w \o front) \o rest = w \o (front \o rest)
      <4>1. w \in Seq(Tokens) /\ front \in Seq(Tokens) /\ rest \in Seq(Tokens)
        BY <1>1, <1>4
      <4> QED
        BY <4>1, InARow
    <3> QED
      BY <1>4, <2>2, <3>1
  <2>4. CASE n = Len(src)
    <3>1. r.x = put.x
      BY <1>5, <1>11, <2>4 DEF Wrote
    <3> QED
      BY <1>6, <2>1, <2>2, <2>4, <3>1 DEF r
  <2>5. CASE n # Len(src)
    <3>1. r.x = Append1(put.x, s, rest)
      BY <1>5, <1>11, <2>5 DEF Wrote
    <3> QED
      BY <1>8, <2>1, <2>3, <3>1 DEF r
  <2> QED
    BY <2>4, <2>5
<1> QED
  BY <1>9, <1>10, <1>11

(* write where the cork is free or somebody else's.                         *)
LEMMA UncorkedOut ==
  ASSUME NEW x \in Worlds, NEW s \in Sockets, NEW src \in Seq(Tokens), ~x.socket[s].closed
  PROVE  Out(WriteUncorked(x, s, src, FALSE).x, s) = Out(x, s) \o src
<1> DEFINE sent == SendBackpressure(x, s)
<1>1. /\ sent.x \in Worlds
      /\ sent.empty => Buffered(sent.x, s) = << >>
  BY BackpressureSent DEF Sent
<1>2. Out(sent.x, s) = Out(x, s)
  BY BackpressureOut
<1>3. WriteUncorked(x, s, src, FALSE) = PastCork(sent, s, src, FALSE)
  BY DEF WriteUncorked
<1> HIDE DEF sent
<1> QED
  BY <1>1, <1>2, <1>3, PastCorkOut

(* What a call adds to the stream of s, where s is open; the streams of the *)
(* others stay.                                                             *)
Streamed(x, y, s, src) ==
  /\ ~x.socket[s].closed => Stream(y, s) = Stream(x, s) \o src
  /\ \A u \in Sockets \ {s} : Stream(y, u) = Stream(x, u)

(* Nothing changes for a socket whose records and cork stay.                *)
LEMMA OtherStream ==
  ASSUME NEW x, NEW y, NEW u \in Sockets, y.socket[u] = x.socket[u], CorkOf(y, u) = CorkOf(x, u)
  PROVE  Stream(y, u) = Stream(x, u)
<1>1. Stream(y, u) = Out(y, u) \o CorkOf(y, u) /\ Stream(x, u) = Out(x, u) \o CorkOf(x, u)
  BY DEF Stream, Out, CorkOf
<1>2. Out(y, u) = Out(x, u)
  BY DEF Out, Buffered
<1> QED
  BY <1>1, <1>2

(* A write that leaves the cork alone.                                      *)
LEMMA SameCork ==
  ASSUME NEW x \in Worlds, NEW y, NEW s \in Sockets, Sent(x, y, s), y.loop = x.loop,
         NEW src \in Seq(Tokens), src = << >> \/ x.loop.corked # s,
         ~x.socket[s].closed => Out(y, s) = Out(x, s) \o src
  PROVE  Streamed(x, y, s, src)
<1>1. \A u \in Sockets : CorkOf(y, u) = CorkOf(x, u)
  BY DEF CorkOf, IsCorked
<1>2. ASSUME NEW u \in Sockets \ {s} PROVE Stream(y, u) = Stream(x, u)
  BY <1>1, OtherStream DEF Sent
<1>3. ASSUME ~x.socket[s].closed PROVE Stream(y, s) = Stream(x, s) \o src
  <2>1. y \in Worlds
    BY DEF Sent
  <2> DEFINE o == Out(x, s)
             c == CorkOf(x, s)
  <2>2. o \in Seq(Tokens) /\ c \in Seq(Tokens) /\ Stream(x, s) = o \o c
    BY StreamIs
  <2>3. Stream(y, s) = (o \o src) \o c
    BY <1>1, <1>3, <2>1, StreamIs
  <2>4. x.loop.corked # s => c = << >>
    BY DEF CorkOf, IsCorked
  <2> HIDE DEF o, c
  <2>5. o \o src \in Seq(Tokens) /\ o \o c \in Seq(Tokens)
    BY <2>2, ConcatProperties
  <2>6. CASE src = << >>
    <3>1. o \o src = o /\ (o \o c) \o src = o \o c
      BY <2>2, <2>5, <2>6, ConcatEmptySeq
    <3> QED
      BY <2>2, <2>3, <3>1
  <2>7. CASE c = << >>
    <3>1. (o \o src) \o c = o \o src /\ o \o c = o
      BY <2>2, <2>5, <2>7, ConcatEmptySeq
    <3> QED
      BY <2>2, <2>3, <3>1
  <2> QED
    BY <2>4, <2>6, <2>7
<1> QED
  BY <1>2, <1>3 DEF Streamed


(* The cork buffer goes out: what was in it is still what comes last.       *)
LEMMA FlushStreamed ==
  ASSUME NEW x \in Worlds, NEW s \in Sockets, x.loop.corked = s
  PROVE  Streamed(x, Flush(x, s).x, s, << >>)
<1> DEFINE e == << >>
           free == WithCork(x, NoSocket, e)
           cork == x.loop.cork
           r == WriteUncorked(free, s, cork, FALSE)
           f == Flush(x, s)
<1>1. CorkFits(NoSocket, e)
  BY SizesAreNatural DEF CorkFits
<1>2. f = IF cork = << >> THEN Wrote(free, 0, FALSE) ELSE r
  <2>1. free = [x EXCEPT !.loop.corked = NoSocket, !.loop.cork = << >>]
    BY DEF WithCork, Worlds
  <2> HIDE DEF free
  <2>2. CASE cork = << >>
    BY <2>1, <2>2 DEF Flush
  <2>3. CASE cork # << >>
    BY <2>1, <2>3 DEF Flush
  <2> QED
    BY <2>2, <2>3
<1> HIDE DEF e
<1>3. Sent(x, free, s) /\ free.loop.corked = NoSocket /\ free.socket = x.socket
  BY <1>1, CorkPut
<1>4. cork \in Seq(Tokens) /\ Out(x, s) \in Seq(Tokens)
  BY CorkIs, StreamIs
<1> HIDE DEF free
<1>5. Sent(x, f.x, s) /\ f.x.loop.corked = NoSocket
  BY Flushed
<1>6. ASSUME NEW u \in Sockets \ {s} PROVE Stream(f.x, u) = Stream(x, u)
  <2>1. CorkOf(f.x, u) = << >> /\ CorkOf(x, u) = << >>
    BY <1>5, PubSubAssumption DEF CorkOf, IsCorked
  <2> HIDE DEF f
  <2> QED
    BY <1>5, <2>1, OtherStream DEF Sent
<1>7. ASSUME ~x.socket[s].closed PROVE Stream(f.x, s) = Stream(x, s)
  <2>1. Stream(x, s) = Out(x, s) \o cork
    BY StreamIs DEF CorkOf, IsCorked
  <2>2. f.x \in Worlds /\ CorkOf(f.x, s) = << >>
    BY <1>5, PubSubAssumption DEF Sent, CorkOf, IsCorked
  <2>3. Stream(f.x, s) = Out(f.x, s)
    BY <2>2, StreamIs
  <2>4. free \in Worlds /\ ~free.socket[s].closed
    BY <1>3, <1>7 DEF Sent
  <2>5. Out(free, s) = Out(x, s)
    BY <1>3 DEF Out, Buffered
  <2> HIDE DEF cork
  <2>6. Out(r.x, s) = Out(x, s) \o cork
    BY <1>4, <2>4, <2>5, UncorkedOut
  <2> HIDE DEF f, r
  <2>7. CASE cork = << >>
    <3>1. f.x = free
      BY <1>2, <2>7 DEF Wrote
    <3>2. Out(x, s) \o << >> = Out(x, s)
      BY <1>4, ConcatEmptySeq
    <3> QED
      BY <2>1, <2>3, <2>5, <2>7, <3>1, <3>2
  <2>8. CASE cork # << >>
    BY <1>2, <2>1, <2>3, <2>6, <2>8
  <2> QED
    BY <2>7, <2>8
<1>8. Stream(x, s) \o << >> = Stream(x, s)
  BY StreamIs, ConcatEmptySeq
<1> QED
  BY <1>6, <1>7, <1>8 DEF Streamed

(* One addition after the other.                                            *)
LEMMA StreamedTwice ==
  ASSUME NEW x \in Worlds, NEW y, NEW z, NEW s \in Sockets, NEW a \in Seq(Tokens), NEW b \in Seq(Tokens),
         y.socket[s].closed = x.socket[s].closed, Streamed(x, y, s, a), Streamed(y, z, s, b)
  PROVE  Streamed(x, z, s, a \o b)
<1>1. Stream(x, s) \in Seq(Tokens)
  BY StreamIs
<1>2. (Stream(x, s) \o a) \o b = Stream(x, s) \o (a \o b)
  BY <1>1, InARow
<1> QED
  BY <1>2 DEF Streamed

(* Nothing added.                                                           *)
LEMMA StreamedNot ==
  ASSUME NEW x \in Worlds, NEW s \in Sockets
  PROVE  Streamed(x, x, s, << >>)
BY StreamIs, ConcatEmptySeq DEF Streamed

(* What is added in two steps of which one adds nothing.                    *)
LEMMA StreamedOnce ==
  ASSUME NEW x \in Worlds, NEW y, NEW z, NEW s \in Sockets, NEW a \in Seq(Tokens),
         y.socket[s].closed = x.socket[s].closed,
         \/ Streamed(x, y, s, a) /\ Streamed(y, z, s, << >>)
         \/ Streamed(x, y, s, << >>) /\ Streamed(y, z, s, a)
  PROVE  Streamed(x, z, s, a)
<1> DEFINE e == << >>
<1>1. a \o e = a /\ e \o a = a
  BY ConcatEmptySeq
<1>2. e \in Seq(Tokens)
  BY EmptySeq
<1>3. \/ Streamed(x, y, s, a) /\ Streamed(y, z, s, e)
      \/ Streamed(x, y, s, e) /\ Streamed(y, z, s, a)
  OBVIOUS
<1> HIDE DEF e
<1> QED
  BY <1>1, <1>2, <1>3, StreamedTwice

(* uncork, as the WebSocket calls it.                                       *)
LEMMA UncorkStreamed ==
  ASSUME NEW x \in Worlds, NEW s \in Sockets
  PROVE  Streamed(x, Uncork(x, s, << >>, FALSE).x, s, << >>)
<1> DEFINE e == << >>
           f == Flush(x, s)
           w == WriteUncorked(f.x, s, e, FALSE)
           r == Uncork(x, s, e, FALSE)
<1>1. r = IF x.loop.corked = s THEN IF f.failed THEN Wrote(f.x, 0, TRUE) ELSE w ELSE Wrote(x, 0, FALSE)
  BY DEF Uncork, Follow, IsCorked
<1>2. e \in Seq(Tokens)
  BY EmptySeq
<1> HIDE DEF e
<1>3. Streamed(x, x, s, e)
  BY StreamedNot DEF e
<1>4. x.loop.corked = s => Streamed(x, f.x, s, e)
  BY FlushStreamed DEF e
<1>5. Sent(x, f.x, s)
  BY Flushed
<1> HIDE DEF f
<1>6. f.x \in Worlds /\ f.x.socket[s].closed = x.socket[s].closed
  BY <1>5 DEF Sent
<1>7. Sent(f.x, w.x, s) /\ w.x.loop = f.x.loop
  BY <1>2, <1>6, UncorkedWritten
<1>8. ~f.x.socket[s].closed => Out(w.x, s) = Out(f.x, s) \o e
  BY <1>2, <1>6, UncorkedOut
<1> HIDE DEF w
<1>9. Streamed(f.x, w.x, s, e)
  BY <1>2, <1>6, <1>7, <1>8, SameCork DEF e
<1>10. x.loop.corked = s => Streamed(x, w.x, s, e)
  BY <1>2, <1>4, <1>6, <1>9, StreamedOnce DEF e
<1> HIDE DEF r
<1>11. r.x = x \/ (x.loop.corked = s /\ r.x \in {f.x, w.x})
  BY <1>1 DEF Wrote
<1>12. Streamed(x, r.x, s, e)
  BY <1>3, <1>4, <1>10, <1>11
<1> QED
  BY <1>12 DEF r, e

(* write, of the rest that waits or by a socket that has not got the cork.  *)
LEMMA WriteStreamed ==
  ASSUME NEW x \in Worlds, NEW s \in Sockets, NEW src \in Seq(Tokens),
         src = << >> \/ x.loop.corked # s
  PROVE  Streamed(x, Write(x, s, src, FALSE).x, s, src)
<1> DEFINE sent == SendBackpressure(x, s)
           p == PastCork(sent, s, src, FALSE)
           r == Write(x, s, src, FALSE)
<1>1. /\ Sent(x, sent.x, s) /\ sent.x.loop = x.loop
      /\ sent.empty => Buffered(sent.x, s) = << >>
  BY BackpressureSent
<1>2. Out(sent.x, s) = Out(x, s)
  BY BackpressureOut
<1>3. r = IF x.socket[s].closed THEN Wrote(x, Len(src), FALSE) ELSE p
  <2>1. sent.x.loop = x.loop
    BY <1>1
  <2> HIDE DEF sent
  <2>2. ~(sent.empty /\ src # << >> /\ IsCorked(sent.x, s))
    BY <2>1 DEF IsCorked
  <2> QED
    BY <2>2 DEF Write, WriteBehind, sent
<1> HIDE DEF sent
<1>4. Sent(x, p.x, s) /\ p.x.loop = x.loop
  <2> DEFINE no == FALSE
             q == PastCork(sent, s, src, no)
  <2>1. no \in BOOLEAN
    OBVIOUS
  <2> HIDE DEF no
  <2>2. Sent(x, q.x, s) /\ q.x.loop = x.loop
    BY <1>1, <2>1, PastCorkSent
  <2> QED
    BY <2>2 DEF no
<1>5. Out(p.x, s) = Out(x, s) \o src
  <2>1. sent.x \in Worlds
    BY <1>1 DEF Sent
  <2> QED
    BY <1>1, <1>2, <2>1, PastCorkOut
<1> HIDE DEF p, r
<1>6. CASE x.socket[s].closed
  <2>1. r.x = x
    BY <1>3, <1>6 DEF Wrote
  <2> QED
    BY <1>6, <2>1 DEF Streamed, r
<1>7. CASE ~x.socket[s].closed
  <2>1. r = p
    BY <1>3, <1>7
  <2>2. Streamed(x, p.x, s, src)
    BY <1>4, <1>5, SameCork
  <2> QED
    BY <2>1, <2>2 DEF r
<1> QED
  BY <1>6, <1>7


(* A world with another cork of s, who has it or may take it.               *)
LEMMA CorkStreamed ==
  ASSUME NEW x \in Worlds, NEW s \in Sockets, NEW c \in Seq(Tokens),
         x.loop.corked = s \/ x.loop.corked = NoSocket
  PROVE  LET y == WithCork(x, s, c)
         IN  /\ y.socket = x.socket => Stream(y, s) = Out(x, s) \o c
             /\ y.socket = x.socket => \A u \in Sockets \ {s} : Stream(y, u) = Stream(x, u)
<1> DEFINE y == WithCork(x, s, c)
<1>1. y.loop.corked = s /\ y.loop.cork = c
  BY DEF WithCork, Worlds, LoopData
<1> HIDE DEF y
<1>2. ASSUME y.socket = x.socket PROVE Stream(y, s) = Out(x, s) \o c
  <2>1. Stream(y, s) = Out(y, s) \o CorkOf(y, s)
    BY DEF Stream, Out, CorkOf
  <2>2. CorkOf(y, s) = c /\ Out(y, s) = Out(x, s)
    BY <1>1, <1>2 DEF CorkOf, IsCorked, Out, Buffered
  <2> QED
    BY <2>1, <2>2
<1>3. ASSUME y.socket = x.socket, NEW u \in Sockets \ {s} PROVE Stream(y, u) = Stream(x, u)
  <2>1. CorkOf(y, u) = << >> /\ CorkOf(x, u) = << >>
    BY <1>1, PubSubAssumption DEF CorkOf, IsCorked
  <2> QED
    BY <1>3, <2>1, OtherStream
<1> QED
  BY <1>2, <1>3 DEF y

(* getSendBuffer: the frame comes last, wherever it is put.                 *)
LEMMA GotStreamed ==
  ASSUME NEW x \in Worlds, NEW s \in Sockets, NEW frame \in Seq(Tokens)
  PROVE  Streamed(x, GetSendBuffer(x, s, frame).x, s, frame)
<1> DEFINE got == GetSendBuffer(x, s, frame)
           h == x.loop.corked
           cork == x.loop.cork
           mine == CorkOf(x, s)
           rest == IF h = s THEN << >> ELSE cork
           moved == WithCork(x, h, rest)
           more == mine \o frame
           longer == cork \o frame
           fits == /\ Buffered(x, s) = << >>
                   /\ IsCorked(x, s) \/ CanCork(x)
                   /\ Len(cork) + Len(frame) < CORK_BUFFER_SIZE
           o == Out(x, s)
<1>1. /\ s # NoSocket /\ h \in Sockets \cup {NoSocket}
      /\ cork \in Seq(Tokens) /\ Len(cork) \in Nat /\ Len(cork) <= CORK_BUFFER_SIZE
      /\ cork # << >> => h # NoSocket
  BY CorkIs, LenProperties, PubSubAssumption
<1>2. longer \in Seq(Tokens) /\ Len(longer) = Len(cork) + Len(frame) /\ Len(frame) \in Nat
  BY <1>1, ConcatProperties, LenProperties
<1>3. /\ o \in Seq(Tokens) /\ mine \in Seq(Tokens)
      /\ Stream(x, s) \in Seq(Tokens) /\ Stream(x, s) = o \o mine
  BY StreamIs
<1>4. more \in Seq(Tokens)
  BY <1>3, ConcatProperties
<1>5. (o \o mine) \o frame = o \o more
  <2> HIDE DEF o, mine
  <2> QED
    BY <1>3, InARow
<1>6. CASE ~fits
  <2>1. [x EXCEPT !.loop.cork = IF IsCorked(x, s) THEN << >> ELSE @] = moved
    BY DEF WithCork, Worlds, LoopData, IsCorked
  <2>2. got.x = Append1(moved, s, more)
    BY <1>6, <2>1 DEF GetSendBuffer, IsCorked, CorkOf
  <2>3. CorkFits(h, rest)
    BY <1>1, SizesAreNatural DEF CorkFits
  <2>4. h = s => rest = << >>
    OBVIOUS
  <2>5. h # s => rest = cork
    OBVIOUS
  <2> HIDE DEF rest, mine, more, o, got
  <2>6. Sent(x, moved, s) /\ moved.loop.corked = h /\ moved.loop.cork = rest /\ moved.socket = x.socket
    BY <2>3, CorkPut
  <2> HIDE DEF moved
  <2>7. moved \in Worlds
    BY <2>6 DEF Sent
  <2>8. Sent(moved, got.x, s) /\ got.x.loop = moved.loop /\ Out(got.x, s) = Out(moved, s) \o more
    BY <1>4, <2>2, <2>7, Appended, AppendedOut
  <2>9. Out(moved, s) = o
    BY <2>6 DEF Out, Buffered, o
  <2>10. CorkOf(got.x, s) = << >>
    BY <2>4, <2>6, <2>8 DEF CorkOf, IsCorked
  <2>11. got.x \in Worlds
    BY <2>8 DEF Sent
  <2>12. Stream(got.x, s) = o \o more
    BY <2>8, <2>9, <2>10, <2>11, StreamIs
  <2>13. ASSUME NEW u \in Sockets \ {s} PROVE Stream(got.x, u) = Stream(x, u)
    <3>1. CorkOf(got.x, u) = CorkOf(x, u)
      BY <2>5, <2>6, <2>8 DEF CorkOf, IsCorked
    <3>2. got.x.socket[u] = x.socket[u]
      BY <2>6, <2>8 DEF Sent
    <3> QED
      BY <3>1, <3>2, OtherStream
  <2> QED
    BY <1>3, <1>5, <2>12, <2>13 DEF Streamed, got
<1>7. CASE fits
  <2> DEFINE y == WithCork(x, s, longer)
  <2>1. h = s \/ (h = NoSocket /\ h # s /\ cork = << >>)
    BY <1>1, <1>7 DEF IsCorked, CanCork
  <2>2. mine = cork
    BY <2>1 DEF CorkOf, IsCorked
  <2>3. h # s => Cork(x, s) = [x EXCEPT !.loop.corked = s]
    BY <2>1 DEF Cork
  <2>4. h = s => [x EXCEPT !.loop.cork = @ \o frame] = y
    BY DEF WithCork, Worlds, LoopData
  <2>5. h # s => [Cork(x, s) EXCEPT !.loop.cork = @ \o frame] = y
    <3>1. [[x EXCEPT !.loop.corked = s] EXCEPT !.loop.cork = @ \o frame] = y
      BY DEF WithCork, Worlds, LoopData
    <3> QED
      BY <2>3, <3>1
  <2>6. got.x = y
    <3>1. CASE h = s
      BY <1>7, <2>4, <3>1 DEF GetSendBuffer, IsCorked
    <3>2. CASE h # s
      BY <1>7, <2>5, <3>2 DEF GetSendBuffer, IsCorked
    <3> QED
      BY <3>1, <3>2
  <2>7. longer = more
    BY <2>2
  <2> HIDE DEF longer, more, mine, o, got
  <2>8. CorkFits(s, longer)
    BY <1>1, <1>2, <1>7, SizesAreNatural DEF CorkFits
  <2>9. Sent(x, y, s) /\ y.socket = x.socket
    BY <2>8, CorkPut
  <2>10. Stream(y, s) = o \o longer /\ \A u \in Sockets \ {s} : Stream(y, u) = Stream(x, u)
    BY <1>2, <2>1, <2>9, CorkStreamed DEF o
  <2> HIDE DEF y
  <2> QED
    BY <1>3, <1>5, <2>6, <2>7, <2>10 DEF Streamed, got
<1> QED
  BY <1>6, <1>7

(* A message is a frame at the end of the stream of its socket: through the *)
(* send buffer.                                                             *)
LEMMA ShortStreamed ==
  ASSUME NEW x \in Worlds, NEW s \in Sockets, NEW m \in Messages
  PROVE  Streamed(x, SendShort(x, s, m).x, s, Frame(m))
<1> DEFINE frame == Frame(m)
           got == GetSendBuffer(x, s, frame)
           sb == SendBuffer(got, s)
<1>1. frame \in Seq(Tokens)
  BY FrameIs
<1> HIDE DEF frame
<1>2. Sent(x, got.x, s) /\ got.needs \in {"drain", "uncork", "nothing"}
  BY <1>1, SendBufferGot
<1>3. Streamed(x, got.x, s, frame)
  BY <1>1, GotStreamed
<1>4. SendShort(x, s, m).x = sb.x
  BY DEF SendShort, ShortSent, frame
<1> HIDE DEF got
<1>5. got.x \in Worlds /\ got.x.socket[s].closed = x.socket[s].closed
  BY <1>2 DEF Sent
<1> DEFINE e == << >>
<1>6. e \in Seq(Tokens) /\ e = << >>
  BY EmptySeq
<1>7. Streamed(got.x, Write(got.x, s, << >>, FALSE).x, s, << >>)
  BY <1>5, <1>6, WriteStreamed
<1>8. Streamed(got.x, Uncork(got.x, s, << >>, FALSE).x, s, << >>)
  BY <1>5, UncorkStreamed
<1>9. Streamed(got.x, got.x, s, << >>)
  BY <1>5, StreamedNot
<1>10. sb.x \in {Write(got.x, s, << >>, FALSE).x, Uncork(got.x, s, << >>, FALSE).x, got.x}
  BY <1>2 DEF SendBuffer, Wrote
<1> HIDE DEF sb
<1>11. Streamed(got.x, sb.x, s, << >>)
  BY <1>7, <1>8, <1>9, <1>10
<1>12. Streamed(x, sb.x, s, frame)
  BY <1>1, <1>3, <1>5, <1>11, StreamedOnce
<1> QED
  BY <1>4, <1>12 DEF frame


(* The frame by itself, where the cork buffer is empty: what is left of it  *)
(* waits in the backpressure.                                               *)
LEMMA LongStreamed ==
  ASSUME NEW x \in Worlds, NEW s \in Sockets, NEW m \in Messages,
         x.loop.cork = << >>, BufferedAmount(x, s) = 0
  PROVE  Streamed(x, SendLong(x, s, m).x, s, Frame(m))
<1> DEFINE frame == Frame(m)
           put == Accept(x, s, frame)
           start == [x |-> x, empty |-> TRUE]
           d == PastCork(start, s, frame, FALSE)
           y == SendLong(x, s, m).x
<1>1. frame \in Seq(Tokens) /\ frame # << >>
  <2>1. Len(frame) = m.len + 1 /\ m.len \in Nat
    BY FrameIs DEF Messages
  <2> QED
    BY <2>1, FrameIs
<1>2. Buffered(x, s) = << >>
  <2>1. Len(Buffered(x, s)) = 0 /\ Buffered(x, s) \in Seq(Tokens)
    BY BufferedIs
  <2> QED
    BY <2>1, EmptySeq
<1>3. Sent(x, x, s)
  BY DEF Sent
<1>4. Sent(x, d.x, s) /\ d.x.loop = x.loop
  <2> DEFINE f == FALSE
  <2>1. f \in BOOLEAN
    OBVIOUS
  <2>2. start.x = x
    OBVIOUS
  <2> HIDE DEF frame, start, f
  <2>3. Sent(x, start.x, s) /\ start.x.loop = x.loop /\ (start.empty => Buffered(start.x, s) = << >>)
    BY <1>2, <1>3, <2>2
  <2>4. Sent(x, PastCork(start, s, frame, f).x, s) /\ PastCork(start, s, frame, f).x.loop = x.loop
    BY <1>1, <2>1, <2>3, PastCorkSent
  <2> QED
    BY <2>4 DEF f
<1>5. Out(d.x, s) = Out(x, s) \o frame
  <2>1. start.x = x
    OBVIOUS
  <2> HIDE DEF frame, start
  <2>2. start.x \in Worlds /\ (start.empty => Buffered(start.x, s) = << >>)
    BY <1>2, <2>1
  <2>3. Out(PastCork(start, s, frame, FALSE).x, s) = Out(start.x, s) \o frame
    BY <1>1, <2>2, PastCorkOut
  <2> QED
    BY <2>1, <2>3
<1>6. y \in {d.x, UncorkWithoutSending(d.x, s)}
  <2>1. y = LongSent(put, s, frame).x
    BY DEF SendLong
  <2>2. d = Direct(put, s, frame, FALSE)
    BY <1>1 DEF PastCork
  <2> HIDE DEF put, frame, d, y
  <2>3. CASE put.n = Len(frame)
    BY <2>1, <2>2, <2>3 DEF LongSent, Direct, Wrote
  <2>4. CASE put.n # Len(frame)
    BY <2>1, <2>2, <2>4 DEF LongSent, Direct, Wrote
  <2> QED
    BY <2>3, <2>4
<1> HIDE DEF d, y, frame
<1>7. d.x \in Worlds
  BY <1>4 DEF Sent
<1>8. y.socket = d.x.socket /\ y.loop.cork = << >>
  BY <1>4, <1>6, <1>7 DEF UncorkWithoutSending, Worlds, LoopData
<1>9. \A u \in Sockets : Stream(y, u) = Out(d.x, u)
  <2>1. ASSUME NEW u \in Sockets PROVE Stream(y, u) = Out(d.x, u)
    <3>1. Stream(y, u) = Out(d.x, u) \o << >>
      BY <1>8 DEF Stream, Out, Buffered
    <3>2. Out(d.x, u) \in Seq(Tokens)
      BY <1>7, StreamIs
    <3> QED
      BY <3>1, <3>2, ConcatEmptySeq
  <2> QED
    BY <2>1
<1>10. \A u \in Sockets : Stream(x, u) = Out(x, u)
  BY StreamIs DEF CorkOf
<1>11. \A u \in Sockets \ {s} : Out(d.x, u) = Out(x, u)
  BY <1>4 DEF Sent, Out, Buffered
<1> QED
  BY <1>5, <1>9, <1>10, <1>11 DEF Streamed, y, frame


-----------------------------------------------------------------------------
(* The ids of a stream. *)

(* What one token adds to the ids.                                          *)
IdOf(token) == IF IsData(token) THEN <<token[1].id>> ELSE << >>

(* The ids of the beginnings of a stream, one after the other.              *)
Counts(d, q) == d[0] = << >> /\ \A i \in 1..Len(q) : d[i] = d[i - 1] \o IdOf(q[i])

(* A token.                                                                 *)
LEMMA TokenIs ==
  ASSUME NEW token \in Tokens
  PROVE  /\ token = <<token[1], token[2]>> /\ token[1] \in Messages /\ token[2] \in Nat
         /\ token[1].id \in Nat /\ token[1].len \in Nat
         /\ token[1].op \in {"data", "ping", "close"}
         /\ IdOf(token) \in Seq(Nat)
<1>1. token = <<token[1], token[2]>> /\ token[1] \in Messages /\ token[2] \in Nat
  BY DEF Tokens
<1>2. /\ token[1].id \in Nat /\ token[1].len \in Nat
      /\ token[1].op \in {"data", "ping", "close"}
  BY <1>1 DEF Messages
<1>3. <<token[1].id>> \in Seq(Nat) /\ << >> \in Seq(Nat)
  BY <1>2, EmptySeq
<1> QED
  BY <1>1, <1>2, <1>3 DEF IdOf

(* A token adds its id.                                                     *)
LEMMA IdAdded ==
  ASSUME NEW token \in Tokens, NEW ids \in Seq(Nat)
  PROVE  AddId(ids, token) = ids \o IdOf(token) /\ ids \o IdOf(token) \in Seq(Nat)
<1>1. token[1].id \in Nat /\ IdOf(token) \in Seq(Nat)
  BY TokenIs
<1>2. ids \o IdOf(token) \in Seq(Nat)
  BY <1>1, ConcatProperties
<1>3. CASE IsData(token)
  BY <1>1, <1>2, <1>3, AppendIsConcat DEF AddId, IdOf
<1>4. CASE ~IsData(token)
  BY <1>2, <1>4, ConcatEmptySeq DEF AddId, IdOf
<1> QED
  BY <1>3, <1>4

(* DataIds counts the tokens one by one.                                    *)
LEMMA IdsAreCounted ==
  ASSUME NEW q \in Seq(Tokens)
  PROVE  \E d \in [0..Len(q) -> Seq(Nat)] : Counts(d, q) /\ DataIds(q) = d[Len(q)]
<1> DEFINE n == Len(q)
           D == DOMAIN q
           b == << >>
           T == [r \in SUBSET (1..n) |-> Seq(Nat)]
           F == [r \in SUBSET (1..n) |-> [a \in Seq(Nat) |-> AddId(a, q[Max(r)])]]
           Is(h) == h = [r \in SUBSET D |-> IF r = {} THEN b ELSE AddId(h[r \ {Max(r)}], q[Max(r)])]
           g == CHOOSE h : Is(h)
<1>1. n \in Nat /\ D = 1..n /\ b \in Seq(Nat) /\ \A i \in 1..n : q[i] \in Tokens
  BY LenProperties, EmptySeq
<1>2. DataIds(q) = g[D]
  BY DEF DataIds, FoldLeft, MapThenFoldSet, Max
<1> HIDE DEF D, b, n
<1>3. \A r \in SUBSET (1..n) : r \ {Max(r)} \in SUBSET (1..n)
  OBVIOUS
<1>4. StepsStay(T, F, n)
  <2>1. ASSUME NEW r \in SUBSET (1..n), r # {}, NEW a \in T[r \ {Max(r)}] PROVE F[r][a] \in T[r]
    <3>1. a \in Seq(Nat) /\ q[Max(r)] \in Tokens
      BY <1>1, <1>3, <2>1, GreatestExists
    <3>2. AddId(a, q[Max(r)]) \in Seq(Nat)
      BY <3>1, IdAdded
    <3> QED
      BY <3>1, <3>2
  <2> QED
    BY <2>1 DEF StepsStay
<1>5. \E h : Is(h) /\ \A r \in SUBSET D : h[r] \in Seq(Nat)
  <2>1. PICK h : IsTable(h, T, F, b, n)
    <3>1. b \in T[{}]
      BY <1>1
    <3> HIDE DEF F, T
    <3> QED
      BY <1>1, <1>4, <3>1, FoldTable
  <2> DEFINE t == [r \in SUBSET D |-> h[r]]
  <2>2. t = [r \in SUBSET D |-> t[r]]
    OBVIOUS
  <2>3. \A r \in SUBSET D : t[r] = h[r] /\ h[r] \in Seq(Nat)
    BY <1>1, <2>1 DEF IsTable
  <2>4. \A r \in SUBSET D : r # {} => F[r][h[r \ {Max(r)}]] = AddId(h[r \ {Max(r)}], q[Max(r)])
    BY <1>1, <1>3, <2>3
  <2>5. \A r \in SUBSET D : h[r] = IF r = {} THEN b ELSE F[r][h[r \ {Max(r)}]]
    BY <1>1, <2>1 DEF IsTable
  <2> HIDE DEF t, F, T
  <2>6. \A r \in SUBSET D : t[r] = IF r = {} THEN b ELSE AddId(t[r \ {Max(r)}], q[Max(r)])
    BY <1>1, <1>3, <2>3, <2>4, <2>5
  <2>7. Is(t)
    BY <2>2, <2>6
  <2> HIDE DEF Is
  <2> QED
    BY <2>3, <2>7
<1>6. \E h : Is(h)
  BY <1>5
<1>7. Is(g)
  <2> HIDE DEF Is
  <2> QED
    BY <1>6
<1> HIDE DEF g
<1>8. \A r \in SUBSET (1..n) : g[r] = IF r = {} THEN b ELSE AddId(g[r \ {Max(r)}], q[Max(r)])
  BY <1>1, <1>7
<1> HIDE DEF Is
<1> DEFINE d == [i \in 0..n |-> g[1..i]]
<1>9. d[0] = << >>
  <2>1. 1..0 = {} /\ 0 \in 0..n /\ {} \in SUBSET (1..n)
    BY <1>1
  <2> QED
    BY <1>8, <2>1 DEF b
<1>10. ASSUME NEW i \in 1..n PROVE d[i] = AddId(d[i - 1], q[i])
  <2>1. i \in Nat /\ i - 1 \in Nat /\ i \in 0..n /\ i - 1 \in 0..n
    BY <1>1
  <2>2. 1..i \in SUBSET (1..n) /\ 1..i # {} /\ (1..i) \ {i} = 1..i - 1
    <3>1. 1..i \in SUBSET (1..n)
      BY <1>1, <2>1
    <3>2. i \in 1..i
      BY <2>1
    <3>3. (1..i) \ {i} = 1..i - 1
      BY <2>1
    <3> QED
      BY <3>1, <3>2, <3>3
  <2>3. Max(1..i) = i
    <3>1. 1..(i - 1) + 1 = 1..i /\ (i - 1) + 1 = i /\ i \in 1..i
      BY <2>1
    <3> QED
      BY <2>1, <3>1, GreatestIs
  <2>4. g[1..i] = AddId(g[1..i - 1], q[i])
    BY <1>8, <2>2, <2>3
  <2> QED
    BY <2>1, <2>4
<1>11. DataIds(q) = d[n]
  BY <1>1, <1>2
<1> HIDE DEF d
<1>12. \A i \in 0..n : d[i] \in Seq(Nat)
  <2> DEFINE S == {i \in 0..n : d[i] \in Seq(Nat)}
  <2>1. 0 \in S
    <3>1. 0 \in 0..n
      BY <1>1
    <3>2. d[0] \in Seq(Nat)
      BY <1>1, <1>9 DEF b
    <3> QED
      BY <3>1, <3>2
  <2>2. ASSUME NEW k \in 0..n - 1, k \in S PROVE k + 1 \in S
    <3>1. k + 1 \in 1..n /\ k + 1 \in 0..n /\ (k + 1) - 1 = k /\ d[k] \in Seq(Nat)
      BY <1>1, <2>2
    <3>2. d[k + 1] = AddId(d[k], q[k + 1]) /\ q[k + 1] \in Tokens
      BY <1>1, <1>10, <3>1
    <3>3. d[k + 1] \in Seq(Nat)
      BY <3>1, <3>2, IdAdded
    <3> QED
      BY <3>1, <3>3
  <2>3. \A k \in 0..n - 1 : k \in S => k + 1 \in S
    BY <2>2
  <2> HIDE DEF S
  <2>4. \A k \in 0..n : k \in S
    BY <1>1, <2>1, <2>3, RangeInduction
  <2> QED
    BY <2>4 DEF S
<1>13. d \in [0..n -> Seq(Nat)]
  BY <1>12 DEF d
<1>14. Counts(d, q)
  <2>1. ASSUME NEW i \in 1..n PROVE d[i] = d[i - 1] \o IdOf(q[i])
    <3>1. d[i - 1] \in Seq(Nat) /\ q[i] \in Tokens
      BY <1>1, <1>12
    <3> QED
      BY <1>10, <3>1, IdAdded
  <2> QED
    BY <1>9, <2>1 DEF Counts, n
<1> QED
  BY <1>11, <1>13, <1>14 DEF n


(* The ids of two streams in a row.                                         *)
LEMMA IdsOfTwo ==
  ASSUME NEW a \in Seq(Tokens), NEW b \in Seq(Tokens)
  PROVE  /\ a \o b \in Seq(Tokens) /\ DataIds(a) \in Seq(Nat) /\ DataIds(b) \in Seq(Nat)
         /\ DataIds(a \o b) = DataIds(a) \o DataIds(b)
<1> DEFINE c == a \o b
           m == Len(a)
           n == Len(b)
<1>1. /\ c \in Seq(Tokens) /\ Len(c) = m + n
      /\ \A i \in 1..m + n : c[i] = IF i <= m THEN a[i] ELSE b[i - m]
  BY ConcatProperties
<1>2. m \in Nat /\ n \in Nat
  BY LenProperties
<1> HIDE DEF c
<1>3. PICK d \in [0..Len(c) -> Seq(Nat)] : Counts(d, c) /\ DataIds(c) = d[Len(c)]
  BY <1>1, IdsAreCounted
<1>4. PICK f \in [0..m -> Seq(Nat)] : Counts(f, a) /\ DataIds(a) = f[m]
  BY IdsAreCounted
<1>5. PICK g \in [0..n -> Seq(Nat)] : Counts(g, b) /\ DataIds(b) = g[n]
  BY IdsAreCounted
<1>6. d[0] = << >> /\ \A i \in 1..m + n : d[i] = d[i - 1] \o IdOf(c[i])
  BY <1>1, <1>3 DEF Counts
<1>7. f[0] = << >> /\ \A i \in 1..m : f[i] = f[i - 1] \o IdOf(a[i])
  BY <1>4 DEF Counts
<1>8. g[0] = << >> /\ \A i \in 1..n : g[i] = g[i - 1] \o IdOf(b[i])
  BY <1>5 DEF Counts
<1>9. f[m] \in Seq(Nat) /\ g[n] \in Seq(Nat) /\ \A i \in 0..n : g[i] \in Seq(Nat)
  <2>1. m \in 0..m /\ n \in 0..n
    BY <1>2
  <2> HIDE DEF m, n
  <2> QED
    BY <1>4, <1>5, <2>1
<1>10. \A i \in 1..n : IdOf(b[i]) \in Seq(Nat)
  <2>1. \A i \in 1..n : b[i] \in Tokens
    BY <1>2
  <2> QED
    BY <2>1, TokenIs
<1> HIDE DEF m, n
<1>11. \A i \in 0..m : d[i] = f[i]
  <2> DEFINE S == {i \in 0..m : d[i] = f[i]}
  <2>1. 0 \in S
    BY <1>2, <1>6, <1>7
  <2>2. ASSUME NEW k \in 0..m - 1, k \in S PROVE k + 1 \in S
    <3>1. k + 1 \in 1..m /\ k + 1 \in 0..m /\ k + 1 \in 1..m + n /\ k + 1 <= m /\ (k + 1) - 1 = k
      BY <1>2
    <3>2. d[k] = f[k]
      BY <2>2
    <3>3. c[k + 1] = a[k + 1]
      BY <1>1, <3>1
    <3>4. d[k + 1] = d[k] \o IdOf(a[k + 1])
      BY <1>6, <3>1, <3>3
    <3>5. f[k + 1] = f[k] \o IdOf(a[k + 1])
      BY <1>7, <3>1
    <3> QED
      BY <3>1, <3>2, <3>4, <3>5
  <2>3. \A k \in 0..m - 1 : k \in S => k + 1 \in S
    BY <2>2
  <2> HIDE DEF S
  <2>4. \A k \in 0..m : k \in S
    BY <1>2, <2>1, <2>3, RangeInduction
  <2> QED
    BY <2>4 DEF S
<1>12. \A i \in 0..n : d[m + i] = f[m] \o g[i]
  <2> DEFINE S == {i \in 0..n : d[m + i] = f[m] \o g[i]}
  <2>1. 0 \in S
    <3>1. f[m] \o << >> = f[m]
      BY <1>9, ConcatEmptySeq
    <3>2. m + 0 = m /\ m \in 0..m /\ 0 \in 0..n
      BY <1>2
    <3>3. d[m + 0] = f[m] \o g[0]
      BY <1>8, <1>11, <3>1, <3>2
    <3> QED
      BY <3>2, <3>3
  <2>2. ASSUME NEW k \in 0..n - 1, k \in S PROVE k + 1 \in S
    <3>1. /\ k + 1 \in 1..n /\ k + 1 \in 0..n /\ m + (k + 1) \in 1..m + n /\ ~(m + (k + 1) <= m)
          /\ (k + 1) - 1 = k /\ (m + (k + 1)) - 1 = m + k /\ (m + (k + 1)) - m = k + 1 /\ k \in 0..n
      BY <1>2
    <3>2. d[m + k] = f[m] \o g[k]
      BY <2>2
    <3>3. c[m + (k + 1)] = b[k + 1]
      BY <1>1, <3>1
    <3> DEFINE e == IdOf(b[k + 1])
    <3>4. d[m + (k + 1)] = d[m + k] \o e
      BY <1>6, <3>1, <3>3
    <3>5. g[k + 1] = g[k] \o e
      BY <1>8, <3>1
    <3>6. f[m] \in Seq(Nat) /\ g[k] \in Seq(Nat) /\ e \in Seq(Nat)
      BY <1>9, <1>10, <3>1
    <3> DEFINE p == f[m]
               r == g[k]
    <3> HIDE DEF e, p, r
    <3>7. (p \o r) \o e = p \o (r \o e)
      <4>1. p \in Seq(Nat) /\ r \in Seq(Nat) /\ e \in Seq(Nat)
        BY <3>6 DEF p, r
      <4> QED
        BY <4>1, IdsInARow
    <3>8. d[m + (k + 1)] = f[m] \o g[k + 1]
      BY <3>2, <3>4, <3>5, <3>7 DEF p, r
    <3> QED
      BY <3>1, <3>8
  <2>3. \A k \in 0..n - 1 : k \in S => k + 1 \in S
    BY <2>2
  <2> HIDE DEF S
  <2>4. \A k \in 0..n : k \in S
    BY <1>2, <2>1, <2>3, RangeInduction
  <2> QED
    BY <2>4 DEF S
<1>13. n \in 0..n
  BY <1>2
<1>14. d[m + n] = f[m] \o g[n]
  BY <1>12, <1>13
<1> QED
  BY <1>1, <1>3, <1>4, <1>5, <1>9, <1>14 DEF c

(* The ids in a frame: one, if it carries data.                             *)
IdsOf(m) == IF m.op = "data" THEN <<m.id>> ELSE << >>

(* The header of a frame is its only beginning.                             *)
LEMMA FrameHas ==
  ASSUME NEW m \in Messages
  PROVE  /\ Frame(m) \in Seq(Tokens) /\ Len(Frame(m)) = m.len + 1 /\ m.len \in Nat /\ m.id \in Nat
         /\ \A i \in 1..m.len + 1 :
              /\ Frame(m)[i] = <<m, i>> /\ Frame(m)[i][1] = m /\ Frame(m)[i][2] = i
              /\ Begins(Frame(m)[i]) <=> i = 1
              /\ Ends(Frame(m)[i]) <=> i = m.len + 1
         /\ IdsOf(m) \in Seq(Nat)
<1>1. Frame(m) \in Seq(Tokens) /\ Len(Frame(m)) = m.len + 1
  BY FrameIs
<1>2. m.len \in Nat /\ m.id \in Nat
  BY DEF Messages
<1>3. ASSUME NEW i \in 1..m.len + 1
      PROVE  /\ Frame(m)[i] = <<m, i>> /\ Frame(m)[i][1] = m /\ Frame(m)[i][2] = i
             /\ Begins(Frame(m)[i]) <=> i = 1
             /\ Ends(Frame(m)[i]) <=> i = m.len + 1
  <2>1. Frame(m)[i] = <<m, i>>
    BY DEF Frame
  <2>2. Frame(m)[i][1] = m /\ Frame(m)[i][2] = i
    BY <2>1
  <2> QED
    BY <2>1, <2>2 DEF Begins, Ends
<1>4. IdsOf(m) \in Seq(Nat)
  <2>1. <<m.id>> \in Seq(Nat) /\ << >> \in Seq(Nat)
    BY <1>2, EmptySeq
  <2> QED
    BY <2>1 DEF IdsOf
<1> QED
  BY <1>1, <1>2, <1>3, <1>4

(* The ids in a frame.                                                      *)
LEMMA IdsOfFrame ==
  ASSUME NEW m \in Messages
  PROVE  DataIds(Frame(m)) = IdsOf(m)
<1> DEFINE q == Frame(m)
           n == Len(q)
<1>1. /\ q \in Seq(Tokens) /\ n = m.len + 1 /\ m.len \in Nat
      /\ \A i \in 1..n : q[i][1] = m /\ (Begins(q[i]) <=> i = 1)
      /\ IdsOf(m) \in Seq(Nat)
  BY FrameHas
<1> HIDE DEF q
<1>2. PICK d \in [0..n -> Seq(Nat)] : Counts(d, q) /\ DataIds(q) = d[n]
  BY <1>1, IdsAreCounted
<1>3. d[0] = << >> /\ \A i \in 1..n : d[i] = d[i - 1] \o IdOf(q[i])
  BY <1>2 DEF Counts
<1> HIDE DEF n
<1>4. IdOf(q[1]) = IdsOf(m)
  <2>1. 1 \in 1..n
    BY <1>1
  <2> QED
    BY <1>1, <2>1 DEF IdOf, IsData, IdsOf
<1>5. \A i \in 1..n : i # 1 => IdOf(q[i]) = << >>
  BY <1>1 DEF IdOf, IsData
<1> DEFINE S == {i \in 0..m.len : d[i + 1] = IdsOf(m)}
<1>6. 0 \in S
  <2>1. 1 \in 1..n /\ 1 - 1 = 0 /\ 0 + 1 = 1 /\ 0 \in 0..m.len
    BY <1>1
  <2>2. d[1] = << >> \o IdsOf(m)
    BY <1>3, <1>4, <2>1
  <2>3. << >> \o IdsOf(m) = IdsOf(m)
    BY <1>1, ConcatEmptySeq
  <2> QED
    BY <2>1, <2>2, <2>3
<1>7. ASSUME NEW k \in 0..m.len - 1, k \in S PROVE k + 1 \in S
  <2>1. (k + 1) + 1 \in 1..n /\ (k + 1) + 1 # 1 /\ ((k + 1) + 1) - 1 = k + 1 /\ k + 1 \in 0..m.len
    BY <1>1
  <2>2. d[(k + 1) + 1] = d[k + 1] \o << >>
    BY <1>3, <1>5, <2>1
  <2>3. d[k + 1] = IdsOf(m)
    BY <1>7
  <2>4. IdsOf(m) \o << >> = IdsOf(m)
    BY <1>1, ConcatEmptySeq
  <2> QED
    BY <2>1, <2>2, <2>3, <2>4
<1>8. \A k \in 0..m.len : k \in S
  <2>1. \A k \in 0..m.len - 1 : k \in S => k + 1 \in S
    BY <1>7
  <2> HIDE DEF S
  <2> QED
    BY <1>1, <1>6, <2>1, RangeInduction
<1>9. m.len \in 0..m.len
  BY <1>1
<1>10. d[m.len + 1] = IdsOf(m)
  BY <1>8, <1>9
<1> QED
  BY <1>1, <1>2, <1>10 DEF q


(* Whole frames, of which a close frame is the last; and no close frame.    *)
Fine(q) == Whole(q) /\ CloseIsLast(q)
NoClose(q) == \A i \in 1..Len(q) : q[i][1].op # "close"

(* A frame behind whole frames that do not end with a close frame.          *)
LEMMA FrameFollows ==
  ASSUME NEW m \in Messages, NEW q \in Seq(Tokens), Fine(q), NoClose(q)
  PROVE  Fine(q \o Frame(m)) /\ (m.op # "close" => NoClose(q \o Frame(m)))
<1> DEFINE f == Frame(m)
           c == q \o f
           k == Len(q)
           n == m.len + 1
<1>1. /\ f \in Seq(Tokens) /\ Len(f) = n /\ n \in Nat /\ n >= 1
      /\ \A i \in 1..n : /\ f[i] = <<m, i>> /\ f[i][1] = m /\ f[i][2] = i
                         /\ (Begins(f[i]) <=> i = 1) /\ (Ends(f[i]) <=> i = n)
  <2>1. f \in Seq(Tokens) /\ Len(f) = n /\ m.len \in Nat
    BY FrameHas
  <2>2. ASSUME NEW i \in 1..n
        PROVE  /\ f[i] = <<m, i>> /\ f[i][1] = m /\ f[i][2] = i
               /\ (Begins(f[i]) <=> i = 1) /\ (Ends(f[i]) <=> i = n)
    BY FrameHas
  <2> HIDE DEF f
  <2> QED
    BY <2>1, <2>2
<1> HIDE DEF f, n
<1>2. k \in Nat /\ (q = << >> <=> k = 0)
  BY LenProperties, EmptySeq
<1>3. /\ c \in Seq(Tokens) /\ Len(c) = k + n
      /\ \A i \in 1..k + n : c[i] = IF i <= k THEN q[i] ELSE f[i - k]
  <2>1. f \in Seq(Tokens) /\ Len(f) = n
    BY <1>1
  <2>2. /\ c \in Seq(Tokens) /\ Len(c) = k + Len(f)
        /\ \A i \in 1..k + Len(f) : c[i] = IF i <= k THEN q[i] ELSE f[i - k]
    BY <2>1, ConcatProperties
  <2> HIDE DEF c, k
  <2> QED
    BY <2>1, <2>2
<1>4. \A i \in 1..k : i \in 1..k + n /\ c[i] = q[i]
  BY <1>1, <1>2, <1>3
<1>5. \A i \in 1..n : k + i \in 1..k + n /\ c[k + i] = f[i]
  BY <1>1, <1>2, <1>3
<1>6. /\ k # 0 => Begins(q[1]) /\ Ends(q[k])
      /\ \A i \in 1..k - 1 : Continues(q[i + 1], q[i])
  BY <1>2 DEF Fine, Whole
<1>7. \A i \in 1..k : q[i][1].op # "close"
  BY DEF NoClose
<1> HIDE DEF c, k
<1>8. ASSUME NEW i \in 1..k + n - 1
      PROVE  Continues(c[i + 1], c[i])
  <2>1. CASE i < k
    <3>1. i \in 1..k - 1 /\ i \in 1..k /\ i + 1 \in 1..k
      BY <1>1, <1>2, <2>1
    <3>2. c[i] = q[i] /\ c[i + 1] = q[i + 1]
      BY <1>4, <3>1
    <3> QED
      BY <1>6, <3>1, <3>2
  <2>2. CASE i = k
    <3>1. k # 0 /\ k \in 1..k /\ 1 \in 1..n /\ k + 1 \in 1..k + n
      BY <1>1, <1>2, <2>2
    <3>2. c[k] = q[k] /\ c[k + 1] = f[1] /\ Ends(q[k]) /\ Begins(f[1])
      BY <1>1, <1>4, <1>5, <1>6, <3>1
    <3> QED
      BY <2>2, <3>2 DEF Continues
  <2>3. CASE i > k
    <3> DEFINE j == i - k
    <3>1. j \in 1..n - 1 /\ j \in 1..n /\ j + 1 \in 1..n /\ i = k + j /\ i + 1 = k + (j + 1) /\ j # n
      BY <1>1, <1>2, <2>3
    <3> HIDE DEF j
    <3>2. c[i] = f[j] /\ c[i + 1] = f[j + 1]
      BY <1>5, <3>1
    <3>3. ~Ends(f[j]) /\ f[j][1] = m /\ f[j][2] = j /\ f[j + 1] = <<m, j + 1>>
      BY <1>1, <3>1
    <3> QED
      BY <3>2, <3>3 DEF Continues
  <2> QED
    BY <1>1, <1>2, <2>1, <2>2, <2>3
<1>9. Begins(c[1]) /\ Ends(c[k + n])
  <2>1. c[k + n] = f[n] /\ Ends(f[n])
    BY <1>1, <1>5
  <2>2. CASE k = 0
    <3>1. 1 \in 1..n /\ k + 1 = 1
      BY <1>1, <2>2
    <3>2. c[1] = f[1] /\ Begins(f[1])
      BY <1>1, <1>5, <3>1
    <3> QED
      BY <2>1, <3>2
  <2>3. CASE k # 0
    <3>1. 1 \in 1..k
      BY <1>2, <2>3
    <3>2. c[1] = q[1] /\ Begins(q[1])
      BY <1>4, <1>6, <2>3, <3>1
    <3> QED
      BY <2>1, <3>2
  <2> QED
    BY <2>2, <2>3
<1>10. Whole(c)
  <2>1. k \in Nat /\ n \in Nat /\ Len(c) = k + n
    BY <1>1, <1>2, <1>3
  <2>2. Begins(c[1]) /\ Ends(c[Len(c)])
    BY <1>9, <2>1
  <2>3. ASSUME NEW i \in 1..Len(c) - 1 PROVE Continues(c[i + 1], c[i])
    <3>1. i \in 1..k + n - 1
      BY <2>1
    <3> QED
      BY <1>8, <3>1
  <2> QED
    BY <2>2, <2>3 DEF Whole
<1>11. ASSUME NEW i \in 1..k + n, NEW j \in 1..k + n, Begins(c[i]), Begins(c[j]), i < j
       PROVE  c[i][1].op # "close"
  <2>1. CASE i <= k
    <3>1. i \in 1..k
      BY <1>1, <1>2, <2>1
    <3> QED
      BY <1>4, <1>7, <3>1
  <2>2. CASE i > k
    <3>1. j - k \in 1..n /\ j = k + (j - k) /\ j - k # 1
      BY <1>1, <1>2, <1>11, <2>2
    <3>2. c[j] = f[j - k] /\ ~Begins(f[j - k])
      BY <1>1, <1>5, <3>1
    <3> QED
      BY <1>11, <3>2
  <2> QED
    BY <1>1, <1>2, <2>1, <2>2
<1>12. CloseIsLast(c)
  BY <1>3, <1>11 DEF CloseIsLast, Headers
<1>13. ASSUME m.op # "close", NEW i \in 1..k + n PROVE c[i][1].op # "close"
  <2>1. CASE i <= k
    <3>1. i \in 1..k
      BY <1>1, <1>2, <2>1
    <3> QED
      BY <1>4, <1>7, <3>1
  <2>2. CASE i > k
    <3>1. i - k \in 1..n /\ i = k + (i - k)
      BY <1>1, <1>2, <2>2
    <3>2. c[i] = f[i - k] /\ f[i - k][1] = m
      BY <1>1, <1>5, <3>1
    <3> QED
      BY <1>13, <3>2
  <2> QED
    BY <1>1, <1>2, <2>1, <2>2
<1>14. m.op # "close" => NoClose(c)
  BY <1>3, <1>13 DEF NoClose
<1> QED
  BY <1>10, <1>12, <1>14 DEF Fine, c, f

(* What is behind a frame.                                                  *)
LEMMA FrameLeaves ==
  ASSUME NEW m \in Messages, NEW q \in Seq(Tokens), Fine(Frame(m) \o q)
  PROVE  Fine(q) /\ (NoClose(Frame(m) \o q) => NoClose(q))
<1> DEFINE f == Frame(m)
           c == f \o q
           k == Len(q)
           n == m.len + 1
<1>1. /\ f \in Seq(Tokens) /\ Len(f) = n /\ n \in Nat /\ n >= 1
      /\ \A i \in 1..n : /\ f[i] = <<m, i>> /\ f[i][1] = m /\ f[i][2] = i
                         /\ (Begins(f[i]) <=> i = 1) /\ (Ends(f[i]) <=> i = n)
  <2>1. f \in Seq(Tokens) /\ Len(f) = n /\ m.len \in Nat
    BY FrameHas
  <2>2. ASSUME NEW i \in 1..n
        PROVE  /\ f[i] = <<m, i>> /\ f[i][1] = m /\ f[i][2] = i
               /\ (Begins(f[i]) <=> i = 1) /\ (Ends(f[i]) <=> i = n)
    BY FrameHas
  <2> HIDE DEF f
  <2> QED
    BY <2>1, <2>2
<1> HIDE DEF f, n
<1>2. k \in Nat /\ (q = << >> <=> k = 0)
  BY LenProperties, EmptySeq
<1>3. /\ c \in Seq(Tokens) /\ Len(c) = n + k
      /\ \A i \in 1..n + k : c[i] = IF i <= n THEN f[i] ELSE q[i - n]
  <2>1. f \in Seq(Tokens) /\ Len(f) = n
    BY <1>1
  <2>2. /\ c \in Seq(Tokens) /\ Len(c) = Len(f) + k
        /\ \A i \in 1..Len(f) + k : c[i] = IF i <= Len(f) THEN f[i] ELSE q[i - Len(f)]
    BY <2>1, ConcatProperties
  <2> HIDE DEF c, k
  <2> QED
    BY <2>1, <2>2
<1>4. \A i \in 1..k : n + i \in 1..n + k /\ c[n + i] = q[i]
  BY <1>1, <1>2, <1>3
<1>5. n \in 1..n + k /\ c[n] = f[n]
  BY <1>1, <1>2, <1>3
<1>6. Fine(c)
  BY DEF c, f
<1>7. NoClose(Frame(m) \o q) = NoClose(c)
  BY DEF c, f
<1> HIDE DEF c, k
<1>8. /\ k # 0 => Ends(c[n + k])
      /\ \A i \in 1..n + k - 1 : Continues(c[i + 1], c[i])
      /\ \A i, j \in 1..n + k : Begins(c[i]) /\ Begins(c[j]) /\ i < j => c[i][1].op # "close"
  <2>1. c # << >>
    <3>1. Len(c) # 0
      BY <1>1, <1>2, <1>3
    <3> QED
      BY <1>3, <3>1, EmptySeq
  <2>2. Whole(c) /\ CloseIsLast(c)
    BY <1>6 DEF Fine
  <2>3. /\ Ends(c[Len(c)])
        /\ \A i \in 1..Len(c) - 1 : Continues(c[i + 1], c[i])
    BY <2>1, <2>2 DEF Whole
  <2>4. \A i, j \in 1..Len(c) : Begins(c[i]) /\ Begins(c[j]) /\ i < j => c[i][1].op # "close"
    BY <2>2 DEF CloseIsLast, Headers
  <2>5. k \in Nat /\ n \in Nat /\ Len(c) = n + k
    BY <1>1, <1>2, <1>3
  <2>6. \A i \in 1..n + k - 1 : Continues(c[i + 1], c[i])
    BY <2>3, <2>5
  <2>7. \A i, j \in 1..n + k : Begins(c[i]) /\ Begins(c[j]) /\ i < j => c[i][1].op # "close"
    BY <2>4, <2>5
  <2> QED
    BY <2>3, <2>5, <2>6, <2>7
<1>9. k # 0 => Begins(q[1]) /\ Ends(q[k])
  <2>1. ASSUME k # 0 PROVE Begins(q[1]) /\ Ends(q[k])
    <3>1. 1 \in 1..k /\ k \in 1..k /\ n \in 1..n /\ n \in 1..n + k - 1
      BY <1>1, <1>2, <2>1
    <3>2. Ends(c[n]) /\ c[n + 1] = q[1] /\ c[n + k] = q[k]
      BY <1>1, <1>4, <1>5, <3>1
    <3>3. Continues(c[n + 1], c[n])
      BY <1>8, <3>1
    <3> QED
      BY <1>8, <2>1, <3>2, <3>3 DEF Continues
  <2> QED
    BY <2>1
<1>10. ASSUME NEW i \in 1..k - 1
       PROVE  Continues(q[i + 1], q[i])
  <2>1. i \in 1..k /\ i + 1 \in 1..k /\ n + i \in 1..n + k - 1 /\ (n + i) + 1 = n + (i + 1)
    BY <1>1, <1>2
  <2>2. c[n + i] = q[i] /\ c[(n + i) + 1] = q[i + 1]
    BY <1>4, <2>1
  <2>3. Continues(c[(n + i) + 1], c[n + i])
    BY <1>8, <2>1
  <2> QED
    BY <2>2, <2>3
<1>11. Whole(q)
  BY <1>2, <1>9, <1>10 DEF Whole, k
<1>12. CloseIsLast(q)
  <2>1. ASSUME NEW i \in 1..k, NEW j \in 1..k, Begins(q[i]), Begins(q[j]), i < j
        PROVE  q[i][1].op # "close"
    <3>1. /\ n + i \in 1..n + k /\ c[n + i] = q[i] /\ n + j \in 1..n + k /\ c[n + j] = q[j]
          /\ n + i < n + j
      BY <1>1, <1>2, <1>4, <2>1
    <3> QED
      BY <1>8, <2>1, <3>1
  <2> QED
    BY <2>1 DEF CloseIsLast, Headers, k
<1>13. NoClose(c) => NoClose(q)
  BY <1>3, <1>4 DEF NoClose, k
<1> QED
  BY <1>7, <1>11, <1>12, <1>13 DEF Fine

(* Nothing is whole.                                                        *)
LEMMA NothingIsFine ==
  Fine(<< >>) /\ NoClose(<< >>) /\ DataIds(<< >>) = << >>
<1>1. << >> \in Seq(Tokens) /\ Len(<< >>) = 0
  BY EmptySeq
<1>2. Whole(<< >>) /\ CloseIsLast(<< >>) /\ NoClose(<< >>)
  BY <1>1 DEF Whole, CloseIsLast, Headers, NoClose
<1>3. PICK d \in [0..Len(<< >>) -> Seq(Nat)] :
           Counts(d, << >>) /\ DataIds(<< >>) = d[Len(<< >>)]
  BY <1>1, IdsAreCounted
<1>4. DataIds(<< >>) = << >>
  BY <1>1, <1>3 DEF Counts
<1> QED
  BY <1>2, <1>4 DEF Fine


(* Ids that grow, and all of them below a number.                           *)
Rising(ids) == \A i, j \in 1..Len(ids) : i < j => ids[i] < ids[j]
Under(ids, n) == \A i \in 1..Len(ids) : ids[i] < n
Ordered(ids, n) == Rising(ids) /\ Under(ids, n)

(* The parts of what is in order are.                                       *)
LEMMA PartsOrdered ==
  ASSUME NEW a \in Seq(Nat), NEW b \in Seq(Nat), NEW n, Ordered(a \o b, n)
  PROVE  Ordered(a, n) /\ Ordered(b, n)
<1> DEFINE c == a \o b
           k == Len(a)
           l == Len(b)
<1>1. /\ Len(c) = k + l
      /\ \A i \in 1..k + l : c[i] = IF i <= k THEN a[i] ELSE b[i - k]
  BY ConcatProperties
<1>2. k \in Nat /\ l \in Nat
  BY LenProperties
<1>3. Rising(c) /\ Under(c, n)
  BY DEF Ordered
<1> HIDE DEF c
<1>4. \A i \in 1..k : i \in 1..k + l /\ c[i] = a[i]
  BY <1>1, <1>2
<1>5. ASSUME NEW i \in 1..l PROVE k + i \in 1..k + l /\ c[k + i] = b[i]
  <2>1. k + i \in 1..k + l /\ ~(k + i <= k) /\ (k + i) - k = i
    BY <1>2
  <2> HIDE DEF k, l
  <2> QED
    BY <1>1, <2>1
<1>6. \A i, j \in 1..k + l : i < j => c[i] < c[j]
  BY <1>1, <1>3 DEF Rising
<1>7. \A i \in 1..k + l : c[i] < n
  BY <1>1, <1>3 DEF Under
<1>8. Rising(a) /\ Under(a, n)
  BY <1>4, <1>6, <1>7 DEF Rising, Under
<1>9. Rising(b)
  <2>1. ASSUME NEW i \in 1..l, NEW j \in 1..l, i < j PROVE b[i] < b[j]
    <3>1. k + i \in 1..k + l /\ k + j \in 1..k + l /\ k + i < k + j
      BY <1>2, <2>1
    <3> QED
      BY <1>5, <1>6, <3>1
  <2> QED
    BY <2>1 DEF Rising
<1>10. Under(b, n)
  BY <1>5, <1>7 DEF Under
<1> QED
  BY <1>8, <1>9, <1>10 DEF Ordered

(* What is in order without its middle is.                                  *)
LEMMA RestOrdered ==
  ASSUME NEW a \in Seq(Nat), NEW b \in Seq(Nat), NEW c \in Seq(Nat), NEW n, Ordered(a \o (b \o c), n)
  PROVE  Ordered(a \o c, n)
<1> DEFINE e == a \o (b \o c)
           d == b \o c
           f == a \o c
           ka == Len(a)
           kb == Len(b)
           kc == Len(c)
<1>1. ka \in Nat /\ kb \in Nat /\ kc \in Nat
  BY LenProperties
<1>2. /\ d \in Seq(Nat) /\ Len(d) = kb + kc
      /\ \A i \in 1..kb + kc : d[i] = IF i <= kb THEN b[i] ELSE c[i - kb]
  BY ConcatProperties
<1>3. /\ Len(f) = ka + kc
      /\ \A i \in 1..ka + kc : f[i] = IF i <= ka THEN a[i] ELSE c[i - ka]
  BY ConcatProperties
<1>4. /\ Len(e) = ka + Len(d)
      /\ \A i \in 1..ka + Len(d) : e[i] = IF i <= ka THEN a[i] ELSE d[i - ka]
  <2>1. d \in Seq(Nat)
    BY <1>2
  <2> HIDE DEF d
  <2>2. /\ Len(a \o d) = ka + Len(d)
        /\ \A i \in 1..ka + Len(d) : (a \o d)[i] = IF i <= ka THEN a[i] ELSE d[i - ka]
    BY <2>1, ConcatProperties
  <2> QED
    BY <2>2 DEF d
<1>5. Rising(e) /\ Under(e, n)
  BY DEF Ordered
<1> HIDE DEF d, e, f, ka, kb, kc
<1>6. \A i \in 1..ka : /\ i \in 1..ka + kb + kc /\ e[i] = a[i]
                       /\ i \in 1..ka + kc /\ f[i] = a[i]
  BY <1>1, <1>2, <1>3, <1>4
<1>7. ASSUME NEW i \in 1..kc
      PROVE  /\ ka + kb + i \in 1..ka + kb + kc /\ e[ka + kb + i] = c[i]
             /\ ka + i \in 1..ka + kc /\ f[ka + i] = c[i]
  <2>1. /\ kb + i \in 1..kb + kc /\ ~(kb + i <= kb) /\ (kb + i) - kb = i
        /\ ka + kb + i \in 1..ka + kb + kc /\ ka + kb + i \in 1..ka + Len(d)
        /\ ~(ka + kb + i <= ka) /\ (ka + kb + i) - ka = kb + i
        /\ ka + i \in 1..ka + kc /\ ~(ka + i <= ka) /\ (ka + i) - ka = i
    BY <1>1, <1>2
  <2>2. d[kb + i] = c[i]
    BY <1>2, <2>1
  <2>3. e[ka + kb + i] = d[kb + i]
    BY <1>4, <2>1
  <2>4. f[ka + i] = c[i]
    BY <1>3, <2>1
  <2> QED
    BY <2>1, <2>2, <2>3, <2>4
<1>8. Len(e) = ka + kb + kc
  BY <1>1, <1>2, <1>4
<1>9. \A i, j \in 1..ka + kb + kc : i < j => e[i] < e[j]
  BY <1>5, <1>8 DEF Rising
<1>10. \A i \in 1..ka + kb + kc : e[i] < n
  BY <1>5, <1>8 DEF Under
<1>11. \A i \in 1..ka + kc : i > ka => i - ka \in 1..kc /\ i = ka + (i - ka)
  BY <1>1
<1>12. \A i \in 1..ka + kc : i <= ka => i \in 1..ka
  BY <1>1
<1>13. ASSUME NEW i \in 1..ka + kc, NEW j \in 1..ka + kc, i < j PROVE f[i] < f[j]
  <2>1. CASE j <= ka
    <3>1. i \in 1..ka /\ j \in 1..ka
      BY <1>1, <1>13, <2>1
    <3> QED
      BY <1>6, <1>9, <1>13, <3>1
  <2>2. CASE i <= ka /\ j > ka
    <3>1. i \in 1..ka /\ j - ka \in 1..kc /\ j = ka + (j - ka) /\ i < ka + kb + (j - ka)
      BY <1>1, <2>2
    <3>2. f[i] = e[i] /\ f[j] = e[ka + kb + (j - ka)]
      BY <1>6, <1>7, <3>1
    <3>3. i \in 1..ka + kb + kc /\ ka + kb + (j - ka) \in 1..ka + kb + kc
      BY <1>6, <1>7, <3>1
    <3>4. e[i] < e[ka + kb + (j - ka)]
      BY <1>9, <3>1, <3>3
    <3> QED
      BY <3>2, <3>4
  <2>3. CASE i > ka
    <3>1. /\ i - ka \in 1..kc /\ i = ka + (i - ka) /\ j - ka \in 1..kc /\ j = ka + (j - ka)
          /\ ka + kb + (i - ka) < ka + kb + (j - ka)
      BY <1>1, <1>13, <2>3
    <3>2. f[i] = e[ka + kb + (i - ka)] /\ f[j] = e[ka + kb + (j - ka)]
      BY <1>7, <3>1
    <3>3. ka + kb + (i - ka) \in 1..ka + kb + kc /\ ka + kb + (j - ka) \in 1..ka + kb + kc
      BY <1>7, <3>1
    <3>4. e[ka + kb + (i - ka)] < e[ka + kb + (j - ka)]
      BY <1>9, <3>1, <3>3
    <3> QED
      BY <3>2, <3>4
  <2>4. i \in Int /\ j \in Int
    OBVIOUS
  <2> QED
    BY <1>1, <2>1, <2>2, <2>3, <2>4
<1>14. ASSUME NEW i \in 1..ka + kc PROVE f[i] < n
  <2>1. CASE i <= ka
    <3>1. i \in 1..ka
      BY <1>12, <2>1
    <3> QED
      BY <1>6, <1>10, <3>1
  <2>2. CASE i > ka
    <3>1. i - ka \in 1..kc /\ i = ka + (i - ka)
      BY <1>11, <2>2
    <3>2. f[i] = e[ka + kb + (i - ka)] /\ ka + kb + (i - ka) \in 1..ka + kb + kc
      BY <1>7, <3>1
    <3> QED
      BY <1>10, <3>2
  <2>3. i \in Int
    OBVIOUS
  <2> QED
    BY <1>1, <2>1, <2>2, <2>3
<1> QED
  BY <1>3, <1>13, <1>14 DEF Ordered, Rising, Under, f

(* A number that is not below the others comes last.                        *)
LEMMA NextOrdered ==
  ASSUME NEW a \in Seq(Nat), NEW n \in Nat, Ordered(a, n)
  PROVE  Ordered(a, n + 1) /\ Ordered(a \o <<n>>, n + 1)
<1> DEFINE one == <<n>>
           c == a \o one
           k == Len(a)
<1>1. k \in Nat /\ \A i \in 1..k : a[i] \in Nat
  BY LenProperties
<1>2. one \in Seq(Nat) /\ Len(one) = 1 /\ one[1] = n
  OBVIOUS
<1> HIDE DEF one
<1>3. /\ Len(c) = k + Len(one)
      /\ \A i \in 1..k + Len(one) : c[i] = IF i <= k THEN a[i] ELSE one[i - k]
  BY <1>2, ConcatProperties
<1>4. (\A i, j \in 1..k : i < j => a[i] < a[j]) /\ \A i \in 1..k : a[i] < n
  BY DEF Ordered, Rising, Under
<1> HIDE DEF c, k
<1>5. Len(c) = k + 1 /\ c[k + 1] = n /\ \A i \in 1..k : c[i] = a[i]
  BY <1>1, <1>2, <1>3
<1>6. \A i \in 1..k : a[i] < n + 1
  BY <1>1, <1>4
<1>7. ASSUME NEW i \in 1..k + 1, NEW j \in 1..k + 1, i < j PROVE c[i] < c[j]
  <2>1. i \in 1..k /\ c[i] = a[i]
    BY <1>1, <1>5, <1>7
  <2>2. j \in 1..k \/ j = k + 1
    BY <1>1
  <2> QED
    BY <1>4, <1>5, <1>7, <2>1, <2>2
<1>8. ASSUME NEW i \in 1..k + 1 PROVE c[i] < n + 1
  <2>1. i \in 1..k \/ i = k + 1
    BY <1>1
  <2> QED
    BY <1>5, <1>6, <2>1
<1>9. Ordered(a, n + 1)
  BY <1>4, <1>6 DEF Ordered, Rising, Under, k
<1>10. Ordered(c, n + 1)
  BY <1>5, <1>7, <1>8 DEF Ordered, Rising, Under
<1> QED
  BY <1>9, <1>10 DEF c, one

(* Neighbours grow.                                                         *)
LEMMA OrderedIncreases ==
  ASSUME NEW a \in Seq(Nat), NEW n, Ordered(a, n)
  PROVE  Increasing(a)
<1>1. Len(a) \in Nat
  BY LenProperties
<1>2. \A i \in 1..Len(a) - 1 : i \in 1..Len(a) /\ i + 1 \in 1..Len(a) /\ i < i + 1
  BY <1>1
<1> QED
  BY <1>2 DEF Ordered, Rising, Increasing


-----------------------------------------------------------------------------
(* What a socket is owed. *)

(* The ids of what is parked for s; of all that is on its way or parked.    *)
Waiting(x, s) ==
  [i \in 1..Len(x.tree.indices[s]) |-> x.tree.palette[x.tree.indices[s][i] + 1].id]
Account(x, s) == DataIds(Stream(x, s)) \o Waiting(x, s)

(* The ids are in order and below n; unless something was dropped, they are *)
(* what is owed.                                                            *)
Settles(ids, n, k) == Ordered(ids, n) /\ (~k.lossy => k.owed = ids)

(* An open socket: whole frames; and, while the indices of the palette fit  *)
(* (fits), the account and what is due beyond it settle what is owed.       *)
FitAt(fits, n, x, s, due) ==
  /\ Fine(Stream(x, s))
  /\ fits => Settles(Account(x, s) \o due, n, x.ws[s])

(* What is parked has ids.                                                  *)
LEMMA WaitingIs ==
  ASSUME NEW x \in Worlds, NEW s \in Sockets, InPalette(x, s)
  PROVE  /\ Waiting(x, s) \in Seq(Nat) /\ Len(Waiting(x, s)) = Len(x.tree.indices[s])
         /\ \A i \in 1..Len(x.tree.indices[s]) :
              Waiting(x, s)[i] = x.tree.palette[x.tree.indices[s][i] + 1].id
<1> DEFINE n == Len(x.tree.indices[s])
           w == Waiting(x, s)
<1>1. /\ n \in Nat
      /\ \A i \in 1..n : x.tree.palette[x.tree.indices[s][i] + 1] \in Messages
  BY ParkedIs
<1>2. \A i \in 1..n : w[i] = x.tree.palette[x.tree.indices[s][i] + 1].id
  BY DEF Waiting
<1>3. \A i \in 1..n : w[i] \in Nat
  BY <1>1, <1>2 DEF Messages
<1>4. w = [i \in 1..n |-> w[i]]
  BY DEF Waiting
<1> HIDE DEF w, n
<1>5. w \in [1..n -> Nat]
  BY <1>3, <1>4
<1>6. w \in Seq(Nat) /\ Len(w) = n
  BY <1>1, <1>5
<1> QED
  BY <1>2, <1>6 DEF w, n

(* Nothing is parked.                                                       *)
LEMMA NothingWaits ==
  ASSUME NEW x, NEW s, x.tree.indices[s] = << >>
  PROVE  Waiting(x, s) = << >>
<1>1. Len(x.tree.indices[s]) = 0
  BY EmptySeq
<1>2. 1..0 = {}
  OBVIOUS
<1>3. Waiting(x, s) = [i \in {} |-> x.tree.palette[x.tree.indices[s][i] + 1].id]
  BY <1>1, <1>2 DEF Waiting
<1> QED
  BY <1>3

(* Nothing that is accounted for changes.                                   *)
LEMMA FitKept ==
  ASSUME NEW fits, NEW n, NEW x, NEW y, NEW s, NEW due, FitAt(fits, n, x, s, due),
         Stream(y, s) = Stream(x, s), Waiting(y, s) = Waiting(x, s),
         y.ws[s].lossy \/ (y.ws[s].owed = x.ws[s].owed /\ (x.ws[s].lossy => y.ws[s].lossy))
  PROVE  FitAt(fits, n, y, s, due)
BY DEF FitAt, Settles, Account

(* The ids of an account.                                                   *)
LEMMA AccountIs ==
  ASSUME NEW x \in Worlds, NEW s \in Sockets, InPalette(x, s)
  PROVE  /\ Stream(x, s) \in Seq(Tokens) /\ DataIds(Stream(x, s)) \in Seq(Nat)
         /\ Waiting(x, s) \in Seq(Nat) /\ Account(x, s) \in Seq(Nat)
<1>1. Stream(x, s) \in Seq(Tokens)
  BY StreamIs
<1>2. DataIds(Stream(x, s)) \in Seq(Nat)
  BY <1>1, IdsOfTwo
<1>3. Waiting(x, s) \in Seq(Nat)
  BY WaitingIs
<1> QED
  BY <1>1, <1>2, <1>3, ConcatProperties DEF Account

(* What was due is dropped: the socket counts as lossy.                     *)
LEMMA FitSkips ==
  ASSUME NEW fits, NEW n, NEW x \in Worlds, NEW y, NEW s \in Sockets, InPalette(x, s),
         NEW ids \in Seq(Nat), NEW due \in Seq(Nat), FitAt(fits, n, x, s, ids \o due),
         Stream(y, s) = Stream(x, s), Waiting(y, s) = Waiting(x, s), y.ws[s].lossy
  PROVE  FitAt(fits, n, y, s, due)
<1> DEFINE a == Account(x, s)
<1>1. a \in Seq(Nat)
  BY AccountIs
<1>2. Account(y, s) = a
  BY DEF Account
<1> HIDE DEF a
<1>3. fits => Ordered(a \o (ids \o due), n)
  BY DEF FitAt, Settles, a
<1>4. fits => Ordered(a \o due, n)
  BY <1>1, <1>3, RestOrdered
<1> QED
  BY <1>2, <1>4 DEF FitAt, Settles

(* What was parked is given up: the socket counts as lossy.                 *)
LEMMA FitForgets ==
  ASSUME NEW fits, NEW n, NEW x \in Worlds, NEW y, NEW s \in Sockets, InPalette(x, s),
         NEW due \in Seq(Nat), FitAt(fits, n, x, s, due),
         Stream(y, s) = Stream(x, s), Waiting(y, s) = << >>, y.ws[s].lossy
  PROVE  FitAt(fits, n, y, s, due)
<1> DEFINE d == DataIds(Stream(x, s))
           w == Waiting(x, s)
<1>1. d \in Seq(Nat) /\ w \in Seq(Nat) /\ Account(x, s) = d \o w
  BY AccountIs DEF Account
<1>2. Account(y, s) = d
  BY <1>1, ConcatEmptySeq DEF Account
<1>3. fits => Ordered((d \o w) \o due, n)
  BY <1>1 DEF FitAt, Settles
<1> HIDE DEF d, w
<1>4. (d \o w) \o due = d \o (w \o due)
  BY <1>1, IdsInARow
<1>5. fits => Ordered(d \o due, n)
  BY <1>1, <1>3, <1>4, RestOrdered
<1> QED
  BY <1>2, <1>5 DEF FitAt, Settles

(* A frame that was due is written.                                         *)
LEMMA FrameFits ==
  ASSUME NEW fits, NEW n, NEW x \in Worlds, NEW y, NEW s \in Sockets, NEW m \in Messages,
         NEW due \in Seq(Nat), ~x.socket[s].closed, NoClose(Stream(x, s)),
         x.tree.indices[s] = << >>, FitAt(fits, n, x, s, IdsOf(m) \o due),
         Streamed(x, y, s, Frame(m)), y.tree.indices[s] = << >>, y.ws[s] = x.ws[s]
  PROVE  /\ FitAt(fits, n, y, s, due)
         /\ m.op # "close" => NoClose(Stream(y, s))
<1> DEFINE q == Stream(x, s)
           f == Frame(m)
           d == DataIds(q)
           i == IdsOf(m)
<1>1. q \in Seq(Tokens) /\ f \in Seq(Tokens) /\ i \in Seq(Nat) /\ d \in Seq(Nat)
  <2>1. q \in Seq(Tokens) /\ f \in Seq(Tokens) /\ i \in Seq(Nat)
    BY StreamIs, FrameHas
  <2> HIDE DEF q, f, i
  <2> QED
    BY <2>1, IdsOfTwo
<1>2. Stream(y, s) = q \o f
  BY DEF Streamed
<1>3. Fine(q) /\ NoClose(q) /\ (fits => Settles((d \o << >>) \o (i \o due), n, x.ws[s]))
  <2>1. Waiting(x, s) = << >>
    BY NothingWaits
  <2> QED
    BY <2>1 DEF FitAt, Account
<1>4. Fine(q \o f) /\ (m.op # "close" => NoClose(q \o f))
  <2> HIDE DEF q
  <2> QED
    BY <1>1, <1>3, FrameFollows
<1>5. DataIds(q \o f) = d \o i
  <2>1. DataIds(q \o f) = d \o DataIds(f)
    <3> HIDE DEF q, f
    <3> QED
      BY <1>1, IdsOfTwo
  <2> QED
    BY <2>1, IdsOfFrame
<1>6. Account(y, s) = (d \o i) \o << >>
  <2>1. Waiting(y, s) = << >>
    BY NothingWaits
  <2> QED
    BY <1>2, <1>5, <2>1 DEF Account
<1> HIDE DEF q, f, d, i
<1>7. d \o << >> = d /\ (d \o i) \o << >> = d \o i /\ (d \o i) \o due = d \o (i \o due)
  <2>1. d \o i \in Seq(Nat) /\ (d \o i) \o due = d \o (i \o due)
    BY <1>1, IdsInARow
  <2> QED
    BY <1>1, <2>1, ConcatEmptySeq
<1>8. fits => Settles(Account(y, s) \o due, n, y.ws[s])
  BY <1>3, <1>6, <1>7
<1> QED
  BY <1>2, <1>4, <1>8 DEF FitAt


-----------------------------------------------------------------------------
(* The drain of one batch. *)

(* Every stream stays as it is.                                             *)
SameStreams(x, y) == \A u \in Sockets : Stream(y, u) = Stream(x, u)

(* A write of nothing.                                                      *)
LEMMA StreamsStay ==
  ASSUME NEW x \in Worlds, NEW y, NEW s \in Sockets, ~x.socket[s].closed, Streamed(x, y, s, << >>)
  PROVE  SameStreams(x, y)
<1>1. Stream(x, s) \in Seq(Tokens)
  BY StreamIs
<1>2. Stream(x, s) \o << >> = Stream(x, s)
  BY <1>1, ConcatEmptySeq
<1> QED
  BY <1>2 DEF Streamed, SameStreams

(* A free cork is empty: who takes it has nothing in it.                    *)
LEMMA CorkTakenStreams ==
  ASSUME NEW x \in Worlds, NEW s \in Sockets, x.loop.corked = NoSocket
  PROVE  /\ SameStreams(x, Cork(x, s)) /\ Sent(x, Cork(x, s), s)
<1> DEFINE c == x.loop.cork
           y == WithCork(x, s, c)
<1>1. s # NoSocket
  BY PubSubAssumption
<1>2. c = << >>
  BY CorkIs
<1>3. Cork(x, s) = y
  BY <1>2 DEF Cork, WithCork, Worlds, LoopData
<1>4. CorkFits(s, c)
  BY <1>1, CorkIs DEF CorkFits
<1> HIDE DEF c
<1>5. Sent(x, y, s) /\ y.loop.cork = c /\ y.socket = x.socket
  BY <1>4, CorkPut
<1> HIDE DEF y
<1>6. \A u \in Sockets : CorkOf(y, u) = << >> /\ CorkOf(x, u) = << >>
  BY <1>2, <1>5 DEF CorkOf, c
<1>7. \A u \in Sockets : Stream(y, u) = Stream(x, u)
  BY <1>5, <1>6, OtherStream
<1> QED
  BY <1>3, <1>5, <1>7 DEF SameStreams

(* What the callback remembers is nothing that is sent.                     *)
LEMMA RememberedStreams ==
  ASSUME NEW x \in Worlds, NEW s \in Sockets, NEW b \in BOOLEAN
  PROVE  LET y == [x EXCEPT !.tree.needsUncork = b]
         IN  SameStreams(x, y) /\ y.ws = x.ws /\ y.socket = x.socket
<1> DEFINE y == [x EXCEPT !.tree.needsUncork = b]
<1>1. y.loop = x.loop /\ y.socket = x.socket /\ y.ws = x.ws
  BY DEF Worlds
<1> HIDE DEF y
<1>2. \A u \in Sockets : Stream(y, u) = Stream(x, u)
  BY <1>1, OtherStream DEF CorkOf, IsCorked
<1> QED
  BY <1>1, <1>2 DEF SameStreams, y

(* The callback takes the cork.                                             *)
LEMMA TakesCorkStreams ==
  ASSUME NEW x \in Worlds, NEW s \in Sockets, NEW flags
  PROVE  LET y == TakesCork(x, s, flags)
         IN  SameStreams(x, y) /\ y.ws = x.ws
<1> DEFINE c == Cork(x, s)
           w == [c EXCEPT !.tree.needsUncork = TRUE]
           y == TakesCork(x, s, flags)
<1>1. CASE ~CanCork(x)
  <2>1. y = x
    BY <1>1 DEF TakesCork
  <2> QED
    BY <2>1 DEF SameStreams
<1>2. CASE CanCork(x)
  <2>1. SameStreams(x, c) /\ Sent(x, c, s)
    BY <1>2, CorkTakenStreams DEF CanCork
  <2>2. y = x \/ y = w
    BY DEF TakesCork
  <2> HIDE DEF c, y
  <2>3. SameStreams(c, w) /\ w.ws = c.ws
    BY <2>1, RememberedStreams DEF Sent
  <2> HIDE DEF w
  <2>4. SameStreams(x, w) /\ w.ws = x.ws
    BY <2>1, <2>3 DEF SameStreams, Sent
  <2> QED
    BY <2>2, <2>4 DEF SameStreams, y
<1> QED
  BY <1>1, <1>2

(* And gives it back.                                                       *)
LEMMA GivesCorkStreams ==
  ASSUME NEW x \in Worlds, NEW s \in Sockets, ~x.socket[s].closed
  PROVE  LET y == GivesCork(x, s)
         IN  SameStreams(x, y) /\ y.ws = x.ws
<1> DEFINE e == << >>
           f == FALSE
           u == Uncork(x, s, e, f).x
           y == GivesCork(x, s)
<1>1. y = u \/ y = x
  BY DEF GivesCork
<1>2. e \in Seq(Tokens) /\ f \in BOOLEAN
  BY EmptySeq
<1>3. Streamed(x, u, s, << >>)
  BY UncorkStreamed
<1> HIDE DEF e, f, y
<1>4. Sent(x, u, s)
  BY <1>2, Uncorked
<1> HIDE DEF u
<1>5. SameStreams(x, u) /\ u.ws = x.ws
  BY <1>3, <1>4, StreamsStay DEF Sent
<1> QED
  BY <1>1, <1>5 DEF SameStreams, y

(* send without a drain: the frame, or a drop.                              *)
LEMMA SentOrDroppedFits ==
  ASSUME NEW fits, NEW n, NEW x \in Worlds, NEW s \in Sockets, NEW m \in Messages,
         NEW due \in Seq(Nat), ~x.socket[s].closed, NoClose(Stream(x, s)),
         x.tree.indices[s] = << >>, FitAt(fits, n, x, s, IdsOf(m) \o due)
  PROVE  LET r == SendOrDrop(x, s, m)
         IN  /\ FitAt(fits, n, r.x, s, due)
             /\ m.op # "close" => NoClose(Stream(r.x, s))
             /\ \A u \in Sockets \ {s} : Stream(r.x, u) = Stream(x, u)
             /\ r.status = "DROPPED" => r.x.ws[s].lossy
<1> DEFINE r == SendOrDrop(x, s, m)
<1>1. CASE OverLimit(x, s)
  <2> DEFINE y == Drop(x, s, m)
  <2>1. r.x = y
    BY <1>1 DEF SendOrDrop
  <2>2. Messaged(x, y, s) /\ y.loop = x.loop /\ y.tree = x.tree /\ y.ws[s].lossy
    BY Dropped
  <2>3. y.socket = x.socket
    BY DEF Drop, Worlds
  <2> HIDE DEF y, r
  <2>4. \A u \in Sockets : Stream(y, u) = Stream(x, u)
    BY <2>2, <2>3, OtherStream DEF CorkOf, IsCorked
  <2>5. IdsOf(m) \in Seq(Nat) /\ InPalette(x, s)
    <3>1. Len(x.tree.indices[s]) = 0
      BY EmptySeq
    <3> QED
      BY <3>1, FrameHas DEF InPalette
  <2>6. Waiting(x, s) = << >> /\ Waiting(y, s) = << >>
    BY <2>2, NothingWaits
  <2> DEFINE ids == IdsOf(m)
  <2> HIDE DEF ids
  <2>7. FitAt(fits, n, x, s, ids \o due) /\ ids \in Seq(Nat)
    BY <2>5 DEF ids
  <2>8. FitAt(fits, n, y, s, due)
    BY <2>2, <2>4, <2>5, <2>6, <2>7, FitSkips
  <2> QED
    BY <2>1, <2>2, <2>4, <2>8 DEF r
<1>2. CASE ~OverLimit(x, s)
  <2> DEFINE z == SendShort(x, s, m)
  <2>1. r = z
    BY <1>2 DEF SendOrDrop
  <2>2. z.status # "DROPPED"
    BY DEF SendShort, ShortSent
  <2>3. Sent(x, z.x, s)
    BY ShortIsSent
  <2>4. Streamed(x, z.x, s, Frame(m))
    BY ShortStreamed
  <2> HIDE DEF z, r
  <2>5. z.x.tree.indices[s] = << >> /\ z.x.ws[s] = x.ws[s]
    BY <2>3 DEF Sent
  <2> DEFINE y == z.x
  <2>6. Streamed(x, y, s, Frame(m)) /\ y.tree.indices[s] = << >> /\ y.ws[s] = x.ws[s]
    BY <2>4, <2>5
  <2> HIDE DEF y
  <2>7. FitAt(fits, n, y, s, due) /\ (m.op # "close" => NoClose(Stream(y, s)))
    BY <2>6, FrameFits
  <2> QED
    BY <2>1, <2>2, <2>4, <2>7 DEF Streamed, y, r
<1> QED
  BY <1>1, <1>2


(* The same streams one after the other.                                    *)
LEMMA StreamsTwice ==
  ASSUME NEW x, NEW y, NEW z, SameStreams(x, y), SameStreams(y, z)
  PROVE  SameStreams(x, z)
BY DEF SameStreams

(* Where the streams and what is owed stay, a socket without a batch is as  *)
(* it was.                                                                  *)
LEMMA FitStays ==
  ASSUME NEW fits, NEW n, NEW x, NEW y, NEW s \in Sockets, NEW due, FitAt(fits, n, x, s, due),
         SameStreams(x, y), y.ws[s] = x.ws[s],
         x.tree.indices[s] = << >>, y.tree.indices[s] = << >>
  PROVE  FitAt(fits, n, y, s, due)
<1>1. Waiting(x, s) = << >> /\ Waiting(y, s) = << >>
  BY NothingWaits
<1>2. Stream(y, s) = Stream(x, s)
  BY DEF SameStreams
<1> QED
  BY <1>1, <1>2, FitKept

(* The drain callback: one message of a batch.                              *)
LEMMA CalledBackFits ==
  ASSUME NEW fits, NEW n, NEW x \in Worlds, NEW s \in Sockets, NEW m \in Messages, NEW flags,
         NEW due \in Seq(Nat), ~x.socket[s].closed, NoClose(Stream(x, s)), m.op # "close",
         x.tree.indices[s] = << >>, FitAt(fits, n, x, s, IdsOf(m) \o due)
  PROVE  LET r == DrainCallback(x, s, m, flags)
         IN  /\ FitAt(fits, n, r.x, s, due)
             /\ NoClose(Stream(r.x, s))
             /\ \A u \in Sockets \ {s} : Stream(r.x, u) = Stream(x, u)
             /\ r.stop => r.x.ws[s].lossy
<1> DEFINE h == x.loop.corked
           y == TakesCork(x, s, flags)
           sent == SendOrDrop(y, s, m)
           z == sent.x
           g == GivesCork(z, s)
           b == FALSE
           w == [g EXCEPT !.tree.needsUncork = b]
           r == DrainCallback(x, s, m, flags)
           dropped == sent.status = "DROPPED"
           ids == IdsOf(m)
<1>1. r = IF dropped THEN [x |-> w, stop |-> TRUE]
          ELSE [x |-> IF "LAST" \in flags THEN g ELSE z, stop |-> FALSE]
  BY DEF DrainCallback, AfterSend
<1>2. b \in BOOLEAN
  OBVIOUS
<1>3. Messaged(x, y, s)
  <2>1. Batched(h, x, s)
    BY DEF Batched
  <2> HIDE DEF h
  <2> QED
    BY <2>1, CorkTaken
<1>4. SameStreams(x, y) /\ y.ws = x.ws
  BY TakesCorkStreams
<1> HIDE DEF y, r, b, ids
<1>5. y \in Worlds /\ y.socket[s].closed = x.socket[s].closed /\ y.tree.indices = x.tree.indices
  BY <1>3 DEF Messaged, SameTree
<1>6. FitAt(fits, n, x, s, ids \o due)
  BY DEF ids
<1>7. FitAt(fits, n, y, s, ids \o due)
  BY <1>4, <1>5, <1>6, FitStays
<1>8. NoClose(Stream(y, s)) /\ ~y.socket[s].closed /\ y.tree.indices[s] = << >>
  BY <1>4, <1>5 DEF SameStreams
<1>9. FitAt(fits, n, y, s, IdsOf(m) \o due)
  BY <1>7 DEF ids
<1>10. /\ FitAt(fits, n, z, s, due)
       /\ NoClose(Stream(z, s))
       /\ \A u \in Sockets \ {s} : Stream(z, u) = Stream(y, u)
       /\ dropped => z.ws[s].lossy
  BY <1>5, <1>8, <1>9, SentOrDroppedFits
<1>11. Messaged(y, z, s) /\ z.tree = y.tree
  BY <1>5, SentOrDropped
<1> HIDE DEF z, sent, dropped
<1>12. z \in Worlds /\ ~z.socket[s].closed /\ z.tree.indices[s] = << >>
  BY <1>8, <1>11 DEF Messaged
<1>13. SameStreams(z, g) /\ g.ws = z.ws
  BY <1>12, GivesCorkStreams
<1>14. Messaged(z, g, s)
  <2> DEFINE k == z.loop.corked
  <2>1. Batched(k, z, s)
    BY DEF Batched
  <2> HIDE DEF k
  <2> QED
    BY <1>12, <2>1, CorkGiven
<1> HIDE DEF g
<1>15. g \in Worlds /\ g.tree.indices[s] = << >>
  BY <1>12, <1>14 DEF Messaged, SameTree
<1>16. SameStreams(g, w) /\ w.ws = g.ws
  BY <1>2, <1>15, RememberedStreams
<1>17. w.tree.indices[s] = << >>
  <2>1. Messaged(g, w, s)
    BY <1>2, <1>15, RememberPut
  <2> HIDE DEF w
  <2> QED
    BY <1>15, <2>1 DEF Messaged, SameTree
<1> HIDE DEF w
<1>18. FitAt(fits, n, g, s, due)
  BY <1>10, <1>12, <1>13, <1>15, FitStays
<1>19. FitAt(fits, n, w, s, due)
  BY <1>15, <1>16, <1>17, <1>18, FitStays
<1>20. ASSUME NEW v \in {z, g, w}
       PROVE  /\ FitAt(fits, n, v, s, due) /\ NoClose(Stream(v, s)) /\ v.ws = z.ws
              /\ \A u \in Sockets \ {s} : Stream(v, u) = Stream(x, u)
  BY <1>4, <1>10, <1>13, <1>16, <1>18, <1>19 DEF SameStreams
<1>21. CASE dropped
  <2>1. r.x = w
    BY <1>1, <1>21
  <2> QED
    BY <1>10, <1>20, <1>21, <2>1 DEF r
<1>22. CASE ~dropped
  <2>1. r.x \in {z, g, w} /\ r.stop = FALSE
    BY <1>1, <1>22
  <2> QED
    BY <1>20, <2>1 DEF r
<1> QED
  BY <1>21, <1>22

(* The first of what is left.                                               *)
LEMMA FirstOfRest ==
  ASSUME NEW q \in Seq(Nat), NEW k \in 1..Len(q), NEW due \in Seq(Nat)
  PROVE  /\ From(q, k - 1) \o due = <<q[k]>> \o (From(q, k) \o due)
         /\ From(q, k - 1) \in Seq(Nat) /\ From(q, k) \in Seq(Nat) /\ q[k] \in Nat
<1>1. Len(q) \in Nat
  BY LenProperties
<1> DEFINE a == SubSeq(q, k, k)
           b == SubSeq(q, k + 1, Len(q))
           n == Len(q)
<1>2. (k - 1) + 1 = k /\ k \in Nat /\ q[k] \in Nat /\ k - 1 \in Nat
  BY <1>1
<1>3. a \o b = SubSeq(q, k, n)
  <2>1. k \in 1..n + 1 /\ k \in k - 1..n /\ n \in k..n
    BY <1>1
  <2> QED
    BY <2>1, ConcatAdjacentSubSeq
<1>4. a = <<q[k]>>
  <2> DEFINE one == <<q[k]>>
  <2>1. one \in Seq(Nat) /\ Len(one) = 1 /\ one[1] = q[k]
    BY <1>2
  <2>2. \A i \in k..k : q[i] \in Nat
    BY <1>2
  <2>3. a \in Seq(Nat) /\ Len(a) = 1 /\ a[1] = q[k]
    <3>1. /\ a \in Seq(Nat) /\ Len(a) = IF k <= k THEN k - k + 1 ELSE 0
          /\ \A i \in 1..k - k + 1 : a[i] = q[k + i - 1]
      BY <1>2, <2>2, SubSeqProperties
    <3>2. k <= k /\ k - k + 1 = 1 /\ 1 \in 1..k - k + 1 /\ k + 1 - 1 = k
      BY <1>2
    <3> HIDE DEF a
    <3> QED
      BY <3>1, <3>2
  <2> HIDE DEF one, a
  <2>4. \A i \in 1..Len(one) : one[i] = a[i]
    BY <2>1, <2>3
  <2>5. one = a
    BY <2>1, <2>3, <2>4, SeqEqual
  <2> QED
    BY <2>5 DEF one
<1>5. a \in Seq(Nat) /\ b \in Seq(Nat) /\ SubSeq(q, k, n) \in Seq(Nat)
  <2>1. b \in Seq(Nat)
    BY <1>2, FromIn
  <2>2. SubSeq(q, (k - 1) + 1, n) \in Seq(Nat)
    BY <1>2, FromIn
  <2>3. a \in Seq(Nat)
    BY <1>2, <1>4
  <2> QED
    BY <1>2, <2>1, <2>2, <2>3
<1> HIDE DEF a, b, n
<1>6. (a \o b) \o due = a \o (b \o due)
  <2>1. a \in Seq(Nat)
    BY <1>5
  <2>2. b \in Seq(Nat)
    BY <1>5
  <2> QED
    BY <2>1, <2>2, IdsInARow
<1>7. From(q, k - 1) = SubSeq(q, k, n) /\ From(q, k) = b
  BY <1>2 DEF From, b, n
<1> QED
  BY <1>2, <1>3, <1>4, <1>5, <1>6, <1>7

(* What is published is data.                                               *)
PaletteIsData(x) == \A i \in 1..Len(x.tree.palette) : x.tree.palette[i].op = "data"

(* drainImpl: what was parked for s is on its way, or was dropped.          *)
LEMMA BatchFits ==
  ASSUME NEW fits, NEW n, NEW x \in Worlds, NEW s \in Sockets, NEW due \in Seq(Nat),
         InPalette(x, s), ~x.socket[s].closed, NoClose(Stream(x, s)),
         PaletteIsData(x), FitAt(fits, n, x, s, due)
  PROVE  LET y == DrainImpl(x, s)
         IN  /\ FitAt(fits, n, y, s, due)
             /\ NoClose(Stream(y, s))
             /\ \A u \in Sockets \ {s} : Stream(y, u) = Stream(x, u)
<1> DEFINE l == Len(x.tree.indices[s])
           W == Waiting(x, s)
           c == [x EXCEPT !.tree.indices[s] = << >>]
           Rest(a, k) == IF a.stop THEN due ELSE From(W, k) \o due
           Done(a, k) ==
             /\ Messaged(c, a.x, s)
             /\ NoClose(Stream(a.x, s))
             /\ \A u \in Sockets \ {s} : Stream(a.x, u) = Stream(x, u)
             /\ FitAt(fits, n, a.x, s, Rest(a, k))
           T == [r \in SUBSET (1..l) |-> {a \in Batches : \A k \in 0..l : r = 1..k => Done(a, k)}]
           b == [x |-> c, stop |-> FALSE]
<1>1. /\ c \in Worlds
      /\ c.loop = x.loop /\ c.socket = x.socket /\ c.ws = x.ws
      /\ c.tree.palette = x.tree.palette
      /\ c.tree.indices[s] = << >>
  BY BatchTaken
<1>2. /\ l \in Nat
      /\ \A i \in 1..l : x.tree.palette[x.tree.indices[s][i] + 1] \in Messages
  BY ParkedIs
<1>3. W \in Seq(Nat) /\ Len(W) = l /\ \A i \in 1..l : W[i] = x.tree.palette[x.tree.indices[s][i] + 1].id
  BY WaitingIs
<1>4. \A i \in 1..l : x.tree.palette[x.tree.indices[s][i] + 1].op = "data"
  <2>1. ASSUME NEW i \in 1..l PROVE x.tree.palette[x.tree.indices[s][i] + 1].op = "data"
    <3> DEFINE j == x.tree.indices[s][i]
    <3>1. j \in Nat
      <4>1. x.tree.indices[s] \in Seq(Nat)
        BY ParkedIs
      <4> QED
        BY <4>1
    <3>2. j < Len(x.tree.palette)
      BY DEF InPalette
    <3>3. Len(x.tree.palette) \in Nat
      BY NextIndex
    <3> HIDE DEF j
    <3>4. j + 1 \in 1..Len(x.tree.palette)
      BY <3>1, <3>2, <3>3
    <3>5. x.tree.palette[j + 1].op = "data"
      BY <3>4 DEF PaletteIsData
    <3> QED
      BY <3>5 DEF j
  <2> QED
    BY <2>1
<1>5. \A u \in Sockets : Stream(c, u) = Stream(x, u)
  <2> HIDE DEF c
  <2> QED
    BY <1>1, OtherStream DEF CorkOf, IsCorked
<1>6. FitAt(fits, n, c, s, W \o due)
  <2> DEFINE d == DataIds(Stream(x, s))
  <2>1. d \in Seq(Nat) /\ Account(x, s) = d \o W
    BY AccountIs DEF Account
  <2>2. Account(c, s) = d \o << >>
    <3> HIDE DEF c
    <3>1. Waiting(c, s) = << >>
      BY <1>1, NothingWaits
    <3> QED
      BY <1>5, <3>1 DEF Account
  <2>3. fits => Settles((d \o W) \o due, n, x.ws[s])
    BY <2>1 DEF FitAt
  <2>4. Fine(Stream(c, s))
    BY <1>5 DEF FitAt
  <2> HIDE DEF c, d, W
  <2>5. (d \o W) \o due = d \o (W \o due) /\ d \o << >> = d
    BY <1>3, <2>1, IdsInARow, ConcatEmptySeq
  <2> QED
    BY <1>1, <2>2, <2>3, <2>4, <2>5 DEF FitAt
<1>7. b \in T[{}]
  <2> HIDE DEF c
  <2>1. b \in Batches /\ b.x = c /\ b.stop = FALSE
    BY <1>1 DEF Batches
  <2>2. Messaged(c, c, s)
    BY <1>1, TreeIs DEF Messaged, SameTree, SameLife
  <2>3. NoClose(Stream(c, s)) /\ \A u \in Sockets \ {s} : Stream(c, u) = Stream(x, u)
    BY <1>5
  <2> HIDE DEF b
  <2>4. ASSUME NEW k \in 0..l, {} = 1..k PROVE Done(b, k)
    <3>1. k = 0
      <4>1. k # 0 => 1 \in 1..k
        BY <1>2
      <4> QED
        BY <2>4, <4>1
    <3>2. From(W, 0) = W
      <4>1. SubSeq(W, 1, Len(W)) = W
        BY <1>3, SubSeqFull
      <4>2. 0 + 1 = 1
        OBVIOUS
      <4> HIDE DEF W
      <4> QED
        BY <4>1, <4>2 DEF From
    <3>3. Rest(b, k) = W \o due
      BY <2>1, <3>1, <3>2
    <3> HIDE DEF Rest
    <3> QED
      BY <1>6, <2>1, <2>2, <2>3, <3>3
  <2> QED
    BY <2>1, <2>4
<1>8. ASSUME NEW r \in SUBSET (1..l), r # {}, NEW a \in T[r \ {Max(r)}]
      PROVE  Emitted(x, s, a, Max(r)) \in T[r]
  <2> DEFINE m == Max(r)
             e == Emitted(x, s, a, m)
  <2>1. m \in r /\ m \in 1..l
    BY <1>2, <1>8, GreatestExists
  <2>2. a \in Batches /\ \A k \in 0..l : r \ {m} = 1..k => Done(a, k)
    BY <1>8
  <2>3. ASSUME NEW k \in 0..l, r = 1..k PROVE k = m /\ k - 1 \in 0..l /\ r \ {m} = 1..k - 1
    <3>1. k \in Nat /\ k # 0
      <4>1. 1..0 = {}
        OBVIOUS
      <4> QED
        BY <1>2, <1>8, <2>3, <4>1
    <3>2. k \in 1..k /\ (k - 1) + 1 = k /\ k - 1 \in Nat /\ k - 1 \in 0..l
      BY <1>2, <3>1
    <3>3. Max(1..k) = k
      BY <3>2, GreatestIs
    <3>4. (1..k) \ {k} = 1..k - 1
      BY <3>1
    <3> QED
      BY <2>3, <3>2, <3>3, <3>4
  <2> DEFINE p == x.tree.palette[x.tree.indices[s][m] + 1]
             flags == Flags(m, l)
  <2>4. p \in Messages /\ p.op = "data" /\ p.id = W[m]
    BY <1>2, <1>3, <1>4, <2>1
  <2>5. e = IF a.stop THEN a ELSE DrainCallback(a.x, s, p, flags)
    BY DEF Emitted
  <2>6. a.x \in Worlds /\ a.stop \in BOOLEAN
    BY <2>2 DEF Batches
  <2> DEFINE h == a.x.loop.corked
  <2>7. Batched(h, a.x, s)
    BY DEF Batched
  <2> HIDE DEF p, flags, h, c
  <2>8. ~a.stop => /\ e = [x |-> e.x, stop |-> e.stop] /\ e.stop \in BOOLEAN
                   /\ Messaged(a.x, e.x, s)
    <3> HIDE DEF e, m
    <3> QED
      BY <2>4, <2>5, <2>6, <2>7, CalledBack
  <2> HIDE DEF e, m, T
  <2>9. e \in Batches
    <3>1. CASE a.stop
      BY <2>2, <2>5, <3>1
    <3>2. CASE ~a.stop
      <4>1. e.x \in Worlds
        BY <2>8, <3>2 DEF Messaged
      <4> QED
        BY <2>8, <3>2, <4>1 DEF Batches
    <3> QED
      BY <3>1, <3>2
  <2>10. ASSUME NEW k \in 0..l, r = 1..k PROVE Done(e, k)
    <3>1. k = m /\ Done(a, k - 1)
      BY <2>2, <2>3, <2>10
    <3>2. CASE a.stop
      <4>1. e = a /\ Rest(a, k) = Rest(a, k - 1)
        BY <2>5, <3>2
      <4> HIDE DEF Rest
      <4> QED
        BY <3>1, <4>1
    <3>3. CASE ~a.stop
      <4> DEFINE rest == From(W, k) \o due
      <4>1. /\ From(W, k - 1) \o due = <<W[k]>> \o rest
            /\ From(W, k) \in Seq(Nat) /\ W[k] \in Nat
        <5>1. k \in 1..Len(W)
          BY <1>3, <2>1, <3>1
        <5> HIDE DEF W
        <5> QED
          BY <1>3, <5>1, FirstOfRest
      <4>2. rest \in Seq(Nat)
        <5>1. From(W, k) \in Seq(Nat)
          BY <4>1
        <5> QED
          BY <5>1, ConcatProperties
      <4>3. <<W[k]>> \o rest = IdsOf(p) \o rest
        BY <2>4, <3>1 DEF IdsOf
      <4>4. /\ Messaged(c, a.x, s) /\ NoClose(Stream(a.x, s))
            /\ \A u \in Sockets \ {s} : Stream(a.x, u) = Stream(x, u)
            /\ FitAt(fits, n, a.x, s, From(W, k - 1) \o due)
        BY <3>1, <3>3
      <4>5. FitAt(fits, n, a.x, s, IdsOf(p) \o rest)
        BY <4>1, <4>3, <4>4
      <4>6. a.x.tree.indices[s] = << >> /\ ~a.x.socket[s].closed
        BY <1>1, <4>4 DEF Messaged, SameTree
      <4> HIDE DEF rest, W
      <4>7. p.op # "close"
        BY <2>4
      <4>8. e = DrainCallback(a.x, s, p, flags)
        BY <2>5, <3>3
      <4>9. /\ FitAt(fits, n, e.x, s, rest)
            /\ NoClose(Stream(e.x, s))
            /\ \A u \in Sockets \ {s} : Stream(e.x, u) = Stream(a.x, u)
            /\ e.stop => e.x.ws[s].lossy
        BY <2>4, <2>6, <4>2, <4>4, <4>5, <4>6, <4>7, <4>8, CalledBackFits
      <4>10. Messaged(c, e.x, s)
        BY <2>8, <3>3, <4>4, MessagedTwice
      <4>11. e.stop => FitAt(fits, n, e.x, s, due)
        <5>1. ASSUME e.stop PROVE FitAt(fits, n, e.x, s, due)
          <6> DEFINE ids == From(W, k)
          <6>1. ids \in Seq(Nat) /\ rest = ids \o due
            BY <4>1 DEF rest
          <6>2. e.x \in Worlds /\ e.x.tree.indices[s] = << >>
            BY <1>1, <4>10 DEF Messaged, SameTree
          <6>3. InPalette(e.x, s)
            <7>1. Len(e.x.tree.indices[s]) = 0
              BY <6>2, EmptySeq
            <7> QED
              BY <7>1 DEF InPalette
          <6> HIDE DEF ids
          <6>4. FitAt(fits, n, e.x, s, ids \o due)
            BY <4>9, <6>1
          <6> DEFINE w == e.x
          <6>5. w \in Worlds /\ InPalette(w, s) /\ FitAt(fits, n, w, s, ids \o due) /\ w.ws[s].lossy
            BY <4>9, <5>1, <6>2, <6>3, <6>4
          <6>6. Stream(w, s) = Stream(w, s) /\ Waiting(w, s) = Waiting(w, s)
            OBVIOUS
          <6> HIDE DEF w
          <6>7. FitAt(fits, n, w, s, due)
            BY <6>1, <6>5, <6>6, FitSkips
          <6> QED
            BY <6>7 DEF w
        <5> QED
          BY <5>1
      <4>12. FitAt(fits, n, e.x, s, Rest(e, k))
        BY <4>9, <4>11 DEF rest
      <4> HIDE DEF Rest
      <4> QED
        BY <4>4, <4>9, <4>10, <4>12
    <3> QED
      BY <2>6, <3>2, <3>3
  <2>11. e \in T[r]
    <3> HIDE DEF Done
    <3> QED
      BY <2>9, <2>10 DEF T
  <2> QED
    BY <2>11 DEF e, m
<1>9. \E a \in T[1..l] : DrainImpl(x, s) = a.x
  <2> HIDE DEF T
  <2> QED
    BY <1>2, <1>7, <1>8, EmitFold
<1>10. PICK a \in T[1..l] : DrainImpl(x, s) = a.x
  BY <1>9
<1>11. a \in Batches /\ Done(a, l)
  <2>1. l \in 0..l
    BY <1>2
  <2> HIDE DEF Done
  <2> QED
    BY <1>10, <2>1
<1>12. From(W, l) \o due = due
  <2>1. From(W, l) = << >>
    <3> DEFINE first == l + 1
               last == Len(W)
    <3>1. first \in Int /\ last \in Int /\ last < first
      BY <1>2, <1>3
    <3>2. W \in Seq(Nat)
      BY <1>3
    <3>3. From(W, l) = SubSeq(W, first, last)
      BY DEF From
    <3> HIDE DEF W, first, last
    <3>4. SubSeq(W, first, last) = << >>
      BY <3>1, <3>2, SubSeqEmpty
    <3> QED
      BY <3>3, <3>4
  <2> QED
    BY <2>1, ConcatEmptySeq
<1>13. Rest(a, l) = due
  BY <1>12
<1> HIDE DEF Rest
<1>14. FitAt(fits, n, a.x, s, due)
  BY <1>11, <1>13
<1> QED
  BY <1>10, <1>11, <1>14

-----------------------------------------------------------------------------
(* send, and what is drained before it. *)

(* Only who has a subscriber is in a topic or has something parked.         *)
Enrolled(x, s) ==
  x.tree.indices[s] # << >> \/ (\E t \in Topics : s \in x.tree.topics[t]) => x.ws[s].subscriber

(* A call on s is nothing to the others.                                    *)
Aside(x, y, s) ==
  \A u \in Sockets \ {s} :
    /\ Stream(y, u) = Stream(x, u)
    /\ y.tree.indices[u] = x.tree.indices[u]
    /\ Waiting(y, u) = Waiting(x, u)
    /\ y.ws[u] = x.ws[u]

(* The palette stays, or goes when nobody needs it.                         *)
PaletteStays(x, y) ==
  \/ y.tree.palette = x.tree.palette
  \/ y.tree.palette = << >> /\ \A u \in Sockets : y.tree.indices[u] = << >>

(* Where cork and sockets stay, the streams do.                             *)
LEMMA CorkStays ==
  ASSUME NEW x, NEW y, y.loop.corked = x.loop.corked, y.loop.cork = x.loop.cork,
         y.socket = x.socket
  PROVE  SameStreams(x, y)
<1>1. ASSUME NEW u \in Sockets PROVE Stream(y, u) = Stream(x, u)
  <2>1. y.socket[u] = x.socket[u] /\ CorkOf(y, u) = CorkOf(x, u)
    BY DEF CorkOf, IsCorked
  <2> QED
    BY <2>1, OtherStream
<1> QED
  BY <1>1 DEF SameStreams

(* In particular where the loop stays.                                      *)
LEMMA SocketsStay ==
  ASSUME NEW x, NEW y, y.loop = x.loop, y.socket = x.socket
  PROVE  SameStreams(x, y)
BY CorkStays

(* Where the indices of u and the palette stay, what waits does.            *)
LEMMA WaitingStays ==
  ASSUME NEW x, NEW y, NEW u, y.tree.indices[u] = x.tree.indices[u], PaletteStays(x, y),
         u \in Sockets
  PROVE  Waiting(y, u) = Waiting(x, u)
<1>1. CASE y.tree.palette = x.tree.palette
  BY <1>1 DEF Waiting
<1>2. CASE y.tree.palette # x.tree.palette
  <2>1. y.tree.indices[u] = << >> /\ x.tree.indices[u] = << >>
    BY <1>2 DEF PaletteStays
  <2>2. Waiting(y, u) = << >>
    BY <2>1, NothingWaits
  <2>3. Waiting(x, u) = << >>
    BY <2>1, NothingWaits
  <2> QED
    BY <2>2, <2>3
<1> QED
  BY <1>1, <1>2

(* drain(Subscriber): what was parked for s is on its way.                  *)
LEMMA DrainedOneFits ==
  ASSUME NEW fits, NEW n, NEW x \in Worlds, NEW s \in Sockets, NEW due \in Seq(Nat),
         NEW P, s \notin P, ConsistentFor(x, P), ~x.socket[s].closed, NoClose(Stream(x, s)),
         PaletteIsData(x), FitAt(fits, n, x, s, due)
  PROVE  LET y == DrainOne(x, s)
         IN  /\ FitAt(fits, n, y, s, due)
             /\ NoClose(Stream(y, s))
             /\ Aside(x, y, s) /\ PaletteStays(x, y)
<1>1. CASE ~NeedsDrainage(x, s)
  <2>1. DrainOne(x, s) = x
    BY <1>1 DEF DrainOne
  <2> QED
    BY <2>1 DEF Aside, PaletteStays
<1>2. CASE NeedsDrainage(x, s)
  <2> DEFINE q == RemoveFirst(x.tree.drainable, s)
             y == Unlink(x, s)
             z == DrainImpl(y, s)
             w == ForgetIfDrained(z)
  <2>1. y = WithList(x, q, x.tree.palette)
    BY ListIs DEF Unlink
  <2>2. q \in Seq(Sockets) /\ IsInjective(q) /\ Range(q) = Range(x.tree.drainable) \ {s}
    BY TreeHas, Unlinked DEF ConsistentFor
  <2> HIDE DEF q, y
  <2>3. /\ y \in Worlds
        /\ y.loop = x.loop /\ y.socket = x.socket /\ y.ws = x.ws
        /\ y.tree.indices = x.tree.indices
        /\ y.tree.drainable = q /\ y.tree.palette = x.tree.palette
    BY <2>1, <2>2, TreeHas, ListPut
  <2>4. InPalette(y, s)
    BY <2>3 DEF InPalette, ConsistentFor
  <2>5. SameStreams(x, y)
    BY <2>3, SocketsStay
  <2>6. FitAt(fits, n, y, s, due)
    <3>1. Stream(y, s) = Stream(x, s) /\ Waiting(y, s) = Waiting(x, s) /\ y.ws[s] = x.ws[s]
      BY <2>3, <2>5 DEF SameStreams, Waiting
    <3> QED
      BY <3>1, FitKept
  <2>7. ~y.socket[s].closed /\ NoClose(Stream(y, s)) /\ PaletteIsData(y)
    BY <2>3, <2>5 DEF SameStreams, PaletteIsData
  <2>8. /\ FitAt(fits, n, z, s, due)
        /\ NoClose(Stream(z, s))
        /\ \A u \in Sockets \ {s} : Stream(z, u) = Stream(y, u)
    BY <2>3, <2>4, <2>6, <2>7, BatchFits
  <2>9. /\ Touched(y, z, s)
        /\ z.tree.drainable = y.tree.drainable /\ z.tree.palette = y.tree.palette
        /\ z.tree.indices[s] = << >>
        /\ \A u \in Sockets \ {s} : z.tree.indices[u] = y.tree.indices[u]
    BY <2>3, <2>4, BatchDrained
  <2> HIDE DEF z
  <2>10. z \in Worlds
    BY <2>9 DEF Touched
  <2>11. /\ w.loop = z.loop /\ w.socket = z.socket /\ w.ws = z.ws
         /\ w.tree.indices = z.tree.indices
         /\ \/ w.tree.palette = z.tree.palette
            \/ z.tree.drainable = << >> /\ w.tree.palette = << >>
    <3>1. CASE z.tree.drainable # << >>
      BY <3>1 DEF ForgetIfDrained
    <3>2. CASE z.tree.drainable = << >>
      <4> DEFINE none == << >>
      <4>1. none \in Seq(Messages)
        OBVIOUS
      <4> HIDE DEF none
      <4> DEFINE list == z.tree.drainable
                 v == WithList(z, list, none)
      <4>2. w = v
        BY <2>10, <3>2, ListIs DEF ForgetIfDrained, none
      <4>3. list \in Seq(Sockets)
        BY <2>10, TreeHas
      <4> HIDE DEF w, list
      <4>4. /\ v.loop = z.loop /\ v.socket = z.socket /\ v.ws = z.ws
            /\ v.tree.indices = z.tree.indices /\ v.tree.palette = none
        BY <2>10, <4>1, <4>3, ListPut
      <4> QED
        BY <3>2, <4>2, <4>4 DEF none
    <3> QED
      BY <3>1, <3>2
  <2> HIDE DEF w
  <2>12. PaletteStays(x, w)
    <3>1. CASE w.tree.palette = z.tree.palette
      BY <2>3, <2>9, <3>1 DEF PaletteStays
    <3>2. CASE z.tree.drainable = << >> /\ w.tree.palette = << >>
      <4>1. Range(x.tree.drainable) \ {s} = {}
        BY <2>2, <2>3, <2>9, <3>2, EmptyRange
      <4>2. \A u \in Sockets \ {s} : x.tree.indices[u] = << >>
        BY <4>1 DEF ConsistentFor
      <4>3. \A u \in Sockets : w.tree.indices[u] = << >>
        BY <2>3, <2>9, <2>11, <4>2
      <4> QED
        BY <3>2, <4>3 DEF PaletteStays
    <3> QED
      BY <2>11, <3>1, <3>2
  <2>13. SameStreams(z, w)
    BY <2>11, SocketsStay
  <2>14. Aside(x, w, s)
    <3>1. ASSUME NEW u \in Sockets \ {s}
          PROVE  /\ Stream(w, u) = Stream(x, u) /\ w.tree.indices[u] = x.tree.indices[u]
                 /\ Waiting(w, u) = Waiting(x, u) /\ w.ws[u] = x.ws[u]
      <4>1. Stream(w, u) = Stream(x, u)
        BY <2>5, <2>8, <2>13, <3>1 DEF SameStreams
      <4>2. w.tree.indices[u] = x.tree.indices[u] /\ w.ws[u] = x.ws[u]
        BY <2>3, <2>9, <2>11, <3>1 DEF Touched
      <4>3. Waiting(w, u) = Waiting(x, u)
        BY <2>12, <3>1, <4>2, WaitingStays
      <4> QED
        BY <4>1, <4>2, <4>3
    <3> QED
      BY <3>1 DEF Aside
  <2>15. FitAt(fits, n, w, s, due) /\ NoClose(Stream(w, s))
    <3>1. z.tree.indices[s] = << >> /\ w.tree.indices[s] = << >> /\ w.ws[s] = z.ws[s]
      BY <2>9, <2>11
    <3>2. FitAt(fits, n, w, s, due)
      BY <2>8, <2>13, <3>1, FitStays
    <3> QED
      BY <2>8, <2>13, <3>2 DEF SameStreams
  <2>16. DrainOne(x, s) = w
    BY <1>2 DEF DrainOne, w, z, y
  <2> QED
    BY <2>12, <2>14, <2>15, <2>16
<1> QED
  BY <1>1, <1>2

(* A write of s is nothing to the others.                                   *)
LEMMA SentAside ==
  ASSUME NEW x, NEW y, NEW s \in Sockets, Sent(x, y, s),
         \A u \in Sockets \ {s} : Stream(y, u) = Stream(x, u)
  PROVE  Aside(x, y, s) /\ PaletteStays(x, y)
<1>1. PaletteStays(x, y)
  BY DEF Sent, PaletteStays
<1>2. ASSUME NEW u \in Sockets \ {s} PROVE Waiting(y, u) = Waiting(x, u)
  <2>1. y.tree.indices[u] = x.tree.indices[u]
    BY DEF Sent
  <2> QED
    BY <1>1, <1>2, <2>1, WaitingStays
<1> QED
  BY <1>1, <1>2 DEF Sent, Aside

(* One call after the other.                                                *)
LEMMA AsideTwice ==
  ASSUME NEW x, NEW y, NEW z, NEW s \in Sockets, Aside(x, y, s), Aside(y, z, s)
  PROVE  Aside(x, z, s)
BY DEF Aside

(* Nothing parked is in the palette.                                        *)
LEMMA NothingInPalette ==
  ASSUME NEW x, NEW s, x.tree.indices[s] = << >>
  PROVE  InPalette(x, s)
<1>1. Len(x.tree.indices[s]) = 0
  BY EmptySeq
<1> QED
  BY <1>1 DEF InPalette

(* A message that is dropped.                                               *)
LEMMA DropFits ==
  ASSUME NEW fits, NEW n, NEW x \in Worlds, NEW s \in Sockets, NEW m \in Messages,
         NEW due \in Seq(Nat), InPalette(x, s), FitAt(fits, n, x, s, IdsOf(m) \o due)
  PROVE  LET y == Drop(x, s, m)
         IN  /\ FitAt(fits, n, y, s, due)
             /\ SameStreams(x, y) /\ Aside(x, y, s)
             /\ y.tree = x.tree /\ y.ws[s].lossy
<1> DEFINE y == Drop(x, s, m)
           ids == IdsOf(m)
<1>1. Messaged(x, y, s) /\ y.loop = x.loop /\ y.tree = x.tree /\ y.ws[s].lossy
  BY Dropped
<1>2. y.socket = x.socket
  BY DEF Drop, Worlds
<1> HIDE DEF y
<1>3. SameStreams(x, y)
  BY <1>1, <1>2, SocketsStay
<1>4. Stream(y, s) = Stream(x, s) /\ \A u \in Sockets : Waiting(y, u) = Waiting(x, u)
  BY <1>1, <1>3 DEF SameStreams, Waiting
<1>5. Aside(x, y, s)
  BY <1>1, <1>3, <1>4 DEF Aside, SameStreams, Messaged
<1>6. ids \in Seq(Nat) /\ FitAt(fits, n, x, s, ids \o due)
  BY FrameHas
<1> HIDE DEF ids
<1>7. FitAt(fits, n, y, s, due)
  BY <1>1, <1>4, <1>6, FitSkips
<1> QED
  BY <1>1, <1>3, <1>5, <1>7 DEF y

(* send: the message is on its way behind what was parked, or is dropped.   *)
LEMMA SendFits ==
  ASSUME NEW fits, NEW n, NEW x \in Worlds, NEW s \in Sockets, NEW m \in Messages,
         NEW due \in Seq(Nat), Consistent(x), ~x.socket[s].closed, NoClose(Stream(x, s)),
         PaletteIsData(x), Enrolled(x, s), FitAt(fits, n, x, s, IdsOf(m) \o due)
  PROVE  LET y == Send(x, s, m).x
         IN  /\ FitAt(fits, n, y, s, due)
             /\ m.op # "close" => NoClose(Stream(y, s))
             /\ Aside(x, y, s) /\ PaletteStays(x, y)
             /\ \/ y.tree.indices[s] = << >>
                \/ y.ws[s].lossy /\ y.tree.indices[s] = x.tree.indices[s]
<1> DEFINE r == Send(x, s, m)
           long == /\ IsBig(m) /\ ~x.ws[s].subscriber
                   /\ BufferedAmount(x, s) = 0 /\ x.loop.cork = << >>
<1>1. CASE OverLimit(x, s)
  <2> DEFINE y == Drop(x, s, m)
  <2>1. r.x = y
    BY <1>1 DEF Send
  <2>2. InPalette(x, s)
    BY DEF Consistent, ConsistentFor
  <2>3. /\ FitAt(fits, n, y, s, due)
        /\ SameStreams(x, y) /\ Aside(x, y, s)
        /\ y.tree = x.tree /\ y.ws[s].lossy
    BY <2>2, DropFits
  <2> HIDE DEF y, r
  <2> QED
    BY <2>1, <2>3 DEF SameStreams, PaletteStays, r
<1>2. CASE ~OverLimit(x, s) /\ long
  <2> DEFINE y == r.x
  <2>1. r = SendLong(x, s, m)
    BY <1>2 DEF Send
  <2>2. Streamed(x, y, s, Frame(m)) /\ Sent(x, y, s)
    <3> HIDE DEF r
    <3> QED
      BY <1>2, <2>1, LongStreamed, LongIsSent
  <2> HIDE DEF r, y
  <2>3. x.tree.indices[s] = << >>
    BY <1>2 DEF Enrolled
  <2>4. y.tree.indices[s] = << >> /\ y.ws[s] = x.ws[s]
    BY <2>2, <2>3 DEF Sent
  <2>5. FitAt(fits, n, y, s, due) /\ (m.op # "close" => NoClose(Stream(y, s)))
    BY <2>2, <2>3, <2>4, FrameFits
  <2>6. Aside(x, y, s) /\ PaletteStays(x, y)
    BY <2>2, SentAside DEF Streamed
  <2> QED
    BY <2>4, <2>5, <2>6 DEF r, y
<1>3. CASE ~OverLimit(x, s) /\ ~long
  <2> DEFINE z == IF x.ws[s].subscriber THEN DrainOne(x, s) ELSE x
             y == r.x
             owed == IdsOf(m) \o due
  <2>1. r = SendShort(z, s, m)
    BY <1>3 DEF Send
  <2>2. owed \in Seq(Nat)
    <3>1. IdsOf(m) \in Seq(Nat)
      BY FrameHas
    <3> QED
      BY <3>1, ConcatProperties
  <2>3. FitAt(fits, n, x, s, owed)
    OBVIOUS
  <2> HIDE DEF owed
  <2>4. /\ Touched(x, z, s) /\ FitAt(fits, n, z, s, owed)
        /\ NoClose(Stream(z, s)) /\ Aside(x, z, s) /\ PaletteStays(x, z)
        /\ z.tree.indices[s] = << >>
    <3>1. CASE x.ws[s].subscriber
      <4> DEFINE P == {}
      <4>1. s \notin P /\ ConsistentFor(x, P)
        BY DEF Consistent
      <4> HIDE DEF P
      <4>2. z = DrainOne(x, s)
        BY <3>1
      <4>3. Touched(x, z, s) /\ z.tree.indices[s] = << >>
        BY <4>1, <4>2, DrainedOne
      <4> HIDE DEF z
      <4>4. /\ FitAt(fits, n, z, s, owed) /\ NoClose(Stream(z, s))
            /\ Aside(x, z, s) /\ PaletteStays(x, z)
        BY <2>2, <2>3, <4>1, <4>2, DrainedOneFits
      <4> QED
        BY <4>3, <4>4
    <3>2. CASE ~x.ws[s].subscriber
      <4>1. z = x
        BY <3>2
      <4>2. x.tree.indices[s] = << >>
        BY <3>2 DEF Enrolled
      <4> QED
        BY <2>3, <4>1, <4>2, TouchedNot DEF Aside, PaletteStays
    <3> QED
      BY <3>1, <3>2
  <2> HIDE DEF z, r, y
  <2>5. z \in Worlds /\ ~z.socket[s].closed
    BY <2>4 DEF Touched
  <2>6. Streamed(z, y, s, Frame(m)) /\ Sent(z, y, s)
    BY <2>1, <2>5, ShortStreamed, ShortIsSent DEF y
  <2>7. y.tree.indices[s] = << >> /\ y.ws[s] = z.ws[s] /\ PaletteStays(x, y)
    BY <2>4, <2>6 DEF Sent, PaletteStays
  <2>8. FitAt(fits, n, y, s, due) /\ (m.op # "close" => NoClose(Stream(y, s)))
    <3>1. FitAt(fits, n, z, s, IdsOf(m) \o due)
      BY <2>4 DEF owed
    <3> QED
      BY <2>4, <2>5, <2>6, <2>7, <3>1, FrameFits
  <2>9. Aside(x, y, s)
    <3>1. Aside(z, y, s)
      BY <2>5, <2>6, SentAside DEF Streamed
    <3> QED
      BY <2>4, <3>1, AsideTwice
  <2> QED
    BY <2>7, <2>8, <2>9 DEF r, y
<1> QED
  BY <1>1, <1>2, <1>3

-----------------------------------------------------------------------------
(* Several sockets. *)

(* What holds for s, where due is still to come.                            *)
SoundAt(fits, n, x, s, due) ==
  /\ Enrolled(x, s)
  /\ ~x.socket[s].closed => FitAt(fits, n, x, s, due)
  /\ x.ws[s].closes = 0 => NoClose(Stream(x, s))

(* And for all sockets.                                                     *)
Sound(fits, n, x, d) == PaletteIsData(x) /\ \A s \in Sockets : SoundAt(fits, n, x, s, d[s])

(* Nothing that concerns u changes.                                         *)
LEMMA SoundKept ==
  ASSUME NEW fits, NEW n, NEW x, NEW y, NEW u \in Sockets, NEW due, SoundAt(fits, n, x, u, due),
         Stream(y, u) = Stream(x, u), y.tree.indices[u] = x.tree.indices[u],
         Waiting(y, u) = Waiting(x, u), y.tree.topics = x.tree.topics,
         y.ws[u] = x.ws[u], y.socket[u].closed = x.socket[u].closed
  PROVE  SoundAt(fits, n, y, u, due)
<1>1. Enrolled(y, u)
  BY DEF SoundAt, Enrolled
<1>2. ~y.socket[u].closed => FitAt(fits, n, y, u, due)
  <2>1. ASSUME ~y.socket[u].closed PROVE FitAt(fits, n, y, u, due)
    <3>1. FitAt(fits, n, x, u, due)
      BY <2>1 DEF SoundAt
    <3>2. y.ws[u].owed = x.ws[u].owed /\ (x.ws[u].lossy => y.ws[u].lossy)
      OBVIOUS
    <3> QED
      BY <3>1, <3>2, FitKept
  <2> QED
    BY <2>1
<1> QED
  BY <1>1, <1>2 DEF SoundAt

(* A call on s leaves the others sound.                                     *)
LEMMA OthersSound ==
  ASSUME NEW fits, NEW n, NEW x, NEW y, NEW s \in Sockets, NEW u \in Sockets \ {s}, NEW due,
         Touched(x, y, s), Aside(x, y, s), SoundAt(fits, n, x, u, due)
  PROVE  SoundAt(fits, n, y, u, due)
<1>1. /\ Stream(y, u) = Stream(x, u) /\ y.tree.indices[u] = x.tree.indices[u]
      /\ Waiting(y, u) = Waiting(x, u)
  BY DEF Aside
<1>2. y.tree.topics = x.tree.topics /\ y.ws[u] = x.ws[u] /\ y.socket[u] = x.socket[u]
  BY DEF Touched
<1> QED
  BY <1>1, <1>2, SoundKept

(* And the palette data.                                                    *)
LEMMA DataStays ==
  ASSUME NEW x, NEW y, PaletteIsData(x), PaletteStays(x, y)
  PROVE  PaletteIsData(y)
<1>1. CASE y.tree.palette = x.tree.palette
  BY <1>1 DEF PaletteIsData
<1>2. CASE y.tree.palette = << >>
  <2>1. Len(y.tree.palette) = 0
    BY <1>2, EmptySeq
  <2> QED
    BY <2>1 DEF PaletteIsData
<1> QED
  BY <1>1, <1>2 DEF PaletteStays

(* A call on s, which gets no other topics.                                 *)
LEMMA TouchedSound ==
  ASSUME NEW fits, NEW n, NEW x, NEW y, NEW s \in Sockets, NEW due, Touched(x, y, s),
         Enrolled(x, s), y.tree.indices[s] \in {x.tree.indices[s], << >>},
         ~x.socket[s].closed => FitAt(fits, n, y, s, due),
         x.ws[s].closes = 0 => NoClose(Stream(y, s))
  PROVE  SoundAt(fits, n, y, s, due)
<1>1. /\ y.tree.topics = x.tree.topics /\ y.ws[s].subscriber = x.ws[s].subscriber
      /\ y.ws[s].closes = x.ws[s].closes /\ y.socket[s].closed = x.socket[s].closed
  BY DEF Touched, SameLife
<1>2. Enrolled(y, s)
  BY <1>1 DEF Enrolled
<1> QED
  BY <1>1, <1>2 DEF SoundAt
(* drainImpl, of a batch of one of the sockets.                             *)
LEMMA BatchSound ==
  ASSUME NEW fits, NEW n, NEW x \in Worlds, NEW s \in Sockets, NEW due \in Seq(Nat),
         InPalette(x, s), ~x.socket[s].closed, x.ws[s].closes = 0, PaletteIsData(x),
         SoundAt(fits, n, x, s, due)
  PROVE  LET y == DrainImpl(x, s)
         IN  SoundAt(fits, n, y, s, due) /\ Aside(x, y, s)
<1> DEFINE y == DrainImpl(x, s)
<1>1. NoClose(Stream(x, s)) /\ FitAt(fits, n, x, s, due) /\ Enrolled(x, s)
  BY DEF SoundAt
<1>2. /\ FitAt(fits, n, y, s, due) /\ NoClose(Stream(y, s))
      /\ \A u \in Sockets \ {s} : Stream(y, u) = Stream(x, u)
  BY <1>1, BatchFits
<1>3. /\ Touched(x, y, s) /\ y.tree.palette = x.tree.palette
      /\ y.tree.indices[s] = << >>
      /\ \A u \in Sockets \ {s} : y.tree.indices[u] = x.tree.indices[u]
  BY BatchDrained
<1> HIDE DEF y
<1>4. PaletteStays(x, y)
  BY <1>3 DEF PaletteStays
<1>5. Aside(x, y, s)
  <2>1. ASSUME NEW u \in Sockets \ {s} PROVE Waiting(y, u) = Waiting(x, u)
    BY <1>3, <1>4, <2>1, WaitingStays
  <2> QED
    BY <1>2, <1>3, <2>1 DEF Aside, Touched
<1>6. SoundAt(fits, n, y, s, due)
  BY <1>1, <1>2, <1>3, TouchedSound
<1> QED
  BY <1>5, <1>6 DEF y

(* drain(): what was parked is on its way.                                  *)
LEMMA DrainedAllSound ==
  ASSUME NEW fits, NEW n, NEW x \in Worlds, Consistent(x), Clean(x),
         NEW d \in [Sockets -> Seq(Nat)], Sound(fits, n, x, d)
  PROVE  Sound(fits, n, DrainAll(x), d)
<1>1. CASE x.tree.drainable = << >>
  <2>1. DrainAll(x) = x
    BY <1>1 DEF DrainAll
  <2> QED
    BY <2>1
<1>2. CASE x.tree.drainable # << >>
  <2> DEFINE q == x.tree.drainable
             l == Len(q)
             Part(y, r) ==
               /\ Kept(x, y)
               /\ y.tree.palette = x.tree.palette
               /\ \A u \in Sockets : y.tree.indices[u] = x.tree.indices[u] \/ y.tree.indices[u] = << >>
               /\ \A i \in r : y.tree.indices[q[i]] = << >>
               /\ Sound(fits, n, y, d)
             T == [r \in SUBSET (1..l) |-> {y \in Worlds : Part(y, r)}]
  <2>1. q \in Seq(Sockets) /\ l \in Nat /\ DOMAIN q = 1..l
    <3>1. q \in Seq(Sockets)
      BY TreeHas
    <3> HIDE DEF q
    <3> QED
      BY <3>1
  <2>2. \A i \in 1..l : q[i] \in Sockets /\ x.ws[q[i]].closes = 0
    BY DrainableLives
  <2>3. \A u \in Sockets : x.tree.indices[u] # << >> => \E i \in 1..l : q[i] = u
    <3>1. Range(q) = {u \in Sockets : x.tree.indices[u] # << >>}
      BY DEF Consistent, ConsistentFor
    <3> HIDE DEF q
    <3> QED
      BY <2>1, <3>1 DEF Range
  <2>4. x \in T[{}]
    BY KeptNot
  <2>5. ASSUME NEW r \in SUBSET (1..l), r # {}, NEW y \in T[r \ {Max(r)}]
        PROVE  DrainImpl(y, q[Max(r)]) \in T[r]
    <3> DEFINE m == Max(r)
               s == q[m]
               z == DrainImpl(y, s)
    <3>1. m \in r /\ m \in 1..l
      BY <2>1, <2>5, GreatestExists
    <3>2. y \in Worlds /\ Part(y, r \ {m})
      BY <2>5
    <3> HIDE DEF m, q, l, T
    <3>3. s \in Sockets /\ y.ws[s].closes = 0
      BY <2>2, <3>1, <3>2 DEF Kept
    <3> HIDE DEF s
    <3>4. InPalette(y, s)
      <4>1. InPalette(x, s)
        BY <3>3 DEF Consistent, ConsistentFor
      <4>2. CASE y.tree.indices[s] = x.tree.indices[s]
        BY <3>2, <4>1, <4>2 DEF InPalette
      <4>3. CASE y.tree.indices[s] = << >>
        BY <4>3, NothingInPalette
      <4> QED
        BY <3>2, <3>3, <4>2, <4>3
    <3>5. /\ Touched(y, z, s)
          /\ z.tree.palette = y.tree.palette
          /\ z.tree.indices[s] = << >>
          /\ \A u \in Sockets \ {s} : z.tree.indices[u] = y.tree.indices[u]
      BY <3>2, <3>3, <3>4, BatchDrained
    <3>6. ~y.socket[s].closed
      <4>1. Clean(y)
        BY <3>2 DEF Kept
      <4> QED
        BY <3>3, <4>1, OpenIs
    <3> DEFINE due == d[s]
    <3>7. due \in Seq(Nat) /\ SoundAt(fits, n, y, s, due) /\ PaletteIsData(y)
      BY <3>2, <3>3 DEF Sound
    <3> HIDE DEF due
    <3>8. SoundAt(fits, n, z, s, due) /\ Aside(y, z, s)
      BY <3>2, <3>3, <3>4, <3>6, <3>7, BatchSound
    <3> HIDE DEF z
    <3>10. Kept(x, z)
      BY <3>2, <3>3, <3>5, TouchedIsKept, KeptTwice DEF Kept
    <3>11. \A u \in Sockets : z.tree.indices[u] = x.tree.indices[u] \/ z.tree.indices[u] = << >>
      BY <3>2, <3>5
    <3>12. ASSUME NEW i \in r PROVE z.tree.indices[q[i]] = << >>
      <4>1. i \in 1..l
        OBVIOUS
      <4>2. q[i] \in Sockets
        BY <2>2, <4>1
      <4>3. CASE q[i] = s
        BY <3>5, <4>3
      <4>4. CASE q[i] # s
        <5>1. i # m
          BY <4>4 DEF s
        <5> QED
          BY <3>2, <3>5, <4>2, <4>4, <5>1
      <4> QED
        BY <4>3, <4>4
    <3>13. PaletteStays(y, z)
      BY <3>5 DEF PaletteStays
    <3>16. ASSUME NEW u \in Sockets PROVE SoundAt(fits, n, z, u, d[u])
      <4>1. CASE u = s
        BY <3>8, <4>1 DEF due
      <4>2. CASE u # s
        <5> DEFINE e == d[u]
        <5>1. SoundAt(fits, n, y, u, e)
          BY <3>2 DEF Sound
        <5> HIDE DEF e
        <5>2. SoundAt(fits, n, z, u, e)
          BY <3>3, <3>5, <3>8, <4>2, <5>1, OthersSound
        <5> QED
          BY <5>2 DEF e
      <4> QED
        BY <4>1, <4>2
    <3>17. Sound(fits, n, z, d)
      BY <3>7, <3>13, <3>16, DataStays DEF Sound
    <3>18. Part(z, r) /\ z \in Worlds
      BY <3>2, <3>5, <3>10, <3>11, <3>12, <3>17 DEF Kept
    <3>19. z \in T[r]
      BY <3>18 DEF T
    <3> QED
      BY <3>19 DEF z, s, m
  <2> DEFINE y == FoldLeft(DrainImpl, x, q)
  <2>6. y \in T[1..l]
    <3> HIDE DEF q, l, T
    <3> QED
      BY <2>1, <2>4, <2>5, DrainFold
  <2>7. y \in Worlds /\ Part(y, 1..l)
    BY <2>6
  <2> DEFINE e == << >>
  <2>8. DrainAll(x) = [y EXCEPT !.tree.drainable = e, !.tree.palette = e]
    BY <1>2 DEF DrainAll
  <2> HIDE DEF q, l, y
  <2>9. \A u \in Sockets : y.tree.indices[u] = << >>
    BY <2>3, <2>7
  <2> DEFINE z == WithList(y, e, e)
  <2>10. e \in Seq(Sockets) /\ e \in Seq(Messages)
    OBVIOUS
  <2> HIDE DEF e
  <2>11. DrainAll(x) = z
    <3>1. [y EXCEPT !.tree.drainable = e, !.tree.palette = e] = z
      BY DEF WithList
    <3> QED
      BY <2>8, <3>1
  <2>12. /\ z \in Worlds
         /\ z.loop = y.loop /\ z.socket = y.socket /\ z.ws = y.ws
         /\ z.tree.topics = y.tree.topics
         /\ z.tree.indices = y.tree.indices /\ z.tree.palette = e
    BY <2>7, <2>10, ListPut
  <2> HIDE DEF z
  <2>13. SameStreams(y, z)
    BY <2>12, SocketsStay
  <2>14. PaletteStays(y, z)
    BY <2>9, <2>12 DEF PaletteStays, e
  <2>15. ASSUME NEW u \in Sockets PROVE SoundAt(fits, n, z, u, d[u])
    <3> DEFINE due == d[u]
    <3>1. SoundAt(fits, n, y, u, due)
      BY <2>7 DEF Sound
    <3>2. Waiting(z, u) = Waiting(y, u)
      BY <2>12, <2>14, WaitingStays
    <3>3. Stream(z, u) = Stream(y, u)
      BY <2>13 DEF SameStreams
    <3> HIDE DEF due
    <3>4. SoundAt(fits, n, z, u, due)
      BY <2>12, <3>1, <3>2, <3>3, SoundKept
    <3> QED
      BY <3>4 DEF due
  <2> QED
    BY <2>7, <2>11, <2>14, <2>15, DataStays DEF Sound
<1> QED
  BY <1>1, <1>2

-----------------------------------------------------------------------------
(* A message for several sockets. *)

(* A set put in an order has everyone.                                      *)
LEMMA OrderedSetCovers ==
  ASSUME NEW S, IsFiniteSet(S), NEW e \in S
  PROVE  \E i \in 1..Len(SetToSeq(S)) : SetToSeq(S)[i] = e
<1> DEFINE q == SetToSeq(S)
           n == Cardinality(S)
<1>1. q \in Seq(S) /\ Len(q) \in Nat /\ DOMAIN q = 1..Len(q) /\ IsInjective(q)
  BY OrderedSet
<1>2. n \in Nat /\ ExistsBijection(1..n, S)
  BY FS_CardinalityType
<1>3. \E f \in [1..n -> S] : IsInjective(f)
  <2> HIDE DEF n
  <2> QED
    BY <1>2 DEF ExistsBijection, Bijection, Injection
<1>4. q \in [1..n -> S]
  <2> DEFINE g == CHOOSE f \in [1..n -> S] : IsInjective(f)
  <2>1. g \in [1..n -> S]
    <3> HIDE DEF n
    <3> QED
      BY <1>3
  <2> QED
    BY <2>1 DEF SetToSeq
<1> HIDE DEF q, n
<1>5. q \in Injection(1..n, S)
  BY <1>1, <1>4 DEF Injection, IsInjective
<1>6. IsFiniteSet(1..n) /\ Cardinality(1..n) = n
  <2>1. 1 \in Int /\ n \in Int /\ (IF 1 > n THEN 0 ELSE n - 1 + 1) = n
    BY <1>2
  <2> QED
    BY <2>1, FS_Interval
<1>7. q \in Surjection(1..n, S)
  <2>1. Cardinality(1..n) = Cardinality(S)
    BY <1>6 DEF n
  <2> QED
    BY <1>5, <2>1, FS_Injection
<1>8. 1..Len(q) = 1..n
  BY <1>1, <1>4
<1> QED
  BY <1>7, <1>8 DEF Surjection, q

(* The world once a message is put in the palette.                          *)
WillHave(x, m) == WithList(x, x.tree.drainable, Append(x.tree.palette, m))

(* It has what the world had, and the message.                              *)
LEMMA WillIs ==
  ASSUME NEW x \in Worlds, NEW m \in Messages
  PROVE  LET y == WillHave(x, m)
         IN  /\ y \in Worlds
             /\ y.loop = x.loop /\ y.socket = x.socket /\ y.ws = x.ws
             /\ y.tree.topics = x.tree.topics /\ y.tree.indices = x.tree.indices
             /\ y.tree.palette = Append(x.tree.palette, m)
             /\ SameStreams(x, y)
<1> DEFINE q == x.tree.drainable
           p == Append(x.tree.palette, m)
           y == WithList(x, q, p)
<1>1. q \in Seq(Sockets) /\ p \in Seq(Messages)
  <2>1. x.tree.palette \in Seq(Messages) /\ q \in Seq(Sockets)
    BY TreeHas
  <2> QED
    BY <2>1
<1>2. WillHave(x, m) = y
  BY DEF WillHave
<1> HIDE DEF q, p
<1>3. /\ y \in Worlds
      /\ y.loop = x.loop /\ y.socket = x.socket /\ y.ws = x.ws
      /\ y.tree.topics = x.tree.topics /\ y.tree.indices = x.tree.indices
      /\ y.tree.palette = p
  BY <1>1, ListPut
<1> HIDE DEF y
<1>4. SameStreams(x, y)
  BY <1>3, SocketsStay
<1> QED
  BY <1>2, <1>3, <1>4 DEF p

(* Room for one more index, where indices are to fit.                       *)
Room(fits, x) == fits /\ Len(x.tree.palette) <= PaletteLimit

(* The message that comes next into the palette is parked for s.            *)
SoundNext(fits, n, x, s, m) ==
  x.tree.indices[s] # << >> /\ SoundAt(Room(fits, x), n, WillHave(x, m), s, << >>)

(* What waits for s is one more.                                            *)
LEMMA OneMoreWaits ==
  ASSUME NEW x \in Worlds, NEW y \in Worlds, NEW s \in Sockets, NEW m \in Messages, InPalette(x, s),
         y.tree.palette = Append(x.tree.palette, m),
         y.tree.indices[s] = Append(x.tree.indices[s], Len(x.tree.palette))
  PROVE  Waiting(y, s) = Waiting(x, s) \o <<m.id>>
<1> DEFINE c == x.tree.indices[s]
           p == x.tree.palette
           N == Len(p)
           l == Len(c)
           b == Append(c, N)
           r == Append(p, m)
           W == Waiting(x, s)
           V == Append(W, m.id)
<1>1. c \in Seq(Nat) /\ p \in Seq(Messages)
  BY TreeHas
<1>2. W \in Seq(Nat) /\ Len(W) = l /\ \A i \in 1..l : W[i] = p[c[i] + 1].id
  BY WaitingIs
<1>3. m.id \in Nat
  BY FrameHas
<1>4. \A i \in 1..l : c[i] < N
  BY DEF InPalette
<1>5. y.tree.indices[s] = b /\ y.tree.palette = r
  OBVIOUS
<1>6. Waiting(y, s) = [i \in 1..Len(b) |-> r[b[i] + 1].id]
  BY <1>5 DEF Waiting
<1> HIDE DEF W, c, p
<1>7. N \in Nat /\ l \in Nat
  BY <1>1, LenProperties
<1>8. Len(b) = l + 1 /\ (\A i \in 1..l : b[i] = c[i]) /\ b[l + 1] = N
  BY <1>1, <1>7, AppendProperties
<1>9. (\A i \in 1..N : r[i] = p[i]) /\ r[N + 1] = m
  BY <1>1, AppendProperties
<1>10. V \in Seq(Nat) /\ Len(V) = l + 1 /\ (\A i \in 1..l : V[i] = W[i]) /\ V[l + 1] = m.id
  BY <1>2, <1>3, AppendProperties
<1>11. V = W \o <<m.id>>
  BY <1>2, <1>3, AppendIsConcat
<1> HIDE DEF b, r, V, l, N
<1>12. ASSUME NEW i \in 1..l + 1 PROVE r[b[i] + 1].id = V[i]
  <2>1. CASE i = l + 1
    BY <1>7, <1>8, <1>9, <1>10, <2>1
  <2>2. CASE i # l + 1
    <3>1. i \in 1..l
      BY <1>7, <2>2
    <3>2. c[i] \in Nat
      BY <1>1, <3>1 DEF l
    <3>3. c[i] + 1 \in 1..N
      BY <1>4, <1>7, <3>1, <3>2
    <3>4. V[i] = p[c[i] + 1].id
      BY <1>2, <1>10, <3>1
    <3>5. r[c[i] + 1] = p[c[i] + 1]
      BY <1>9, <3>3
    <3>6. b[i] = c[i]
      BY <1>8, <3>1
    <3> QED
      BY <3>4, <3>5, <3>6
  <2> QED
    BY <2>1, <2>2
<1>13. V = [i \in 1..l + 1 |-> V[i]]
  BY <1>10, <1>7
<1>14. Waiting(y, s) = V
  BY <1>6, <1>8, <1>12, <1>13
<1> QED
  BY <1>11, <1>14 DEF W

(* Parked for s: with the message in the palette nothing more is due.       *)
LEMMA ParkSound ==
  ASSUME NEW fits, NEW n, NEW x \in Worlds, NEW s \in Sockets, NEW m \in Messages,
         InPalette(x, s), ~x.socket[s].closed, x.ws[s].subscriber,
         SoundAt(fits, n, x, s, <<m.id>>)
  PROVE  LET y == Park(x, s)
         IN  /\ Touched(x, y, s) /\ SoundNext(fits, n, y, s, m)
             /\ y.tree.palette = x.tree.palette
             /\ \A u \in Sockets \ {s} :
                  Stream(y, u) = Stream(x, u) /\ y.tree.indices[u] = x.tree.indices[u]
<1> DEFINE N == Len(x.tree.palette)
           k == N % (PaletteLimit + 1)
           c == x.tree.indices[s]
           b == Append(c, k)
           q == x.tree.drainable
           r == IF NeedsDrainage(x, s) THEN q ELSE <<s>> \o q
           y == WithBatch(x, s, b, r)
           due == <<m.id>>
<1>1. Park(x, s) = y
  BY DEF Park, WithBatch
<1>2. N \in Nat /\ k \in Nat
  BY NextIndex
<1>3. c \in Seq(Nat) /\ q \in Seq(Sockets)
  BY TreeHas
<1>4. N <= PaletteLimit => k = N
  <2> HIDE DEF N
  <2> QED
    BY <1>2, LimitsArePositive
<1>5. b \in Seq(Nat) /\ b # << >>
  <2>1. c \in Seq(Nat) /\ k \in Nat
    BY <1>2, <1>3
  <2> HIDE DEF c, k
  <2> QED
    BY <2>1, AppendProperties
<1>6. r \in Seq(Sockets)
  <2>1. CASE NeedsDrainage(x, s)
    BY <1>3, <2>1
  <2>2. CASE ~NeedsDrainage(x, s)
    <3> HIDE DEF q
    <3>1. <<s>> \in Seq(Sockets)
      OBVIOUS
    <3>2. <<s>> \o q \in Seq(Sockets)
      BY <1>3, <3>1, ConcatProperties
    <3> QED
      BY <2>2, <3>2
  <2> QED
    BY <2>1, <2>2
<1>7. y.socket = x.socket /\ y.loop = x.loop
  BY DEF WithBatch, Worlds
<1>8. due \in Seq(Nat) /\ SoundAt(fits, n, x, s, due)
  BY FrameHas
<1> HIDE DEF r, b, due
<1>9. /\ Touched(x, y, s) /\ y.ws = x.ws
      /\ y.tree.palette = x.tree.palette
      /\ y.tree.indices[s] = b
      /\ \A u \in Sockets \ {s} : y.tree.indices[u] = x.tree.indices[u]
  BY <1>5, <1>6, BatchPut
<1> HIDE DEF y
<1>10. y \in Worlds /\ SameStreams(x, y)
  BY <1>7, <1>9, SocketsStay DEF Touched
<1> DEFINE v == WillHave(y, m)
<1>11. /\ v \in Worlds
       /\ v.loop = y.loop /\ v.socket = y.socket /\ v.ws = y.ws
       /\ v.tree.topics = y.tree.topics /\ v.tree.indices = y.tree.indices
       /\ v.tree.palette = Append(y.tree.palette, m)
       /\ SameStreams(y, v)
  BY <1>10, WillIs
<1> HIDE DEF v
<1>12. Stream(v, s) = Stream(x, s) /\ ~v.socket[s].closed
  BY <1>7, <1>10, <1>11 DEF SameStreams
<1>13. N <= PaletteLimit => Waiting(v, s) = Waiting(x, s) \o due
  <2>1. ASSUME N <= PaletteLimit PROVE Waiting(v, s) = Waiting(x, s) \o <<m.id>>
    <3>1. v.tree.indices[s] = Append(x.tree.indices[s], Len(x.tree.palette))
      BY <1>4, <1>9, <1>11, <2>1 DEF b, c, N
    <3>2. v.tree.palette = Append(x.tree.palette, m)
      BY <1>9, <1>11
    <3> QED
      BY <1>11, <3>1, <3>2, OneMoreWaits
  <2> QED
    BY <2>1 DEF due
<1>14. FitAt(fits, n, x, s, due)
  BY <1>8 DEF SoundAt
<1> DEFINE none == << >>
           full == Room(fits, y)
<1>15. FitAt(full, n, v, s, none)
  <2>1. Fine(Stream(v, s))
    BY <1>12, <1>14 DEF FitAt
  <2>2. ASSUME full PROVE Settles(Account(v, s) \o none, n, v.ws[s])
    <3> DEFINE D == DataIds(Stream(x, s))
               W == Waiting(x, s)
    <3>1. fits /\ N <= PaletteLimit
      BY <1>9, <2>2 DEF Room
    <3>2. D \in Seq(Nat) /\ W \in Seq(Nat) /\ Account(x, s) = D \o W
      BY AccountIs DEF Account
    <3>3. Settles(Account(x, s) \o due, n, x.ws[s])
      BY <1>14, <3>1 DEF FitAt
    <3>4. Account(v, s) = D \o (W \o due)
      BY <1>12, <1>13, <3>1 DEF Account
    <3> HIDE DEF D, W, none
    <3>5. (D \o W) \o due = D \o (W \o due) /\ D \o (W \o due) \in Seq(Nat)
      BY <1>8, <3>2, IdsInARow
    <3>6. Account(v, s) \in Seq(Nat) /\ Account(v, s) = Account(x, s) \o due
      BY <3>2, <3>4, <3>5
    <3>7. Account(v, s) \o none = Account(v, s)
      BY <3>6, ConcatEmptySeq DEF none
    <3>8. v.ws[s] = x.ws[s]
      BY <1>9, <1>11
    <3> QED
      BY <3>3, <3>6, <3>7, <3>8
  <2> HIDE DEF full, none
  <2> QED
    BY <2>1, <2>2 DEF FitAt
<1>16. Enrolled(v, s)
  BY <1>9, <1>11 DEF Enrolled
<1>17. v.ws[s].closes = 0 => NoClose(Stream(v, s))
  BY <1>8, <1>9, <1>11, <1>12 DEF SoundAt
<1> HIDE DEF full, none
<1>18. SoundAt(full, n, v, s, none)
  BY <1>12, <1>15, <1>16, <1>17 DEF SoundAt
<1>19. SoundNext(fits, n, y, s, m)
  BY <1>5, <1>9, <1>18 DEF SoundNext, full, none, v
<1> QED
  BY <1>1, <1>9, <1>10, <1>19 DEF SameStreams

(* A full batch goes out before another message is parked.                  *)
LEMMA ParkForSound ==
  ASSUME NEW fits, NEW n, NEW x \in Worlds, NEW s \in Sockets, NEW m \in Messages,
         NEW P, s \notin P, ConsistentFor(x, P), Clean(x), x.ws[s].closes = 0,
         x.ws[s].subscriber, PaletteIsData(x), SoundAt(fits, n, x, s, <<m.id>>)
  PROVE  LET y == ParkFor(x, s)
         IN  /\ Touched(x, y, s) /\ Aside(x, y, s) /\ PaletteIsData(y)
             /\ SoundNext(fits, n, y, s, m)
             /\ \/ y.tree.palette = x.tree.palette
                \/ \A u \in Sockets \ {s} : y.tree.indices[u] = << >>
<1> DEFINE z == IF Len(x.tree.indices[s]) = BatchLimit THEN DrainOne(x, s) ELSE x
           due == <<m.id>>
<1>1. ~x.socket[s].closed
  BY OpenIs
<1>2. due \in Seq(Nat)
  BY FrameHas
<1>3. FitAt(fits, n, x, s, due) /\ NoClose(Stream(x, s)) /\ Enrolled(x, s)
  BY <1>1 DEF SoundAt
<1> HIDE DEF due
<1>4. /\ Touched(x, z, s) /\ ConsistentFor(z, P) /\ Aside(x, z, s) /\ PaletteStays(x, z)
      /\ SoundAt(fits, n, z, s, due)
  <2>1. CASE Len(x.tree.indices[s]) = BatchLimit
    <3>1. z = DrainOne(x, s)
      BY <2>1
    <3> HIDE DEF z
    <3>2. Touched(x, z, s) /\ ConsistentFor(z, P) /\ z.tree.indices[s] = << >>
      BY <3>1, DrainedOne
    <3>3. /\ FitAt(fits, n, z, s, due) /\ NoClose(Stream(z, s))
          /\ Aside(x, z, s) /\ PaletteStays(x, z)
      BY <1>1, <1>2, <1>3, <3>1, DrainedOneFits
    <3>4. SoundAt(fits, n, z, s, due)
      BY <1>3, <3>2, <3>3, TouchedSound
    <3> QED
      BY <3>2, <3>3, <3>4
  <2>2. CASE Len(x.tree.indices[s]) # BatchLimit
    <3>1. z = x
      BY <2>2
    <3>2. SoundAt(fits, n, x, s, due)
      BY DEF due
    <3> QED
      BY <3>1, <3>2, TouchedNot DEF Aside, PaletteStays
  <2> QED
    BY <2>1, <2>2
<1>5. ParkFor(x, s) = Park(z, s)
  BY DEF ParkFor
<1> HIDE DEF z
<1>6. /\ z \in Worlds /\ z.ws[s].subscriber /\ ~z.socket[s].closed /\ InPalette(z, s)
      /\ PaletteIsData(z)
  BY <1>1, <1>4, DataStays DEF Touched, SameLife, ConsistentFor
<1> DEFINE y == Park(z, s)
<1>7. /\ Touched(z, y, s) /\ SoundNext(fits, n, y, s, m)
      /\ y.tree.palette = z.tree.palette
      /\ \A u \in Sockets \ {s} :
           Stream(y, u) = Stream(z, u) /\ y.tree.indices[u] = z.tree.indices[u]
  BY <1>4, <1>6, ParkSound DEF due
<1> HIDE DEF y
<1>8. Aside(x, y, s)
  <2>1. ASSUME NEW u \in Sockets \ {s} PROVE Waiting(y, u) = Waiting(z, u)
    <3>1. PaletteStays(z, y)
      BY <1>7 DEF PaletteStays
    <3> QED
      BY <1>7, <2>1, <3>1, WaitingStays
  <2>2. Aside(z, y, s)
    BY <1>7, <2>1 DEF Aside, Touched
  <2> QED
    BY <1>4, <2>2, AsideTwice
<1>9. Touched(x, y, s)
  BY <1>4, <1>7, TouchedTwice
<1>10. PaletteIsData(y)
  BY <1>6, <1>7 DEF PaletteIsData
<1>11. \/ y.tree.palette = x.tree.palette
       \/ \A u \in Sockets \ {s} : y.tree.indices[u] = << >>
  BY <1>4, <1>7 DEF PaletteStays
<1> QED
  BY <1>5, <1>7, <1>8, <1>9, <1>10, <1>11 DEF y

(* A call on s leaves what is parked next for u.                            *)
LEMMA NextStays ==
  ASSUME NEW fits, NEW n, NEW x \in Worlds, NEW y, NEW s \in Sockets, NEW u \in Sockets \ {s},
         NEW m \in Messages, Touched(x, y, s), Aside(x, y, s),
         y.tree.palette = x.tree.palette \/ y.tree.indices[u] = << >>,
         SoundNext(fits, n, x, u, m)
  PROVE  SoundNext(fits, n, y, u, m)
<1> DEFINE v == WillHave(x, m)
           w == WillHave(y, m)
           full == Room(fits, x)
           none == << >>
<1>1. SoundAt(full, n, v, u, none) /\ x.tree.indices[u] # << >>
  BY DEF SoundNext
<1>2. y \in Worlds /\ y.tree.indices[u] = x.tree.indices[u] /\ y.tree.palette = x.tree.palette
  BY <1>1 DEF Touched, Aside
<1>3. Room(fits, y) = full
  BY <1>2 DEF Room
<1>4. /\ v.loop = x.loop /\ v.socket = x.socket /\ v.ws = x.ws
      /\ v.tree.topics = x.tree.topics /\ v.tree.indices = x.tree.indices
      /\ v.tree.palette = Append(x.tree.palette, m)
      /\ SameStreams(x, v)
  BY WillIs
<1>5. /\ w.loop = y.loop /\ w.socket = y.socket /\ w.ws = y.ws
      /\ w.tree.topics = y.tree.topics /\ w.tree.indices = y.tree.indices
      /\ w.tree.palette = Append(y.tree.palette, m)
      /\ SameStreams(y, w)
  BY <1>2, WillIs
<1> HIDE DEF v, w, full, none
<1>6. Stream(w, u) = Stream(v, u)
  BY <1>4, <1>5 DEF SameStreams, Aside
<1>7. w.tree.indices[u] = v.tree.indices[u] /\ Waiting(w, u) = Waiting(v, u)
  BY <1>2, <1>4, <1>5 DEF Waiting
<1>8. w.tree.topics = v.tree.topics /\ w.ws[u] = v.ws[u] /\ w.socket[u].closed = v.socket[u].closed
  BY <1>4, <1>5 DEF Touched
<1>9. SoundAt(full, n, w, u, none)
  BY <1>1, <1>6, <1>7, <1>8, SoundKept
<1> QED
  BY <1>1, <1>2, <1>3, <1>9 DEF SoundNext, w, none

(* Parked next for those of P; due to the others.                           *)
Partly(fits, n, x, m, d, P) ==
  /\ PaletteIsData(x)
  /\ \A u \in Sockets : u \in P => SoundNext(fits, n, x, u, m)
  /\ \A u \in Sockets : u \notin P => SoundAt(fits, n, x, u, d[u])

(* One reader more.                                                         *)
LEMMA OneMoreParked ==
  ASSUME NEW fits, NEW n, NEW x \in Worlds, NEW s \in Sockets, NEW m \in Messages,
         NEW P, s \notin P, ConsistentFor(x, P), Clean(x), x.ws[s].closes = 0,
         NEW t \in Topics, s \in x.tree.topics[t],
         NEW d \in [Sockets -> Seq(Nat)], d[s] = <<m.id>>, Partly(fits, n, x, m, d, P)
  PROVE  Partly(fits, n, ParkFor(x, s), m, d, P \cup {s})
<1> DEFINE y == ParkFor(x, s)
<1>1. PaletteIsData(x) /\ SoundAt(fits, n, x, s, <<m.id>>)
  BY DEF Partly
<1>2. x.ws[s].subscriber
  BY <1>1 DEF SoundAt, Enrolled
<1>3. /\ Touched(x, y, s) /\ Aside(x, y, s) /\ PaletteIsData(y)
      /\ SoundNext(fits, n, y, s, m)
      /\ \/ y.tree.palette = x.tree.palette
         \/ \A u \in Sockets \ {s} : y.tree.indices[u] = << >>
  BY <1>1, <1>2, ParkForSound
<1> HIDE DEF y
<1>4. ASSUME NEW u \in Sockets, u \in P \cup {s} PROVE SoundNext(fits, n, y, u, m)
  <2>1. CASE u = s
    BY <1>3, <2>1
  <2>2. CASE u # s
    <3>1. SoundNext(fits, n, x, u, m)
      BY <1>4, <2>2 DEF Partly
    <3> QED
      BY <1>3, <2>2, <3>1, NextStays
  <2> QED
    BY <2>1, <2>2
<1>5. ASSUME NEW u \in Sockets, u \notin P \cup {s} PROVE SoundAt(fits, n, y, u, d[u])
  <2> DEFINE due == d[u]
  <2>1. u # s /\ SoundAt(fits, n, x, u, due)
    BY <1>5 DEF Partly
  <2> HIDE DEF due
  <2>2. SoundAt(fits, n, y, u, due)
    BY <1>3, <2>1, OthersSound
  <2> QED
    BY <2>2 DEF due
<1> QED
  BY <1>3, <1>4, <1>5 DEF Partly, y

(* What waits does not change when the palette grows.                       *)
LEMMA WillWait ==
  ASSUME NEW x \in Worlds, NEW s \in Sockets, NEW m \in Messages, InPalette(x, s)
  PROVE  Waiting(WillHave(x, m), s) = Waiting(x, s)
<1> DEFINE y == WillHave(x, m)
           c == x.tree.indices[s]
           p == x.tree.palette
           r == Append(p, m)
<1>1. y.tree.indices[s] = c /\ y.tree.palette = r
  BY WillIs
<1>2. c \in Seq(Nat) /\ p \in Seq(Messages)
  BY TreeHas
<1>3. \A i \in 1..Len(c) : c[i] < Len(p)
  BY DEF InPalette
<1>4. Waiting(x, s) = [i \in 1..Len(c) |-> p[c[i] + 1].id]
  BY DEF Waiting
<1> HIDE DEF c, p, y
<1>5. Waiting(y, s) = [i \in 1..Len(c) |-> r[c[i] + 1].id]
  BY <1>1 DEF Waiting
<1>6. \A i \in 1..Len(p) : r[i] = p[i]
  BY <1>2, AppendProperties
<1> HIDE DEF r
<1>7. ASSUME NEW i \in 1..Len(c) PROVE r[c[i] + 1] = p[c[i] + 1]
  <2>1. c[i] \in Nat /\ Len(p) \in Nat
    BY <1>2
  <2>2. c[i] + 1 \in 1..Len(p)
    BY <1>3, <2>1
  <2> QED
    BY <1>6, <2>2
<1> QED
  BY <1>4, <1>5, <1>7 DEF y

(* Less is said where indices need not fit.                                 *)
LEMMA SoundUnless ==
  ASSUME NEW fits, NEW full, full => fits, NEW n, NEW x, NEW s, NEW due,
         SoundAt(fits, n, x, s, due)
  PROVE  SoundAt(full, n, x, s, due)
BY DEF SoundAt, FitAt

(* What a message is to its readers, and nothing for anybody.               *)
Dues(readers, m) == [s \in Sockets |-> IF s \in readers THEN <<m.id>> ELSE << >>]
NoDues == [s \in Sockets |-> << >>]

(* They are ids.                                                            *)
LEMMA DuesAre ==
  ASSUME NEW readers, NEW m \in Messages
  PROVE  /\ Dues(readers, m) \in [Sockets -> Seq(Nat)]
         /\ NoDues \in [Sockets -> Seq(Nat)]
         /\ \A s \in Sockets : NoDues[s] = << >>
         /\ \A s \in Sockets : s \in readers => Dues(readers, m)[s] = <<m.id>>
         /\ \A s \in Sockets : s \notin readers => Dues(readers, m)[s] = << >>
<1>1. m.id \in Nat
  BY FrameHas
<1>2. <<m.id>> \in Seq(Nat) /\ << >> \in Seq(Nat)
  BY <1>1
<1> QED
  BY <1>2 DEF Dues, NoDues

(* The indices of the palette fit so far.                                   *)
Held(fits, x) == fits /\ Len(x.tree.palette) <= PaletteLimit + 1

(* A message that was parked for all who read it gets into the palette.     *)
LEMMA PutSound ==
  ASSUME NEW fits, NEW n, NEW x \in Worlds, NEW m \in Messages, m.op = "data",
         NEW P, ConsistentFor(x, P), NEW d \in [Sockets -> Seq(Nat)],
         \A u \in Sockets : u \notin P => d[u] = << >>, Partly(fits, n, x, m, d, P)
  PROVE  LET y == WillHave(x, m)
         IN  Sound(Held(fits, y), n, y, NoDues)
<1> DEFINE y == WillHave(x, m)
           full == Held(fits, y)
           room == Room(fits, x)
           none == << >>
           p == x.tree.palette
<1>1. /\ y.loop = x.loop /\ y.socket = x.socket /\ y.ws = x.ws
      /\ y.tree.topics = x.tree.topics /\ y.tree.indices = x.tree.indices
      /\ y.tree.palette = Append(x.tree.palette, m)
      /\ SameStreams(x, y)
  BY WillIs
<1>2. p \in Seq(Messages)
  BY TreeHas
<1>3. /\ Len(Append(p, m)) = Len(p) + 1 /\ Len(p) \in Nat
      /\ \A i \in 1..Len(p) : Append(p, m)[i] = p[i]
      /\ Append(p, m)[Len(p) + 1] = m
  <2> HIDE DEF p
  <2> QED
    BY <1>2, AppendProperties, LenProperties
<1>4. full => room
  <2>1. Len(y.tree.palette) = Len(x.tree.palette) + 1
    BY <1>1, <1>3
  <2> HIDE DEF y
  <2> QED
    BY <1>3, <2>1, LimitsArePositive DEF Held, Room
<1>5. full => fits
  BY DEF Held
<1> HIDE DEF y, full, room, none
<1>6. PaletteIsData(y)
  <2>1. ASSUME NEW i \in 1..Len(p) + 1 PROVE Append(p, m)[i].op = "data"
    <3>1. CASE i = Len(p) + 1
      BY <1>3, <3>1
    <3>2. CASE i # Len(p) + 1
      <4>1. i \in 1..Len(p)
        BY <1>3, <3>2
      <4>2. p[i].op = "data"
        BY <4>1 DEF Partly, PaletteIsData
      <4> QED
        BY <1>3, <4>1, <4>2
    <3> QED
      BY <3>1, <3>2
  <2> QED
    BY <1>1, <1>3, <2>1 DEF PaletteIsData
<1>7. ASSUME NEW u \in Sockets PROVE SoundAt(full, n, y, u, none)
  <2>1. CASE u \in P
    <3>1. SoundAt(room, n, y, u, none)
      BY <2>1 DEF Partly, SoundNext, room, y, none
    <3> QED
      BY <1>4, <3>1, SoundUnless
  <2>2. CASE u \notin P
    <3>1. SoundAt(fits, n, x, u, none)
      BY <2>2 DEF Partly, none
    <3>2. InPalette(x, u)
      BY <2>2 DEF ConsistentFor
    <3>3. Waiting(y, u) = Waiting(x, u)
      BY <3>2, WillWait DEF y
    <3>4. Stream(y, u) = Stream(x, u)
      BY <1>1 DEF SameStreams
    <3>5. SoundAt(fits, n, y, u, none)
      BY <1>1, <3>1, <3>3, <3>4, SoundKept
    <3> QED
      BY <1>5, <3>5, SoundUnless
  <2> QED
    BY <2>1, <2>2
<1>8. \A u \in Sockets : NoDues[u] = none
  BY DuesAre DEF none
<1>9. Sound(full, n, y, NoDues)
  BY <1>6, <1>7, <1>8 DEF Sound
<1> QED
  BY <1>9 DEF full, y

(* Without dues, and less said of the indices.                              *)
LEMMA SoundHeld ==
  ASSUME NEW fits, NEW n, NEW x, NEW d, \A u \in Sockets : d[u] = << >>, Sound(fits, n, x, d)
  PROVE  Sound(Held(fits, x), n, x, NoDues)
<1> DEFINE full == Held(fits, x)
           none == << >>
<1>1. full => fits
  BY DEF Held
<1>2. \A u \in Sockets : NoDues[u] = none /\ d[u] = none
  BY DEF NoDues
<1> HIDE DEF full, none
<1>3. ASSUME NEW u \in Sockets PROVE SoundAt(full, n, x, u, none)
  <2>1. SoundAt(fits, n, x, u, none)
    BY <1>2 DEF Sound
  <2> QED
    BY <1>1, <2>1, SoundUnless
<1>4. Sound(full, n, x, NoDues)
  BY <1>2, <1>3 DEF Sound
<1> QED
  BY <1>4 DEF full

(* publish: what was due to the readers is parked.                          *)
LEMMA TreePublishedSound ==
  ASSUME NEW fits, NEW n, NEW x \in Worlds, Consistent(x), Clean(x), NEW sender, NEW t \in Topics,
         NEW message \in Messages, message.op = "data",
         NEW d, d = Dues(x.tree.topics[t] \ {sender}, message), Sound(fits, n, x, d)
  PROVE  LET y == TreePublish(x, sender, t, message)
         IN  Sound(Held(fits, y), n, y, NoDues)
<1> DEFINE z == MakeRoom(x)
           readers == x.tree.topics[t] \ {sender}
<1>1. Kept(x, z) /\ Consistent(z)
  BY DrainedAll, KeptNot DEF MakeRoom
<1>2. /\ d \in [Sockets -> Seq(Nat)]
      /\ \A s \in Sockets : s \in readers => d[s] = <<message.id>>
      /\ \A s \in Sockets : s \notin readers => d[s] = << >>
  <2> DEFINE e == Dues(readers, message)
  <2>1. d = e
    OBVIOUS
  <2>2. /\ e \in [Sockets -> Seq(Nat)]
        /\ \A s \in Sockets : s \in readers => e[s] = <<message.id>>
        /\ \A s \in Sockets : s \notin readers => e[s] = << >>
    <3> HIDE DEF readers
    <3> QED
      BY DuesAre
  <2> HIDE DEF e, readers
  <2> QED
    BY <2>1, <2>2
<1>3. Sound(fits, n, z, d)
  BY <1>2, DrainedAllSound DEF MakeRoom
<1>4. CASE x.tree.topics[t] = {} \/ x.tree.topics[t] \subseteq {sender}
  <2> DEFINE y == TreePublish(x, sender, t, message)
  <2>1. y \in {x, z}
    BY <1>4 DEF TreePublish
  <2>2. readers = {}
    BY <1>4
  <2>3. \A s \in Sockets : d[s] = << >>
    BY <1>2, <2>2
  <2> HIDE DEF y, z
  <2>4. Sound(fits, n, y, d)
    BY <1>3, <2>1
  <2>5. Sound(Held(fits, y), n, y, NoDues)
    BY <2>3, <2>4, SoundHeld
  <2> QED
    BY <2>5 DEF y
<1>5. CASE ~(x.tree.topics[t] = {} \/ x.tree.topics[t] \subseteq {sender})
  <2> DEFINE q == Readers(x, sender, t)
             l == Len(q)
             Those(r) == {q[i] : i \in r}
             T == [r \in SUBSET (1..l) |->
                     {y \in Worlds : /\ Kept(z, y) /\ ConsistentFor(y, Those(r))
                                     /\ Partly(fits, n, y, message, d, Those(r))}]
             w == FoldLeft(ParkFor, z, q)
  <2>1. /\ l \in Nat /\ DOMAIN q = 1..l /\ IsInjective(q)
        /\ \A i \in 1..l : q[i] \in Sockets /\ x.ws[q[i]].closes = 0
    BY ReadersAre
  <2>2. IsFiniteSet(readers) /\ readers \subseteq Sockets
    <3>1. readers \subseteq Sockets
      BY TreeHas
    <3> QED
      BY <3>1, PubSubAssumption, FS_Subset
  <2>3. \A i \in 1..l : q[i] \in readers
    <3>1. q = SetToSeq(readers)
      BY DEF Readers
    <3> HIDE DEF q, readers
    <3>2. q \in Seq(readers)
      BY <2>2, <3>1, OrderedSet
    <3> QED
      BY <2>1, <3>2
  <2>4. \A u \in readers : \E i \in 1..l : q[i] = u
    <3>1. q = SetToSeq(readers)
      BY DEF Readers
    <3> HIDE DEF q, readers
    <3> QED
      BY <2>2, <3>1, OrderedSetCovers
  <2>5. TreePublish(x, sender, t, message) = [w EXCEPT !.tree.palette = Append(@, message)]
    BY <1>5 DEF TreePublish
  <2>6. \A u \in readers : u \in z.tree.topics[t]
    BY <1>1 DEF Kept
  <2> HIDE DEF z, q, l, readers
  <2>7. z \in T[{}]
    <3>1. Those({}) = {}
      OBVIOUS
    <3>2. Kept(z, z) /\ z \in Worlds
      BY <1>1, KeptNot DEF Kept
    <3> HIDE DEF Those
    <3>3. ConsistentFor(z, Those({}))
      BY <1>1, <3>1 DEF Consistent
    <3>4. Partly(fits, n, z, message, d, Those({}))
      BY <1>3, <3>1 DEF Partly, Sound
    <3> QED
      BY <3>2, <3>3, <3>4
  <2>8. ASSUME NEW r \in SUBSET (1..l), r # {}, NEW y \in T[r \ {Max(r)}]
        PROVE  ParkFor(y, q[Max(r)]) \in T[r]
    <3> DEFINE m == Max(r)
               s == q[m]
               v == ParkFor(y, s)
               P == Those(r \ {m})
    <3>1. m \in r /\ m \in 1..l
      BY <2>1, <2>8, GreatestExists
    <3>2. /\ y \in Worlds /\ Kept(z, y) /\ ConsistentFor(y, P)
          /\ Partly(fits, n, y, message, d, P)
      BY <2>8
    <3> HIDE DEF m, T
    <3>3. s \in Sockets /\ y.ws[s].closes = 0
      BY <1>1, <2>1, <3>1, <3>2 DEF Kept
    <3>4. s \notin P
      BY <2>1, <3>1 DEF IsInjective
    <3>5. P \cup {s} = Those(r)
      BY <3>1
    <3>6. s \in readers
      BY <2>3, <3>1
    <3>7. s \in y.tree.topics[t] /\ d[s] = <<message.id>>
      BY <1>2, <2>6, <3>2, <3>3, <3>6 DEF Kept
    <3> HIDE DEF s, P, Those
    <3>8. Clean(y)
      BY <3>2 DEF Kept
    <3>9. Kept(y, v) /\ ConsistentFor(v, P \cup {s})
      BY <3>2, <3>3, <3>4, <3>8, ParkedFor
    <3>10. Partly(fits, n, v, message, d, P \cup {s})
      BY <1>2, <3>2, <3>3, <3>4, <3>7, <3>8, OneMoreParked
    <3> HIDE DEF v
    <3>11. Kept(z, v) /\ ConsistentFor(v, Those(r)) /\ v \in Worlds
      BY <3>2, <3>5, <3>9, KeptTwice DEF Kept
    <3>12. v \in T[r]
      BY <3>5, <3>10, <3>11 DEF T
    <3> QED
      BY <3>12 DEF v, s, m
  <2>9. w \in T[1..l]
    <3> HIDE DEF T
    <3> QED
      BY <2>1, <2>7, <2>8, ParkFold
  <2> DEFINE P == Those(1..l)
  <2>10. w \in Worlds /\ ConsistentFor(w, P) /\ Partly(fits, n, w, message, d, P)
    BY <2>9
  <2>11. \A u \in Sockets : u \notin P => d[u] = << >>
    <3>1. \A u \in readers : u \in P
      BY <2>4
    <3> HIDE DEF P
    <3> QED
      BY <1>2, <3>1
  <2> HIDE DEF w, Those, P, T
  <2> DEFINE y == WillHave(w, message)
  <2>12. Sound(Held(fits, y), n, y, NoDues)
    BY <1>2, <2>10, <2>11, PutSound
  <2>13. TreePublish(x, sender, t, message) = y
    <3> DEFINE p == Append(w.tree.palette, message)
    <3>1. [w EXCEPT !.tree.palette = Append(@, message)] = [w EXCEPT !.tree.palette = p]
      OBVIOUS
    <3>2. y = WithList(w, w.tree.drainable, p)
      BY DEF WillHave
    <3> HIDE DEF p, y
    <3>3. [w EXCEPT !.tree.palette = p] = WithList(w, w.tree.drainable, p)
      BY <2>10, ListIs
    <3> QED
      BY <2>5, <3>1, <3>2, <3>3
  <2> HIDE DEF y
  <2> QED
    BY <2>12, <2>13
<1> QED
  BY <1>4, <1>5

-----------------------------------------------------------------------------
(* What the application sends. *)

(* One id more is owed.                                                     *)
Owes(k, r, id) ==
  /\ r.owed = Append(k.owed, id)
  /\ r.lossy = k.lossy /\ r.subscriber = k.subscriber /\ r.closes = k.closes

(* The number of the next message grows.                                    *)
LEMMA SoundLater ==
  ASSUME NEW fits, NEW n \in Nat, NEW x \in Worlds, NEW s \in Sockets, InPalette(x, s),
         SoundAt(fits, n, x, s, << >>)
  PROVE  SoundAt(fits, n + 1, x, s, << >>)
<1> DEFINE none == << >>
           a == Account(x, s)
<1>1. a \in Seq(Nat)
  BY AccountIs
<1>2. SoundAt(fits, n, x, s, none)
  OBVIOUS
<1>3. a \o none = a
  <2> HIDE DEF a
  <2> QED
    BY <1>1, ConcatEmptySeq
<1> HIDE DEF none
<1>4. ASSUME FitAt(fits, n, x, s, none) PROVE FitAt(fits, n + 1, x, s, none)
  <2>1. Fine(Stream(x, s)) /\ (fits => Settles(a, n, x.ws[s]))
    BY <1>3, <1>4 DEF FitAt
  <2> HIDE DEF a
  <2>2. Ordered(a, n) => Ordered(a, n + 1)
    BY <1>1, NextOrdered
  <2>3. fits => Settles(a, n + 1, x.ws[s])
    BY <2>1, <2>2 DEF Settles
  <2> QED
    BY <1>3, <2>1, <2>3 DEF FitAt, a
<1>5. SoundAt(fits, n + 1, x, s, none)
  BY <1>2, <1>4 DEF SoundAt
<1> QED
  BY <1>5 DEF none

(* A message that is owed to s is due.                                      *)
LEMMA SoundOwes ==
  ASSUME NEW fits, NEW n \in Nat, NEW x \in Worlds, NEW y, NEW s \in Sockets, InPalette(x, s),
         SoundAt(fits, n, x, s, << >>), Stream(y, s) = Stream(x, s),
         y.tree = x.tree, y.socket[s].closed = x.socket[s].closed, Owes(x.ws[s], y.ws[s], n)
  PROVE  SoundAt(fits, n + 1, y, s, <<n>>)
<1> DEFINE none == << >>
           due == <<n>>
           a == Account(x, s)
           k == x.ws[s]
           r == y.ws[s]
<1>1. a \in Seq(Nat)
  BY AccountIs
<1>2. SoundAt(fits, n, x, s, none)
  OBVIOUS
<1>3. a \o none = a
  <2> HIDE DEF a
  <2> QED
    BY <1>1, ConcatEmptySeq
<1>4. Account(y, s) = a
  BY DEF Account, Waiting
<1>5. Append(a, n) = a \o due
  <2> HIDE DEF a
  <2> QED
    BY <1>1, AppendIsConcat
<1>6. Ordered(a, n) => Ordered(a \o due, n + 1)
  <2> HIDE DEF a
  <2> QED
    BY <1>1, NextOrdered
<1> HIDE DEF none, due, a
<1>7. ASSUME FitAt(fits, n, x, s, none) PROVE FitAt(fits, n + 1, y, s, due)
  <2>1. Fine(Stream(y, s)) /\ (fits => Settles(a, n, k))
    BY <1>3, <1>7 DEF FitAt, a
  <2>2. Settles(a, n, k) => Settles(a \o due, n + 1, r)
    <3> HIDE DEF k, r
    <3>1. Owes(k, r, n)
      BY DEF k, r
    <3> QED
      BY <1>5, <1>6, <3>1 DEF Settles, Owes
  <2> QED
    BY <1>4, <2>1, <2>2 DEF FitAt
<1>8. Enrolled(y, s)
  BY <1>2 DEF SoundAt, Enrolled, Owes
<1>9. SoundAt(fits, n + 1, y, s, due)
  BY <1>2, <1>7, <1>8 DEF SoundAt, Owes
<1> QED
  BY <1>9 DEF due

(* send of the application: the message is on its way, or was dropped.      *)
LEMMA SendOwedSound ==
  ASSUME NEW fits, NEW x \in Worlds, NEW s \in Sockets, NEW m \in Messages, m.op = "data",
         Consistent(x), Clean(x), x.ws[s].closes = 0, PaletteIsData(x),
         SoundAt(fits, m.id, x, s, << >>)
  PROVE  LET y == SendOwed(x, s, m)
         IN  /\ SoundAt(fits, m.id + 1, y, s, << >>)
             /\ Touched(x, y, s) /\ Aside(x, y, s) /\ PaletteIsData(y) /\ Consistent(y)
<1> DEFINE z == Owe(x, s, m)
           y == Send(z, s, m).x
           n == m.id
           none == << >>
<1>1. SendOwed(x, s, m) = y
  BY DEF SendOwed
<1>2. Messaged(x, z, s) /\ z.loop = x.loop
  BY Owed
<1>3. z.tree = x.tree /\ z.socket = x.socket
  BY DEF Owe, Worlds
<1>4. Owes(x.ws[s], z.ws[s], n)
  <2> DEFINE k == x.ws[s]
             o == Append(k.owed, n)
             r == [k EXCEPT !.owed = o]
  <2>1. z = WithWs(x, s, r)
    BY DEF Owe, WithWs
  <2>2. k \in WsData
    BY WsIs
  <2>3. o \in Seq(Nat)
    <3>1. k.owed \in Seq(Nat) /\ n \in Nat
      BY <2>2, FrameHas DEF WsData
    <3> QED
      BY <3>1
  <2> HIDE DEF o
  <2>4. r \in WsData /\ r.owed = o /\ r.lossy = k.lossy /\ r.subscriber = k.subscriber /\ r.closes = k.closes
    <3> HIDE DEF k
    <3> QED
      BY <2>2, <2>3 DEF WsData
  <2> HIDE DEF r, z
  <2>5. z.ws[s] = r
    BY <2>1, <2>4, WsPut
  <2> HIDE DEF k
  <2> QED
    BY <2>4, <2>5 DEF Owes, o, k
<1>5. n \in Nat /\ InPalette(x, s) /\ ~x.socket[s].closed
  BY FrameHas, OpenIs DEF Consistent, ConsistentFor
<1> HIDE DEF z, y
<1>6. SameStreams(x, z)
  BY <1>2, <1>3, SocketsStay
<1>7. SoundAt(fits, n + 1, z, s, <<n>>)
  BY <1>3, <1>4, <1>5, <1>6, SoundOwes DEF SameStreams
<1>8. /\ z \in Worlds /\ Consistent(z) /\ ~z.socket[s].closed /\ z.ws[s].closes = 0
      /\ PaletteIsData(z)
  BY <1>2, <1>3, <1>4, <1>5, ConsistentMessaged DEF Consistent, Messaged, Owes, PaletteIsData
<1>9. Touched(x, z, s)
  BY <1>2, MessagedIsTouched DEF Released
<1>10. Aside(x, z, s)
  BY <1>3, <1>6, <1>9 DEF Aside, SameStreams, Waiting, Touched
<1>11. <<n>> = IdsOf(m) \o none
  <2>1. <<n>> \in Seq(Nat)
    BY <1>5
  <2> QED
    BY <2>1, ConcatEmptySeq DEF IdsOf
<1>12. none \in Seq(Nat)
  OBVIOUS
<1> HIDE DEF n, none
<1> DEFINE later == n + 1
<1>13. FitAt(fits, later, z, s, IdsOf(m) \o none) /\ NoClose(Stream(z, s)) /\ Enrolled(z, s)
  BY <1>7, <1>8, <1>11 DEF SoundAt
<1> HIDE DEF later
<1>14. /\ FitAt(fits, later, y, s, none) /\ NoClose(Stream(y, s))
       /\ Aside(z, y, s) /\ PaletteStays(z, y)
       /\ y.tree.indices[s] \in {z.tree.indices[s], << >>}
  BY <1>8, <1>12, <1>13, SendFits DEF y
<1>15. Touched(z, y, s) /\ Consistent(y)
  BY <1>8, SendTouches DEF y
<1>16. SoundAt(fits, later, y, s, none)
  BY <1>13, <1>14, <1>15, TouchedSound
<1>17. Touched(x, y, s) /\ Aside(x, y, s) /\ PaletteIsData(y)
  BY <1>8, <1>9, <1>10, <1>14, <1>15, TouchedTwice, AsideTwice, DataStays
<1> QED
  BY <1>1, <1>15, <1>16, <1>17 DEF n, later, none

(* Those of P have been sent the message with the next number.              *)
SentTo(fits, x, m, P) ==
  /\ PaletteIsData(x)
  /\ \A u \in Sockets : u \in P => SoundAt(fits, m.id + 1, x, u, << >>)
  /\ \A u \in Sockets : u \notin P => SoundAt(fits, m.id, x, u, << >>)

(* One more of them.                                                        *)
LEMMA OneMoreSent ==
  ASSUME NEW fits, NEW x \in Worlds, NEW s \in Sockets, NEW m \in Messages, m.op = "data",
         Consistent(x), Clean(x), x.ws[s].closes = 0, NEW P, s \notin P, SentTo(fits, x, m, P)
  PROVE  SentTo(fits, SendOwed(x, s, m), m, P \cup {s})
<1> DEFINE y == SendOwed(x, s, m)
           none == << >>
           n == m.id
           later == n + 1
<1>1. PaletteIsData(x) /\ SoundAt(fits, m.id, x, s, << >>)
  BY DEF SentTo
<1>2. /\ SoundAt(fits, m.id + 1, y, s, << >>)
      /\ Touched(x, y, s) /\ Aside(x, y, s) /\ PaletteIsData(y)
  BY <1>1, SendOwedSound
<1>3. /\ \A u \in Sockets : u \in P => SoundAt(fits, later, x, u, none)
      /\ \A u \in Sockets : u \notin P => SoundAt(fits, n, x, u, none)
      /\ SoundAt(fits, later, y, s, none)
  BY <1>2 DEF SentTo
<1> HIDE DEF y, none, n, later
<1>4. ASSUME NEW u \in Sockets, u \in P \cup {s} PROVE SoundAt(fits, later, y, u, none)
  <2>1. CASE u = s
    BY <1>3, <2>1
  <2>2. CASE u # s
    <3>1. SoundAt(fits, later, x, u, none)
      BY <1>3, <1>4, <2>2
    <3> QED
      BY <1>2, <2>2, <3>1, OthersSound
  <2> QED
    BY <2>1, <2>2
<1>5. ASSUME NEW u \in Sockets, u \notin P \cup {s} PROVE SoundAt(fits, n, y, u, none)
  <2>1. u # s /\ SoundAt(fits, n, x, u, none)
    BY <1>3, <1>5
  <2> QED
    BY <1>2, <2>1, OthersSound
<1> QED
  BY <1>2, <1>4, <1>5 DEF SentTo, y, none, n, later

(* The number of the next message grows for all.                            *)
LEMMA AllLater ==
  ASSUME NEW fits, NEW n \in Nat, NEW x \in Worlds, Consistent(x), Sound(fits, n, x, NoDues)
  PROVE  Sound(fits, n + 1, x, NoDues)
<1> DEFINE none == << >>
<1>1. ASSUME NEW u \in Sockets PROVE SoundAt(fits, n + 1, x, u, NoDues[u])
  <2>1. NoDues[u] = << >>
    BY DEF NoDues
  <2>2. SoundAt(fits, n, x, u, << >>)
    BY <2>1 DEF Sound
  <2>3. InPalette(x, u)
    BY DEF Consistent, ConsistentFor
  <2>4. SoundAt(fits, n + 1, x, u, << >>)
    BY <2>2, <2>3, SoundLater
  <2> QED
    BY <2>1, <2>4
<1> QED
  BY <1>1 DEF Sound

(* publishBig: the message is sent to one reader after the other.           *)
LEMMA PublishBigSound ==
  ASSUME NEW fits, NEW x \in Worlds, Consistent(x), Clean(x), NEW sender, NEW t \in Topics,
         NEW message \in Messages, message.op = "data", Sound(fits, message.id, x, NoDues)
  PROVE  Sound(fits, message.id + 1, PublishBig(x, sender, t, message), NoDues)
<1> DEFINE q == Readers(x, sender, t)
           l == Len(q)
           Those(r) == {q[i] : i \in r}
           T == [r \in SUBSET (1..l) |->
                   {y \in Worlds : /\ Kept(x, y) /\ Consistent(y)
                                   /\ SentTo(fits, y, message, Those(r))}]
           w == PublishBig(x, sender, t, message)
<1>1. /\ l \in Nat /\ DOMAIN q = 1..l /\ IsInjective(q)
      /\ \A i \in 1..l : q[i] \in Sockets /\ x.ws[q[i]].closes = 0
  BY ReadersAre
<1>2. q = Readers(x, sender, t)
  OBVIOUS
<1> HIDE DEF q, l
<1>3. x \in T[{}]
  <2>1. Those({}) = {}
    OBVIOUS
  <2> HIDE DEF Those
  <2>2. SentTo(fits, x, message, Those({}))
    BY <2>1 DEF SentTo, Sound, NoDues
  <2> QED
    BY <2>2, KeptNot
<1>4. ASSUME NEW r \in SUBSET (1..l), r # {}, NEW y \in T[r \ {Max(r)}]
      PROVE  SendOwed(y, q[Max(r)], message) \in T[r]
  <2> DEFINE m == Max(r)
             s == q[m]
             z == SendOwed(y, s, message)
             P == Those(r \ {m})
  <2>1. m \in r /\ m \in 1..l
    BY <1>1, <1>4, GreatestExists
  <2>2. y \in Worlds /\ Kept(x, y) /\ Consistent(y) /\ SentTo(fits, y, message, P)
    BY <1>4
  <2> HIDE DEF m, T
  <2>3. s \in Sockets /\ y.ws[s].closes = 0
    BY <1>1, <2>1, <2>2 DEF Kept
  <2>4. s \notin P
    BY <1>1, <2>1 DEF IsInjective
  <2>5. P \cup {s} = Those(r)
    BY <2>1
  <2> HIDE DEF s, P, Those
  <2>6. Clean(y)
    BY <2>2 DEF Kept
  <2>7. Kept(y, z) /\ Consistent(z)
    BY <2>2, <2>3, <2>6, SentOwed
  <2>8. SentTo(fits, z, message, P \cup {s})
    BY <2>2, <2>3, <2>4, <2>6, OneMoreSent
  <2> HIDE DEF z
  <2>9. Kept(x, z) /\ Consistent(z) /\ z \in Worlds
    BY <2>2, <2>7, KeptTwice DEF Kept
  <2>10. z \in T[r]
    BY <2>5, <2>8, <2>9 DEF T
  <2> QED
    BY <2>10 DEF z, s, m
<1>5. w \in T[1..l]
  <2> HIDE DEF T
  <2> QED
    BY <1>1, <1>2, <1>3, <1>4, SendFold
<1> DEFINE P == Those(1..l)
           n == message.id
<1>6. w \in Worlds /\ Consistent(w) /\ SentTo(fits, w, message, P)
  BY <1>5
<1>7. n \in Nat
  BY FrameHas
<1> HIDE DEF w, P, T
<1>8. ASSUME NEW u \in Sockets PROVE SoundAt(fits, n + 1, w, u, << >>)
  <2>1. CASE u \in P
    BY <1>6, <2>1 DEF SentTo
  <2>2. CASE u \notin P
    <3>1. SoundAt(fits, n, w, u, << >>) /\ InPalette(w, u)
      BY <1>6, <2>2 DEF SentTo, Consistent, ConsistentFor
    <3> QED
      BY <1>6, <1>7, <3>1, SoundLater
  <2> QED
    BY <2>1, <2>2
<1>9. PaletteIsData(w)
  BY <1>6 DEF SentTo
<1>10. \A u \in Sockets : NoDues[u] = << >>
  BY DEF NoDues
<1> QED
  BY <1>8, <1>9, <1>10 DEF Sound, w

(* A message that all readers are owed is due to them.                      *)
LEMMA OweAllSound ==
  ASSUME NEW fits, NEW x \in Worlds, Consistent(x), NEW readers, NEW m \in Messages,
         Sound(fits, m.id, x, NoDues)
  PROVE  Sound(fits, m.id + 1, OweAll(x, readers, m), Dues(readers, m))
<1> DEFINE y == OweAll(x, readers, m)
           n == m.id
           d == Dues(readers, m)
           k(s) == [x.ws[s] EXCEPT !.owed = Append(x.ws[s].owed, n)]
           f == [s \in Sockets |-> IF s \in readers THEN k(s) ELSE x.ws[s]]
<1>1. n \in Nat
  BY FrameHas
<1>2. y = [x EXCEPT !.ws = f]
  BY DEF OweAll
<1>3. ASSUME NEW s \in Sockets
      PROVE  /\ s \in readers => Owes(x.ws[s], f[s], n)
             /\ s \notin readers => f[s] = x.ws[s]
  <2> DEFINE r == x.ws[s]
             o == Append(r.owed, n)
  <2>1. r \in WsData
    BY WsIs
  <2>2. s \in readers => f[s] = [r EXCEPT !.owed = o]
    OBVIOUS
  <2>3. s \notin readers => f[s] = r
    OBVIOUS
  <2> HIDE DEF f, r, o
  <2>4. s \in readers => Owes(r, f[s], n)
    BY <2>1, <2>2 DEF Owes, WsData, o
  <2> QED
    BY <2>3, <2>4 DEF r
<1> HIDE DEF f
<1>4. y.ws = f /\ y.loop = x.loop /\ y.socket = x.socket /\ y.tree = x.tree
  BY <1>2 DEF Worlds
<1> HIDE DEF y
<1>5. SameStreams(x, y)
  BY <1>4, SocketsStay
<1>6. ASSUME NEW s \in Sockets PROVE SoundAt(fits, n + 1, y, s, d[s])
  <2>1. SoundAt(fits, n, x, s, << >>) /\ InPalette(x, s)
    BY DEF Sound, NoDues, Consistent, ConsistentFor
  <2>2. Stream(y, s) = Stream(x, s) /\ Waiting(y, s) = Waiting(x, s)
    BY <1>4, <1>5 DEF SameStreams, Waiting
  <2>3. CASE s \in readers
    <3>1. d[s] = <<n>>
      BY <2>3 DEF Dues
    <3> HIDE DEF d
    <3>2. Owes(x.ws[s], y.ws[s], n)
      BY <1>3, <1>4, <2>3
    <3>3. y.socket[s].closed = x.socket[s].closed
      BY <1>4
    <3> HIDE DEF n
    <3>4. SoundAt(fits, n + 1, y, s, <<n>>)
      BY <1>1, <1>4, <2>1, <2>2, <3>2, <3>3, SoundOwes
    <3> QED
      BY <3>1, <3>4
  <2>4. CASE s \notin readers
    <3> DEFINE none == << >>
               later == n + 1
    <3>1. d[s] = none
      BY <2>4 DEF Dues
    <3>2. SoundAt(fits, later, x, s, none)
      BY <1>1, <2>1, SoundLater
    <3> HIDE DEF d, none, later
    <3>3. y.ws[s] = x.ws[s] /\ y.tree = x.tree /\ y.socket = x.socket
      BY <1>3, <1>4, <2>4
    <3>4. SoundAt(fits, later, y, s, none)
      BY <2>2, <3>2, <3>3, SoundKept
    <3> QED
      BY <3>1, <3>4 DEF later
  <2> QED
    BY <2>3, <2>4
<1>7. PaletteIsData(y)
  BY <1>4 DEF Sound, PaletteIsData
<1> QED
  BY <1>6, <1>7 DEF Sound, y

(* publish of App.                                                          *)
LEMMA AppPublishSound ==
  ASSUME NEW fits, NEW x \in Worlds, Consistent(x), Clean(x), NEW sender, NEW t \in Topics,
         NEW message \in Messages, message.op = "data", Sound(fits, message.id, x, NoDues)
  PROVE  LET y == AppPublish(x, sender, t, message)
         IN  Sound(Held(fits, y), message.id + 1, y, NoDues)
<1> DEFINE y == AppPublish(x, sender, t, message)
           later == message.id + 1
<1>1. CASE IsBig(message)
  <2>1. y = PublishBig(x, sender, t, message)
    BY <1>1 DEF AppPublish
  <2>2. Sound(fits, message.id + 1, PublishBig(x, sender, t, message), NoDues)
    BY PublishBigSound
  <2>3. Sound(fits, later, y, NoDues)
    BY <2>1, <2>2
  <2> HIDE DEF y, later
  <2>4. Sound(Held(fits, y), later, y, NoDues)
    <3>1. \A u \in Sockets : NoDues[u] = << >>
      BY DEF NoDues
    <3> QED
      BY <2>3, <3>1, SoundHeld
  <2> QED
    BY <2>4 DEF y, later
<1>2. CASE ~IsBig(message)
  <2> DEFINE readers == x.tree.topics[t] \ {sender}
             z == OweAll(x, readers, message)
             d == Dues(readers, message)
  <2>1. y = TreePublish(z, sender, t, message)
    BY <1>2 DEF AppPublish
  <2>2. Kept(x, z) /\ Consistent(z)
    BY OwedAll
  <2>3. Sound(fits, later, z, d)
    BY OweAllSound
  <2> HIDE DEF z
  <2>4. z \in Worlds /\ Clean(z) /\ z.tree.topics = x.tree.topics
    BY <2>2 DEF Kept
  <2>5. d = Dues(z.tree.topics[t] \ {sender}, message)
    BY <2>4
  <2> HIDE DEF d, y, later
  <2>6. Sound(Held(fits, y), later, y, NoDues)
    BY <2>1, <2>2, <2>3, <2>4, <2>5, TreePublishedSound
  <2> QED
    BY <2>6 DEF y, later
<1> QED
  BY <1>1, <1>2

(* publish of a socket, which does nothing without a subscriber.            *)
LEMMA PublishSound ==
  ASSUME NEW fits, NEW x \in Worlds, Consistent(x), Clean(x), NEW s \in Sockets, NEW t \in Topics,
         NEW message \in Messages, message.op = "data", Sound(fits, message.id, x, NoDues)
  PROVE  LET y == Publish(x, s, t, message)
         IN  Sound(Held(fits, y), message.id + 1, y, NoDues)
<1> DEFINE y == Publish(x, s, t, message)
           n == message.id
           later == n + 1
<1>1. CASE x.ws[s].subscriber
  <2>1. y = AppPublish(x, s, t, message)
    BY <1>1 DEF Publish
  <2> QED
    BY <2>1, AppPublishSound
<1>2. CASE ~x.ws[s].subscriber
  <2>1. y = x
    BY <1>2 DEF Publish
  <2>2. n \in Nat
    BY FrameHas
  <2>3. Sound(fits, later, x, NoDues)
    BY <2>2, AllLater
  <2> HIDE DEF later
  <2>4. Sound(Held(fits, x), later, x, NoDues)
    <3>1. \A u \in Sockets : NoDues[u] = << >>
      BY DEF NoDues
    <3> QED
      BY <2>3, <3>1, SoundHeld
  <2> QED
    BY <2>1, <2>4 DEF later
<1> QED
  BY <1>1, <1>2

(* The message of send, and what it is to the others: nothing.              *)
LEMMA OneSentSound ==
  ASSUME NEW fits, NEW x \in Worlds, NEW s \in Sockets, NEW m \in Messages, m.op = "data",
         Consistent(x), Clean(x), x.ws[s].closes = 0, Sound(fits, m.id, x, NoDues)
  PROVE  Sound(fits, m.id + 1, SendOwed(x, s, m), NoDues)
<1> DEFINE y == SendOwed(x, s, m)
           n == m.id
           later == n + 1
           none == << >>
<1>1. n \in Nat /\ \A u \in Sockets : NoDues[u] = none
  BY FrameHas, DuesAre
<1>2. PaletteIsData(x) /\ \A u \in Sockets : SoundAt(fits, n, x, u, none)
  BY <1>1 DEF Sound
<1>3. /\ SoundAt(fits, later, y, s, none)
      /\ Touched(x, y, s) /\ Aside(x, y, s) /\ PaletteIsData(y)
  BY <1>2, SendOwedSound
<1> HIDE DEF y, n
<1>4. ASSUME NEW u \in Sockets \ {s} PROVE SoundAt(fits, later, y, u, none)
  <2>1. InPalette(x, u) /\ u \in Sockets
    BY DEF Consistent, ConsistentFor
  <2>2. SoundAt(fits, later, x, u, none)
    BY <1>1, <1>2, <2>1, SoundLater
  <2> HIDE DEF later, none
  <2> QED
    BY <1>3, <2>2, OthersSound
<1> HIDE DEF later, none
<1>5. \A u \in Sockets : SoundAt(fits, later, y, u, NoDues[u])
  BY <1>1, <1>3, <1>4
<1>6. Sound(fits, later, y, NoDues)
  BY <1>3, <1>5 DEF Sound
<1> QED
  BY <1>6 DEF later, n, y

-----------------------------------------------------------------------------
(* Calls that send nothing. *)

(* For u, what the account is made of stays, and the socket does not open.  *)
StaysFor(x, y, u) ==
  /\ Waiting(y, u) = Waiting(x, u)
  /\ y.ws[u].owed = x.ws[u].owed
  /\ y.ws[u].lossy = x.ws[u].lossy
  /\ Enrolled(x, u) => Enrolled(y, u)
  /\ x.socket[u].closed => y.socket[u].closed
  /\ y.ws[u].closes = 0 => x.ws[u].closes = 0
  /\ ~x.socket[u].closed => Stream(y, u) = Stream(x, u)

(* Then it is as sound as it was.                                           *)
LEMMA SoundStays ==
  ASSUME NEW fits, NEW n, NEW x, NEW y, NEW u \in Sockets, NEW due,
         x.socket[u].closed => x.ws[u].closes = 1, StaysFor(x, y, u), SoundAt(fits, n, x, u, due)
  PROVE  SoundAt(fits, n, y, u, due)
<1>1. Enrolled(y, u)
  BY DEF SoundAt, StaysFor
<1>2. ~y.socket[u].closed => FitAt(fits, n, y, u, due)
  BY FitKept DEF SoundAt, StaysFor
<1>3. y.ws[u].closes = 0 => NoClose(Stream(y, u))
  BY DEF SoundAt, StaysFor
<1> QED
  BY <1>1, <1>2, <1>3 DEF SoundAt

(* A call that sends nothing, to nobody.                                    *)
Silent(x, y) ==
  /\ y.tree.palette = x.tree.palette
  /\ \A u \in Sockets : StaysFor(x, y, u)

(* All are as sound as they were.                                           *)
LEMMA SilentSound ==
  ASSUME NEW fits, NEW n, NEW x, NEW y, NEW d, Clean(x), Silent(x, y), Sound(fits, n, x, d)
  PROVE  Sound(fits, n, y, d)
<1>1. ASSUME NEW u \in Sockets PROVE SoundAt(fits, n, y, u, d[u])
  BY SoundStays DEF Clean, CleanAt, Silent, Sound
<1>2. PaletteIsData(y)
  BY DEF Silent, Sound, PaletteIsData
<1> QED
  BY <1>1, <1>2 DEF Sound

(* A call that changes no stream, no owner of a cork, and of the tree       *)
(* nothing that is parked.                                                  *)
LEMMA SameIsSilent ==
  ASSUME NEW x, NEW y, SameStreams(x, y), y.tree.palette = x.tree.palette,
         y.tree.indices = x.tree.indices,
         \A u \in Sockets : /\ y.ws[u].owed = x.ws[u].owed
                            /\ y.ws[u].lossy = x.ws[u].lossy
                            /\ y.ws[u].closes = x.ws[u].closes
                            /\ y.socket[u].closed = x.socket[u].closed
                            /\ Enrolled(x, u) => Enrolled(y, u)
  PROVE  Silent(x, y)
<1>1. \A u \in Sockets : Waiting(y, u) = Waiting(x, u)
  BY DEF Waiting
<1> QED
  BY <1>1 DEF Silent, StaysFor, SameStreams

(* One such call after the other.                                           *)
LEMMA SilentTwice ==
  ASSUME NEW x, NEW y, NEW z, Silent(x, y), Silent(y, z),
         \A u \in Sockets : y.socket[u].closed = x.socket[u].closed
  PROVE  Silent(x, z)
BY DEF Silent, StaysFor

(* A write that adds nothing.                                               *)
LEMMA SentIsSilent ==
  ASSUME NEW x \in Worlds, NEW y, NEW s \in Sockets, Sent(x, y, s), Streamed(x, y, s, << >>)
  PROVE  Silent(x, y)
<1>1. ASSUME NEW u \in Sockets, ~x.socket[u].closed PROVE Stream(y, u) = Stream(x, u)
  <2>1. CASE u = s
    <3>1. SameStreams(x, y)
      BY <1>1, <2>1, StreamsStay
    <3> QED
      BY <3>1 DEF SameStreams
  <2>2. CASE u # s
    BY <2>2 DEF Streamed
  <2> QED
    BY <2>1, <2>2
<1>2. \A u \in Sockets : y.socket[u].closed = x.socket[u].closed
  BY DEF Sent
<1>3. y.tree = x.tree /\ y.ws = x.ws
  BY DEF Sent
<1>4. \A u \in Sockets : Waiting(y, u) = Waiting(x, u) /\ (Enrolled(x, u) => Enrolled(y, u))
  BY <1>3 DEF Waiting, Enrolled
<1> QED
  BY <1>1, <1>2, <1>3, <1>4 DEF Silent, StaysFor

(* Where only what else the WebSockets know changes.                        *)
LEMMA RecordIsSilent ==
  ASSUME NEW x, NEW y, y.loop = x.loop, y.socket = x.socket, y.tree = x.tree,
         \A u \in Sockets : /\ y.ws[u].owed = x.ws[u].owed
                            /\ y.ws[u].lossy = x.ws[u].lossy
                            /\ y.ws[u].closes = x.ws[u].closes
                            /\ y.ws[u].subscriber = x.ws[u].subscriber
  PROVE  Silent(x, y)
<1>1. SameStreams(x, y)
  BY SocketsStay
<1>2. \A u \in Sockets : Enrolled(x, u) => Enrolled(y, u)
  BY DEF Enrolled
<1> QED
  BY <1>1, <1>2, SameIsSilent

(* The timeout of a WebSocket is nothing that is sent.                      *)
LEMMA TimeoutIsSilent ==
  ASSUME NEW x \in Worlds, NEW s \in Sockets, NEW b \in BOOLEAN
  PROVE  LET y == [x EXCEPT !.ws[s].hasTimedOut = b]
         IN  Silent(x, y) /\ y \in Worlds /\ y.loop = x.loop /\ y.socket = x.socket
             /\ \A u \in Sockets : y.ws[u].closes = x.ws[u].closes
<1> DEFINE y == [x EXCEPT !.ws[s].hasTimedOut = b]
           k == [x.ws[s] EXCEPT !.hasTimedOut = b]
<1>1. /\ y \in Worlds /\ y.loop = x.loop /\ y.socket = x.socket /\ y.tree = x.tree
      /\ \A u \in Sockets : /\ y.ws[u].closes = x.ws[u].closes
                            /\ y.ws[u].lossy = x.ws[u].lossy
  BY TimeoutPut
<1>2. y = WithWs(x, s, k)
  BY DEF WithWs
<1>3. x.ws[s] \in WsData
  BY WsIs
<1>4. k \in WsData /\ k.owed = x.ws[s].owed /\ k.subscriber = x.ws[s].subscriber
  BY <1>3 DEF WsData
<1> HIDE DEF k, y
<1>5. y.ws[s] = k /\ \A u \in Sockets \ {s} : y.ws[u] = x.ws[u]
  BY <1>2, <1>4, WsPut
<1>6. \A u \in Sockets : y.ws[u].owed = x.ws[u].owed /\ y.ws[u].subscriber = x.ws[u].subscriber
  BY <1>4, <1>5
<1>7. Silent(x, y)
  BY <1>1, <1>6, RecordIsSilent
<1> QED
  BY <1>1, <1>7 DEF y

(* So is the beginning of an end.                                           *)
LEMMA EndingIsSilent ==
  ASSUME NEW x \in Worlds, NEW s \in Sockets
  PROVE  LET y == [x EXCEPT !.ws[s].isShuttingDown = TRUE]
         IN  Silent(x, y)
             /\ y.ws[s].subscriber = x.ws[s].subscriber /\ y.ws[s].owed = x.ws[s].owed
             /\ y.ws[s].lossy = x.ws[s].lossy
<1> DEFINE y == [x EXCEPT !.ws[s].isShuttingDown = TRUE]
           k == [x.ws[s] EXCEPT !.isShuttingDown = TRUE]
<1>1. /\ y \in Worlds
      /\ y.loop = x.loop /\ y.tree = x.tree /\ y.socket = x.socket
      /\ \A u \in Sockets \ {s} : y.ws[u] = x.ws[u]
      /\ y.ws[s].closes = x.ws[s].closes
  BY Ending
<1>2. y = WithWs(x, s, k)
  BY DEF WithWs
<1>3. x.ws[s] \in WsData
  BY WsIs
<1>4. /\ k \in WsData /\ k.owed = x.ws[s].owed /\ k.subscriber = x.ws[s].subscriber
      /\ k.lossy = x.ws[s].lossy
  BY <1>3 DEF WsData
<1> HIDE DEF k, y
<1>5. y.ws[s] = k
  BY <1>2, <1>4, WsPut
<1>6. \A u \in Sockets : /\ y.ws[u].owed = x.ws[u].owed /\ y.ws[u].subscriber = x.ws[u].subscriber
                         /\ y.ws[u].lossy = x.ws[u].lossy /\ y.ws[u].closes = x.ws[u].closes
  BY <1>1, <1>4, <1>5
<1>7. Silent(x, y)
  BY <1>1, <1>6, RecordIsSilent
<1> QED
  BY <1>4, <1>5, <1>7 DEF y

(* And a FIN.                                                               *)
LEMMA ShutdownIsSilent ==
  ASSUME NEW x \in Worlds, NEW s \in Sockets
  PROVE  LET y == Shutdown(x, s)
         IN  Silent(x, y) /\ SameStreams(x, y) /\ y \in Worlds
             /\ y.loop = x.loop /\ y.tree = x.tree /\ y.ws = x.ws
             /\ \A u \in Sockets : y.socket[u].closed = x.socket[u].closed
<1> DEFINE c == x.socket[s]
           b == c.shut \/ ~c.closed
           R == [buffer : Seq(Tokens), pendingRemoval : Nat, wire : Seq(Tokens),
                 closed : BOOLEAN, shut : BOOLEAN, polling : BOOLEAN]
           k == [c EXCEPT !.shut = b]
           y == Shutdown(x, s)
<1>1. /\ y \in Worlds
      /\ y.loop = x.loop /\ y.tree = x.tree /\ y.ws = x.ws
      /\ \A u \in Sockets \ {s} : y.socket[u] = x.socket[u]
      /\ y.socket[s].closed = x.socket[s].closed
      /\ Buffered(y, s) = Buffered(x, s)
  BY ShutDown
<1>2. y = WithSocket(x, s, k)
  BY DEF Shutdown, WithSocket
<1>3. y.socket[s] = k
  <2> HIDE DEF k
  <2> QED
    BY <1>2 DEF WithSocket, Worlds
<1>4. k.wire = c.wire
  <2>1. c \in SocketData
    BY DEF Worlds
  <2>2. c \in R
    BY <2>1 DEF SocketData
  <2> HIDE DEF c, b
  <2> QED
    BY <2>2
<1> HIDE DEF y
<1>5. Stream(y, s) = Stream(x, s)
  BY <1>1, <1>3, <1>4 DEF Stream, IsCorked
<1>6. \A u \in Sockets \ {s} : Stream(y, u) = Stream(x, u)
  BY <1>1 DEF Stream, IsCorked, Buffered
<1>7. SameStreams(x, y)
  BY <1>5, <1>6 DEF SameStreams
<1>8. \A u \in Sockets : Enrolled(x, u) => Enrolled(y, u)
  BY <1>1 DEF Enrolled
<1>9. \A u \in Sockets : y.socket[u].closed = x.socket[u].closed
  BY <1>1
<1>10. Silent(x, y)
  BY <1>1, <1>7, <1>8, <1>9, SameIsSilent
<1> QED
  BY <1>1, <1>7, <1>9, <1>10 DEF y

(* A socket that is told that it may write.                                 *)
LEMMA ToldIsSilent ==
  ASSUME NEW x \in Worlds, NEW s \in Sockets
  PROVE  LET y == [x EXCEPT !.socket[s].polling = FALSE]
         IN  Silent(x, y) /\ y \in Worlds
             /\ \A u \in Sockets : y.socket[u].closed = x.socket[u].closed
<1> DEFINE c == x.socket[s]
           R == [buffer : Seq(Tokens), pendingRemoval : Nat, wire : Seq(Tokens),
                 closed : BOOLEAN, shut : BOOLEAN, polling : BOOLEAN]
           k == [c EXCEPT !.polling = FALSE]
           y == WithSocket(x, s, k)
<1>1. c \in SocketData
  BY DEF Worlds
<1>2. c \in R /\ c.pendingRemoval <= Len(c.buffer)
  BY <1>1 DEF SocketData
<1>3. [x EXCEPT !.socket[s].polling = FALSE] = y
  BY DEF WithSocket
<1> HIDE DEF c
<1>4. /\ k \in R /\ k.buffer = c.buffer /\ k.pendingRemoval = c.pendingRemoval
      /\ k.closed = c.closed /\ k.wire = c.wire
  BY <1>2
<1>5. k \in SocketData
  <2> HIDE DEF k
  <2> QED
    BY <1>2, <1>4 DEF SocketData
<1> HIDE DEF k
<1>6. /\ y \in Worlds
      /\ y.loop = x.loop /\ y.tree = x.tree /\ y.ws = x.ws
      /\ y.socket[s] = k
      /\ \A u \in Sockets \ {s} : y.socket[u] = x.socket[u]
  BY <1>5, SocketPut
<1> HIDE DEF y
<1>7. Stream(y, s) = Stream(x, s)
  BY <1>4, <1>6 DEF Stream, IsCorked, Buffered, c
<1>8. \A u \in Sockets \ {s} : Stream(y, u) = Stream(x, u)
  BY <1>6 DEF Stream, IsCorked, Buffered
<1>9. SameStreams(x, y)
  BY <1>7, <1>8 DEF SameStreams
<1>10. \A u \in Sockets : Enrolled(x, u) => Enrolled(y, u)
  BY <1>6 DEF Enrolled
<1>11. \A u \in Sockets : y.socket[u].closed = x.socket[u].closed
  BY <1>4, <1>6 DEF c
<1>12. Silent(x, y)
  BY <1>6, <1>9, <1>10, <1>11, SameIsSilent
<1> QED
  BY <1>3, <1>6, <1>11, <1>12

(* The cork of a handler.                                                   *)
LEMMA CorkIsSilent ==
  ASSUME NEW x \in Worlds, NEW s \in Sockets, x.loop.corked = NoSocket
  PROVE  Silent(x, Cork(x, s))
<1> DEFINE y == Cork(x, s)
<1>1. SameStreams(x, y) /\ Sent(x, y, s)
  BY CorkTakenStreams
<1> HIDE DEF y
<1>2. y.tree = x.tree /\ y.ws = x.ws /\ \A u \in Sockets : y.socket[u].closed = x.socket[u].closed
  BY <1>1 DEF Sent
<1>3. \A u \in Sockets : Enrolled(x, u) => Enrolled(y, u)
  BY <1>2 DEF Enrolled
<1>4. Silent(x, y)
  BY <1>1, <1>2, <1>3, SameIsSilent
<1> QED
  BY <1>4 DEF y

(* on_data, from its beginning.                                             *)
LEMMA DataBeginIsSilent ==
  ASSUME NEW x \in Worlds, NEW s \in Sockets, x.loop.corked = NoSocket
  PROVE  Silent(x, OnDataBegin(x, s))
<1> DEFINE b == FALSE
           y == [x EXCEPT !.ws[s].hasTimedOut = b]
<1>1. b \in BOOLEAN
  OBVIOUS
<1>2. OnDataBegin(x, s) = Cork(y, s)
  BY DEF OnDataBegin
<1> HIDE DEF b
<1>3. /\ Silent(x, y) /\ y \in Worlds /\ y.loop = x.loop /\ y.socket = x.socket
  BY <1>1, TimeoutIsSilent
<1> HIDE DEF y
<1>4. Silent(y, Cork(y, s))
  BY <1>3, CorkIsSilent
<1> QED
  BY <1>2, <1>3, <1>4, SilentTwice

(* The cork goes out, and may free nothing.                                 *)
LEMMA UncorkIsSilent ==
  ASSUME NEW x \in Worlds, NEW s \in Sockets
  PROVE  LET y == Uncork(x, s, << >>, FALSE).x
         IN  Silent(x, y) /\ y \in Worlds
             /\ \A u \in Sockets : y.socket[u].closed = x.socket[u].closed
<1> DEFINE e == << >>
           y == Uncork(x, s, e, FALSE).x
<1>1. e \in Seq(Tokens)
  OBVIOUS
<1>2. Streamed(x, y, s, e)
  BY UncorkStreamed
<1> HIDE DEF e
<1>3. Sent(x, y, s)
  BY <1>1, Uncorked
<1> HIDE DEF y
<1>4. Silent(x, y)
  BY <1>2, <1>3, SentIsSilent DEF e
<1>5. y \in Worlds /\ \A u \in Sockets : y.socket[u].closed = x.socket[u].closed
  BY <1>3 DEF Sent
<1> QED
  BY <1>4, <1>5 DEF y, e

(* The end of on_data.                                                      *)
LEMMA DataEndIsSilent ==
  ASSUME NEW x \in Worlds, NEW s \in Sockets
  PROVE  Silent(x, OnDataEnd(x, s))
<1> DEFINE y == Uncork(x, s, << >>, FALSE).x
<1>1. /\ Silent(x, y) /\ y \in Worlds
      /\ \A u \in Sockets : y.socket[u].closed = x.socket[u].closed
  BY UncorkIsSilent
<1>2. OnDataEnd(x, s) = FinIfSent(y, s)
  BY DEF OnDataEnd
<1> HIDE DEF y
<1>3. Silent(y, Shutdown(y, s))
  BY <1>1, ShutdownIsSilent
<1>4. Silent(x, Shutdown(y, s))
  BY <1>1, <1>3, SilentTwice
<1>5. FinIfSent(y, s) \in {y, Shutdown(y, s)}
  BY DEF FinIfSent
<1> QED
  BY <1>1, <1>2, <1>4, <1>5

(* on_writable: what waits goes on its way.                                 *)
LEMMA WritableIsSilent ==
  ASSUME NEW x \in Worlds, NEW s \in Sockets
  PROVE  Silent(x, OnWritable(x, s))
<1> DEFINE e == << >>
           b == FALSE
           told == [x EXCEPT !.socket[s].polling = FALSE]
           y == Write(told, s, e, b).x
           w == [y EXCEPT !.ws[s].hasTimedOut = b]
           z == IF Drained(x, y, s) THEN w ELSE y
<1>1. /\ Silent(x, told) /\ told \in Worlds
      /\ \A u \in Sockets : told.socket[u].closed = x.socket[u].closed
  BY ToldIsSilent
<1>2. OnWritable(x, s) \in {told, z, Shutdown(z, s)}
  BY DEF OnWritable
<1>3. e \in Seq(Tokens) /\ b \in BOOLEAN
  OBVIOUS
<1> HIDE DEF told
<1>4. Streamed(told, y, s, e)
  BY <1>1, <1>3, WriteStreamed
<1> HIDE DEF e, b
<1>5. Sent(told, y, s)
  BY <1>1, <1>3, Written
<1> HIDE DEF y
<1>6. Silent(told, y)
  BY <1>1, <1>4, <1>5, SentIsSilent DEF e
<1>7. y \in Worlds /\ \A u \in Sockets : y.socket[u].closed = told.socket[u].closed
  BY <1>5 DEF Sent
<1>8. /\ Silent(y, w) /\ w \in Worlds /\ w.socket = y.socket
  BY <1>3, <1>7, TimeoutIsSilent
<1>9. Silent(x, y)
  BY <1>1, <1>6, SilentTwice
<1>10. \A u \in Sockets : y.socket[u].closed = x.socket[u].closed
  BY <1>1, <1>7
<1>11. Silent(x, w)
  BY <1>8, <1>9, <1>10, SilentTwice
<1>12. Silent(x, z) /\ z \in Worlds /\ \A u \in Sockets : z.socket[u].closed = x.socket[u].closed
  <2>1. z \in {w, y}
    OBVIOUS
  <2> HIDE DEF w, z
  <2> QED
    BY <1>7, <1>8, <1>9, <1>10, <1>11, <2>1
<1> HIDE DEF z, w
<1>13. Silent(z, Shutdown(z, s))
  BY <1>12, ShutdownIsSilent
<1>14. Silent(x, Shutdown(z, s))
  BY <1>12, <1>13, SilentTwice
<1> QED
  BY <1>1, <1>2, <1>12, <1>14

-----------------------------------------------------------------------------
(* Who reads what. *)

(* A call that changes the readers of topics, and keeps them enrolled.      *)
Regroups(x, y) ==
  /\ y.loop.corked = x.loop.corked /\ y.loop.cork = x.loop.cork
  /\ y.socket = x.socket
  /\ y.tree.palette = x.tree.palette /\ y.tree.indices = x.tree.indices
  /\ \A u \in Sockets : /\ y.ws[u].owed = x.ws[u].owed
                        /\ y.ws[u].lossy = x.ws[u].lossy
                        /\ y.ws[u].closes = x.ws[u].closes
                        /\ Enrolled(x, u) => Enrolled(y, u)

(* One such call after the other.                                           *)
LEMMA RegroupsTwice ==
  ASSUME NEW x, NEW y, NEW z, Regroups(x, y), Regroups(y, z)
  PROVE  Regroups(x, z)
BY DEF Regroups

(* It sends nothing.                                                        *)
LEMMA RegroupsIsSilent ==
  ASSUME NEW x, NEW y, Regroups(x, y)
  PROVE  Silent(x, y)
<1>1. SameStreams(x, y)
  BY CorkStays DEF Regroups
<1> QED
  BY <1>1, SameIsSilent DEF Regroups

(* A topic with other readers, who are enrolled.                            *)
LEMMA ReadersRegroup ==
  ASSUME NEW x \in Worlds, NEW t \in Topics, NEW S,
         \A u \in S : u \notin x.tree.topics[t] => x.ws[u].subscriber
  PROVE  LET y == WithReaders(x, t, S)
         IN  Regroups(x, y) /\ y.tree.iterating = x.tree.iterating
<1> DEFINE y == WithReaders(x, t, S)
<1>1. /\ y.loop = x.loop /\ y.socket = x.socket /\ y.ws = x.ws
      /\ y.tree.palette = x.tree.palette /\ y.tree.indices = x.tree.indices
      /\ y.tree.iterating = x.tree.iterating
      /\ y.tree.topics = [x.tree.topics EXCEPT ![t] = S]
  BY DEF WithReaders, Worlds, TreeData
<1>2. x.tree.topics \in [Topics -> SUBSET Sockets]
  BY TreeHas
<1>3. y.tree.topics[t] = S /\ \A v \in Topics \ {t} : y.tree.topics[v] = x.tree.topics[v]
  BY <1>1, <1>2
<1> HIDE DEF y
<1>4. ASSUME NEW u \in Sockets, Enrolled(x, u) PROVE Enrolled(y, u)
  <2>1. ASSUME NEW v \in Topics, u \in y.tree.topics[v] PROVE y.ws[u].subscriber
    <3>1. CASE v = t
      BY <1>1, <1>3, <1>4, <2>1, <3>1 DEF Enrolled
    <3>2. CASE v # t
      BY <1>1, <1>3, <1>4, <2>1, <3>2 DEF Enrolled
    <3> QED
      BY <3>1, <3>2
  <2>2. y.tree.indices[u] # << >> => y.ws[u].subscriber
    BY <1>1, <1>4 DEF Enrolled
  <2> QED
    BY <2>1, <2>2 DEF Enrolled
<1>5. Regroups(x, y)
  BY <1>1, <1>4 DEF Regroups
<1> QED
  BY <1>1, <1>5 DEF y

(* A WebSocket that gets a subscriber is enrolled.                          *)
LEMMA SubscriberRegroups ==
  ASSUME NEW x \in Worlds, NEW s \in Sockets
  PROVE  LET y == [x EXCEPT !.ws[s].subscriber = TRUE]
         IN  Regroups(x, y) /\ y \in Worlds /\ y.tree = x.tree /\ y.ws[s].subscriber
<1> DEFINE k == [x.ws[s] EXCEPT !.subscriber = TRUE]
           y == WithWs(x, s, k)
<1>1. [x EXCEPT !.ws[s].subscriber = TRUE] = y
  BY DEF WithWs
<1>2. x.ws[s] \in WsData
  BY WsIs
<1>3. /\ k \in WsData /\ k.owed = x.ws[s].owed /\ k.subscriber
      /\ k.closes = x.ws[s].closes /\ k.lossy = x.ws[s].lossy
  BY <1>2 DEF WsData
<1> HIDE DEF k
<1>4. /\ y \in Worlds
      /\ y.loop = x.loop /\ y.tree = x.tree /\ y.socket = x.socket
      /\ y.ws[s] = k
      /\ \A u \in Sockets \ {s} : y.ws[u] = x.ws[u]
  BY <1>3, WsPut
<1> HIDE DEF y
<1>5. \A u \in Sockets : Enrolled(x, u) => Enrolled(y, u)
  BY <1>3, <1>4 DEF Enrolled
<1>6. Regroups(x, y)
  BY <1>3, <1>4, <1>5 DEF Regroups
<1> QED
  BY <1>1, <1>3, <1>4, <1>6

(* subscribe and unsubscribe.                                               *)
LEMMA SubscribeRegroups ==
  ASSUME NEW x \in Worlds, NEW s \in Sockets, NEW t \in Topics, x.tree.iterating # s
  PROVE  Regroups(x, Subscribe(x, s, t))
<1> DEFINE z == [x EXCEPT !.ws[s].subscriber = TRUE]
           S == z.tree.topics[t] \cup {s}
           y == WithReaders(z, t, S)
<1>1. Regroups(x, z) /\ z \in Worlds /\ z.tree = x.tree /\ z.ws[s].subscriber
  BY SubscriberRegroups
<1>2. Subscribe(x, s, t) = Join(z, s, t)
  BY DEF Subscribe
<1> HIDE DEF z
<1>4. Join(z, s, t) = y
  BY <1>1 DEF Join, WithReaders
<1>5. \A u \in S : u \notin z.tree.topics[t] => z.ws[u].subscriber
  BY <1>1
<1> HIDE DEF S
<1>6. Regroups(z, y)
  BY <1>1, <1>5, ReadersRegroup
<1> QED
  BY <1>1, <1>2, <1>4, <1>6, RegroupsTwice

(* unsubscribe, likewise.                                                   *)
LEMMA UnsubscribeRegroups ==
  ASSUME NEW x \in Worlds, NEW s \in Sockets, NEW t \in Topics, x.tree.iterating # s
  PROVE  Regroups(x, Unsubscribe(x, s, t))
<1> DEFINE S == x.tree.topics[t] \ {s}
           y == WithReaders(x, t, S)
<1>1. CASE ~x.ws[s].subscriber
  <2>1. Unsubscribe(x, s, t) = x
    BY <1>1 DEF Unsubscribe
  <2> QED
    BY <2>1 DEF Regroups
<1>2. CASE x.ws[s].subscriber
  <2>1. Unsubscribe(x, s, t) = y
    BY <1>2 DEF Unsubscribe, Leave, WithReaders
  <2>2. \A u \in S : u \notin x.tree.topics[t] => x.ws[u].subscriber
    OBVIOUS
  <2> HIDE DEF S
  <2> QED
    BY <2>1, <2>2, ReadersRegroup
<1> QED
  BY <1>1, <1>2

(* Which topic is iterated over is nothing to the readers.                  *)
LEMMA IteratingRegroups ==
  ASSUME NEW x \in Worlds, NEW s
  PROVE  LET y == [x EXCEPT !.tree.iterating = s]
         IN  Regroups(x, y) /\ y.ws = x.ws
<1> DEFINE y == [x EXCEPT !.tree.iterating = s]
<1>1. /\ y.loop = x.loop /\ y.socket = x.socket /\ y.ws = x.ws
      /\ y.tree.palette = x.tree.palette /\ y.tree.indices = x.tree.indices
      /\ y.tree.topics = x.tree.topics
  BY DEF Worlds, TreeData
<1> HIDE DEF y
<1>2. \A u \in Sockets : Enrolled(x, u) => Enrolled(y, u)
  BY <1>1 DEF Enrolled
<1>3. Regroups(x, y)
  BY <1>1, <1>2 DEF Regroups
<1> QED
  BY <1>1, <1>3 DEF y

(* iterateTopics: u, who is not iterated over, subscribes to each topic.    *)
LEMMA IterateRegroupsOther ==
  ASSUME NEW h, NEW x, NEW s \in Sockets, NEW u \in Sockets, u # s, Good(h, x),
         ~x.loop.dead, x.ws[u].closes = 0, NEW topics, topics \subseteq Topics
  PROVE  Regroups(x, IterateTopics(x, s, u, topics))
<1>0. x \in Worlds /\ Consistent(x) /\ Clean(x)
  BY DEF Good
<1>1. CASE ~x.ws[s].subscriber
  <2>1. IterateTopics(x, s, u, topics) = x
    BY <1>1 DEF IterateTopics
  <2> QED
    BY <2>1 DEF Regroups
<1>2. CASE x.ws[s].subscriber
  <2> DEFINE z == [x EXCEPT !.tree.iterating = s]
             q == SetToSeq(topics)
             n == Len(q)
             T == [r \in SUBSET (1..n) |-> {y \in Worlds : Regrouped(z, y) /\ Regroups(z, y)}]
             w == SubscribeTo(z, u, topics)
             y == [w EXCEPT !.tree.iterating = NoSocket]
  <2>2. /\ z \in Worlds /\ Consistent(z) /\ Clean(z)
        /\ z.loop = x.loop /\ z.ws = x.ws /\ z.tree.iterating = s
    BY <1>0, IteratingPut
  <2>3. Regroups(x, z)
    BY <1>0, IteratingRegroups
  <2>4. /\ n \in Nat /\ DOMAIN q = 1..n
        /\ \A i \in 1..n : q[i] \in Topics
    <3>1. IsFiniteSet(topics)
      BY PubSubAssumption, FS_Subset
    <3>2. q \in Seq(topics) /\ n \in Nat /\ DOMAIN q = 1..n
      BY <3>1, OrderedSet
    <3> HIDE DEF q
    <3>3. \A i \in 1..n : q[i] \in topics
      BY <3>2
    <3> QED
      BY <3>3
  <2>5. q = SetToSeq(topics)
    OBVIOUS
  <2> HIDE DEF z, q, n
  <2>6. z \in T[{}]
    BY <2>2 DEF Regrouped, Regroups
  <2>7. ASSUME NEW r \in SUBSET (1..n), r # {}, NEW v \in T[r \ {Max(r)}]
        PROVE  Subscribe(v, u, q[Max(r)]) \in T[r]
    <3> DEFINE t == q[Max(r)]
               f == Subscribe(v, u, t)
    <3>1. Max(r) \in 1..n
      BY <2>4, <2>7, GreatestExists
    <3>2. t \in Topics
      BY <2>4, <3>1
    <3>3. v \in Worlds /\ Regrouped(z, v) /\ Regroups(z, v)
      BY <2>7
    <3>4. Consistent(v) /\ Clean(v) /\ v.ws[u].closes = 0 /\ v.tree.iterating # u
      BY <2>2, <3>3 DEF Regrouped
    <3> HIDE DEF t
    <3>5. Regrouped(v, f) /\ Regroups(v, f)
      BY <3>2, <3>3, <3>4, Subscribed, SubscribeRegroups
    <3> HIDE DEF f
    <3>6. Regrouped(z, f) /\ Regroups(z, f) /\ f \in Worlds
      BY <3>3, <3>5, RegroupedTwice, RegroupsTwice DEF Regrouped
    <3>7. f \in T[r]
      BY <3>6
    <3> QED
      BY <3>7 DEF f, t
  <2>8. w \in T[1..n]
    <3> HIDE DEF T
    <3> QED
      BY <2>4, <2>5, <2>6, <2>7, SubscribeFold
  <2>9. w \in Worlds /\ Regroups(z, w) /\ Regrouped(z, w)
    BY <2>8
  <2>1. IterateTopics(x, s, u, topics) = y
    BY <1>2, <2>2, <2>9 DEF IterateTopics, Regrouped, z
  <2> HIDE DEF w
  <2>10. Regroups(w, y)
    BY <2>9, IteratingRegroups
  <2> HIDE DEF y
  <2> QED
    BY <2>1, <2>3, <2>9, <2>10, RegroupsTwice
<1> QED
  BY <1>1, <1>2

(* Whoever the callback subscribes: if it is s, nothing changes for a peer. *)
LEMMA IterateRegroups ==
  ASSUME NEW h, NEW x, NEW s \in Sockets, NEW u \in Sockets, Good(h, x),
         ~x.loop.dead, x.ws[u].closes = 0, NEW topics, topics \subseteq Topics
  PROVE  Regroups(x, IterateTopics(x, s, u, topics))
<1> DEFINE z == [x EXCEPT !.tree.iterating = s]
           d == Terminated(z)
<1>0. x \in Worlds /\ Consistent(x) /\ Clean(x)
  BY DEF Good
<1>1. CASE u # s
  BY <1>1, IterateRegroupsOther
<1>2. CASE ~x.ws[s].subscriber
  <2>1. IterateTopics(x, s, u, topics) = x
    BY <1>2 DEF IterateTopics
  <2> QED
    BY <2>1 DEF Regroups
<1>3. CASE u = s /\ x.ws[s].subscriber
  <2> DEFINE w == SubscribeTo(z, u, topics)
             y == [w EXCEPT !.tree.iterating = NoSocket]
  <2>1. w \in {z, d}
    BY <1>0, <1>3, IteratedForItself
  <2>2. IterateTopics(x, s, u, topics) \in {w, y}
    BY <1>3 DEF IterateTopics
  <2>3. z \in Worlds /\ Regroups(x, z)
    BY <1>0, IteratingPut, IteratingRegroups
  <2> HIDE DEF z
  <2>4. /\ d \in Worlds /\ d.socket = z.socket /\ d.tree = z.tree /\ d.ws = z.ws
        /\ d.loop.corked = z.loop.corked /\ d.loop.cork = z.loop.cork
    BY <2>3, TerminatedIs
  <2> HIDE DEF d, w
  <2>5. Regroups(z, d)
    BY <2>4 DEF Regroups, Enrolled
  <2>6. w \in Worlds /\ Regroups(x, w)
    <3>1. CASE w = z
      BY <2>3, <3>1
    <3>2. CASE w = d
      BY <2>3, <2>4, <2>5, <3>2, RegroupsTwice
    <3> QED
      BY <2>1, <3>1, <3>2
  <2>7. Regroups(x, y)
    BY <2>6, IteratingRegroups, RegroupsTwice
  <2> HIDE DEF y
  <2> QED
    BY <2>2, <2>6, <2>7
<1> QED
  BY <1>1, <1>2, <1>3

-----------------------------------------------------------------------------
(* The end of a socket. *)

(* Without a subscriber: the others have what they had.                     *)
LEMMA FreedSilent ==
  ASSUME NEW x \in Worlds, NEW s \in Sockets, Consistent(x), x.ws[s].closes = 0
  PROVE  LET y == CloseEvent(x, s)
         IN  /\ y.loop = x.loop /\ y.socket = x.socket /\ y.tree.palette = x.tree.palette
             /\ \A u \in Sockets \ {s} : StaysFor(x, y, u)
             /\ y.tree.indices[s] = << >> /\ Enrolled(y, s)
             /\ y.ws[s].closes = 1 /\ y.ws[s].lossy = x.ws[s].lossy
             /\ y.ws[s].owed = x.ws[s].owed
<1> DEFINE z == FreeSubscriber(x, s)
           y == CloseEvent(x, s)
           k == [z.ws[s] EXCEPT !.subscriber = FALSE, !.closes = @ + 1]
<1>1. /\ z \in Worlds
      /\ z.loop = x.loop /\ z.socket = x.socket /\ z.ws = x.ws
      /\ z.tree.palette = x.tree.palette
      /\ \A t \in Topics : z.tree.topics[t] = x.tree.topics[t] \ {s}
      /\ z.tree.indices[s] = << >>
      /\ \A u \in Sockets \ {s} : z.tree.indices[u] = x.tree.indices[u]
  BY Freed
<1>2. /\ y \in Worlds
      /\ y.loop = x.loop /\ y.socket = x.socket
      /\ \A u \in Sockets \ {s} : y.ws[u] = x.ws[u]
      /\ y.ws[s].closes = 1 /\ y.ws[s].lossy = x.ws[s].lossy
  BY CloseGiven
<1>3. y = WithWs(z, s, k)
  BY DEF CloseEvent, WithWs
<1> HIDE DEF z, y
<1>4. k \in WsData /\ k.owed = z.ws[s].owed
  <2> DEFINE w == z.ws[s]
  <2>1. w \in WsData /\ w.closes = 0
    BY <1>1, WsIs
  <2>2. k = [w EXCEPT !.subscriber = FALSE, !.closes = 1]
    BY <2>1 DEF WsData
  <2> HIDE DEF w, k
  <2>3. k \in WsData /\ k.owed = w.owed
    BY <2>1, <2>2 DEF WsData
  <2> QED
    BY <2>3 DEF w
<1> HIDE DEF k
<1>5. y.tree = z.tree /\ y.ws[s] = k
  BY <1>1, <1>3, <1>4, WsPut
<1>6. Enrolled(y, s)
  BY <1>1, <1>5 DEF Enrolled
<1>7. \A u \in Sockets \ {s} : Enrolled(x, u) => Enrolled(y, u)
  BY <1>1, <1>2, <1>5 DEF Enrolled
<1>8. \A u \in Sockets : Stream(y, u) = Stream(x, u)
  BY <1>2, SocketsStay DEF SameStreams
<1>9. \A u \in Sockets \ {s} : StaysFor(x, y, u)
  BY <1>1, <1>2, <1>5, <1>7, <1>8 DEF StaysFor, Waiting
<1> QED
  BY <1>1, <1>2, <1>4, <1>5, <1>6, <1>9 DEF y


(* us_socket_close: s has nothing to come any more, the others what they    *)
(* had.                                                                     *)
LEMMA CloseSound ==
  ASSUME NEW h, NEW x, NEW s \in Sockets, Good(h, x), NEW fits, NEW n, NEW d, Sound(fits, n, x, d)
  PROVE  Sound(fits, n, CloseSocket(x, s), d)
<1>0. /\ x \in Worlds /\ Consistent(x) /\ Clean(x)
  BY DEF Good
<1> DEFINE z == [x EXCEPT !.socket[s] = [NewSocket EXCEPT !.closed = TRUE], !.ws[s].owed = << >>]
           y == CloseEvent(z, s)
<1>1. /\ z \in Worlds
      /\ z.loop = x.loop /\ z.tree = x.tree
      /\ \A u \in Sockets \ {s} : z.socket[u] = x.socket[u] /\ z.ws[u] = x.ws[u]
      /\ SameLife(x.ws[s], z.ws[s])
      /\ z.socket[s].closed
  BY <1>0, SocketGone
<1>2. CloseSocket(x, s) = IF x.socket[s].closed THEN x ELSE IF x.ws[s].isShuttingDown THEN z ELSE y
  BY DEF CloseSocket
<1> HIDE DEF z
<1>3. \A u \in Sockets : z.ws[u].closes = x.ws[u].closes
  BY <1>1 DEF SameLife
<1>4. ASSUME NEW u \in Sockets \ {s}
      PROVE  StaysFor(x, z, u) /\ (z.socket[u].closed => z.ws[u].closes = 1) /\ SoundAt(fits, n, z, u, d[u])
  <2>1. Stream(z, u) = Stream(x, u)
    BY <1>1 DEF Stream, IsCorked, Buffered
  <2>2. StaysFor(x, z, u)
    BY <1>1, <2>1 DEF StaysFor, Waiting, Enrolled
  <2>3. x.socket[u].closed => x.ws[u].closes = 1
    BY <1>0 DEF Clean, CleanAt
  <2>4. SoundAt(fits, n, z, u, d[u])
    BY <2>2, <2>3, SoundStays DEF Sound
  <2> QED
    BY <1>1, <2>2, <2>3, <2>4
<1>5. Enrolled(z, s)
  BY <1>1 DEF Sound, SoundAt, Enrolled, SameLife
<1>6. CASE x.ws[s].isShuttingDown
  <2>1. z.ws[s].closes = 1
    BY <1>0, <1>3, <1>6 DEF Clean, CleanAt
  <2>2. SoundAt(fits, n, z, s, d[s])
    BY <1>1, <1>5, <2>1 DEF SoundAt
  <2>3. PaletteIsData(z)
    BY <1>1 DEF Sound, PaletteIsData
  <2>4. Sound(fits, n, z, d)
    BY <1>4, <2>2, <2>3 DEF Sound
  <2> QED
    BY <1>2, <1>6, <2>4
<1>7. CASE ~x.ws[s].isShuttingDown /\ ~x.socket[s].closed
  <2>1. Consistent(z) /\ z.ws[s].closes = 0
    BY <1>0, <1>1, <1>3, <1>7, OpenIs DEF Consistent, ConsistentFor, InPalette, ParkedNext
  <2>2. /\ y.socket = z.socket /\ y.tree.palette = z.tree.palette
        /\ \A u \in Sockets \ {s} : StaysFor(z, y, u)
        /\ Enrolled(y, s) /\ y.ws[s].closes = 1
    BY <1>1, <2>1, FreedSilent
  <2> HIDE DEF y
  <2>3. \A u \in Sockets \ {s} : SoundAt(fits, n, y, u, d[u])
    BY <1>4, <2>2, SoundStays
  <2>4. SoundAt(fits, n, y, s, d[s])
    BY <1>1, <2>2 DEF SoundAt
  <2>5. PaletteIsData(y)
    BY <1>1, <2>2 DEF Sound, PaletteIsData
  <2>6. Sound(fits, n, y, d)
    BY <2>3, <2>4, <2>5 DEF Sound
  <2> QED
    BY <1>2, <1>7, <2>6
<1> QED
  BY <1>2, <1>6, <1>7

(* WebSocket::close, which does nothing once the socket ends.               *)
LEMMA WsCloseSound ==
  ASSUME NEW h, NEW x, NEW s \in Sockets, Good(h, x), NEW fits, NEW n, NEW d, Sound(fits, n, x, d)
  PROVE  Sound(fits, n, WsClose(x, s), d)
BY CloseSound DEF WsClose

(* The FIN behind the close frame.                                          *)
LEMMA FinIsSilent ==
  ASSUME NEW sent, NEW s \in Sockets, sent.x \in Worlds
  PROVE  LET y == FinAfter(sent, s)
         IN  /\ Silent(sent.x, y) /\ SameStreams(sent.x, y) /\ y \in Worlds
             /\ y.tree = sent.x.tree /\ y.ws = sent.x.ws
             /\ \A u \in Sockets : y.socket[u].closed = sent.x.socket[u].closed
<1> DEFINE x == sent.x
           z == Shutdown(x, s)
           y == FinAfter(sent, s)
<1>1. y \in {x, z}
  BY DEF FinAfter
<1> HIDE DEF x, y
<1>2. /\ Silent(x, z) /\ SameStreams(x, z) /\ z \in Worlds
      /\ z.tree = x.tree /\ z.ws = x.ws
      /\ \A u \in Sockets : z.socket[u].closed = x.socket[u].closed
  BY ShutdownIsSilent DEF x
<1> HIDE DEF z
<1>3. Silent(x, x) /\ SameStreams(x, x)
  BY DEF Silent, StaysFor, SameStreams
<1>4. x \in Worlds
  BY DEF x
<1> HIDE DEF x
<1>5. /\ Silent(x, y) /\ SameStreams(x, y) /\ y \in Worlds
      /\ y.tree = x.tree /\ y.ws = x.ws
      /\ \A u \in Sockets : y.socket[u].closed = x.socket[u].closed
  BY <1>1, <1>2, <1>3, <1>4
<1> QED
  BY <1>5 DEF x, y

(* end: the close frame is the last, and what was parked is before it or    *)
(* was given up by a drop.                                                  *)
LEMMA EndSound ==
  ASSUME NEW h, NEW x, NEW s \in Sockets, NEW m \in Messages, m.op = "close", Good(h, x),
         ~x.socket[s].closed \/ x.ws[s].closes = 0,
         NEW fits, NEW n, NEW d, \A u \in Sockets : d[u] = << >>, Sound(fits, n, x, d)
  PROVE  Sound(fits, n, End(x, s, m), d)
<1>0. x \in Worlds /\ Consistent(x) /\ Clean(x)
  BY DEF Good
<1>1. CASE x.ws[s].isShuttingDown
  BY <1>1 DEF End
<1>2. CASE ~x.ws[s].isShuttingDown
  <2> DEFINE z == [x EXCEPT !.ws[s].isShuttingDown = TRUE]
             sent == Send(z, s, m)
             w == sent.x
             v == FinAfter(sent, s)
             y == CloseEvent(v, s)
             none == << >>
  <2>0. End(x, s, m) = y
    BY <1>2 DEF End
  <2>1. x.ws[s].closes = 0 /\ ~x.socket[s].closed
    BY <1>0, <1>2, OpenIs
  <2>2. Silent(x, z)
    BY <1>0, EndingIsSilent
  <2>3. /\ z \in Worlds
        /\ z.loop = x.loop /\ z.tree = x.tree /\ z.socket = x.socket
        /\ \A u \in Sockets \ {s} : z.ws[u] = x.ws[u]
        /\ z.ws[s].closes = 0
    BY <1>0, <2>1, Ending
  <2> HIDE DEF z
  <2>4. Consistent(z)
    <3>1. \A u \in Sockets : z.ws[u].closes = x.ws[u].closes
      BY <2>1, <2>3
    <3> QED
      BY <1>0, <2>3, <3>1 DEF Consistent, ConsistentFor, InPalette, ParkedNext
  <2>5. Sound(fits, n, z, d)
    BY <1>0, <2>2, SilentSound
  <2>6. /\ PaletteIsData(z) /\ \A u \in Sockets : SoundAt(fits, n, z, u, none)
    BY <2>5 DEF Sound
  <2>7. /\ FitAt(fits, n, z, s, none) /\ NoClose(Stream(z, s)) /\ Enrolled(z, s)
        /\ ~z.socket[s].closed
    BY <2>1, <2>3, <2>6 DEF SoundAt
  <2>8. none \in Seq(Nat)
    OBVIOUS
  <2> HIDE DEF none
  <2>9. IdsOf(m) \o none = none
    BY ConcatEmptySeq, <2>8 DEF IdsOf, none
  <2>10. FitAt(fits, n, z, s, IdsOf(m) \o none)
    BY <2>7, <2>9
  <2>11. /\ FitAt(fits, n, w, s, none)
         /\ Aside(z, w, s) /\ PaletteStays(z, w)
         /\ w.tree.indices[s] = << >> \/ w.ws[s].lossy
    BY <2>3, <2>4, <2>6, <2>7, <2>8, <2>10, SendFits
  <2>12. Touched(z, w, s) /\ Consistent(w)
    BY <2>3, <2>4, SendTouches
  <2>13. PaletteIsData(w)
    BY <2>6, <2>11, DataStays
  <2>14. ASSUME NEW u \in Sockets \ {s} PROVE SoundAt(fits, n, w, u, none)
    BY <2>6, <2>11, <2>12, OthersSound
  <2>15. w \in Worlds /\ w.ws[s].closes = 0 /\ ~w.socket[s].closed
    BY <2>3, <2>7, <2>12 DEF Touched, SameLife
  <2>16. \A u \in Sockets \ {s} : w.socket[u].closed => w.ws[u].closes = 1
    BY <1>0, <2>3, <2>12 DEF Touched, Clean, CleanAt
  <2>17. /\ Silent(w, v) /\ SameStreams(w, v) /\ v \in Worlds
         /\ v.tree = w.tree /\ v.ws = w.ws
         /\ \A u \in Sockets : v.socket[u].closed = w.socket[u].closed
    <3> HIDE DEF sent
    <3> QED
      BY <2>15, FinIsSilent
  <2> HIDE DEF v, w, sent
  <2>18. Consistent(v) /\ v.ws[s].closes = 0
    BY <2>12, <2>15, <2>17 DEF Consistent, ConsistentFor, InPalette, ParkedNext
  <2>19. /\ y.loop = v.loop /\ y.socket = v.socket /\ y.tree.palette = v.tree.palette
         /\ \A u \in Sockets \ {s} : StaysFor(v, y, u)
         /\ y.tree.indices[s] = << >> /\ Enrolled(y, s)
         /\ y.ws[s].closes = 1 /\ y.ws[s].lossy = v.ws[s].lossy
         /\ y.ws[s].owed = v.ws[s].owed
    BY <2>17, <2>18, FreedSilent
  <2> HIDE DEF y
  <2>20. ASSUME NEW u \in Sockets \ {s} PROVE SoundAt(fits, n, y, u, none)
    <3>1. SoundAt(fits, n, v, u, none)
      BY <2>14, <2>16, <2>17, SoundStays DEF Silent
    <3>2. v.socket[u].closed => v.ws[u].closes = 1
      BY <2>16, <2>17
    <3> QED
      BY <2>19, <3>1, <3>2, SoundStays
  <2>21. FitAt(fits, n, v, s, none)
    <3>1. Stream(v, s) = Stream(w, s) /\ Waiting(v, s) = Waiting(w, s)
      BY <2>17 DEF SameStreams, Waiting
    <3> QED
      BY <2>11, <2>17, <3>1, FitKept
  <2>22. Stream(y, s) = Stream(v, s)
    BY <2>19, SocketsStay DEF SameStreams
  <2>23. Waiting(y, s) = << >>
    BY <2>19, NothingWaits
  <2>24. FitAt(fits, n, y, s, none)
    <3>1. CASE w.tree.indices[s] = << >>
      <4>1. Waiting(v, s) = << >>
        BY <2>17, <3>1, NothingWaits
      <4> QED
        BY <2>19, <2>21, <2>22, <2>23, <4>1, FitKept
    <3>2. CASE w.ws[s].lossy
      <4>1. y.ws[s].lossy /\ InPalette(v, s)
        BY <2>17, <2>18, <2>19, <3>2 DEF Consistent, ConsistentFor
      <4> QED
        BY <2>8, <2>17, <2>21, <2>22, <2>23, <4>1, FitForgets
    <3> QED
      BY <2>11, <3>1, <3>2
  <2>25. SoundAt(fits, n, y, s, none)
    BY <2>19, <2>24 DEF SoundAt
  <2>26. PaletteIsData(y)
    BY <2>13, <2>17, <2>19 DEF PaletteIsData
  <2>27. \A u \in Sockets : SoundAt(fits, n, y, u, d[u])
    BY <2>20, <2>25 DEF none
  <2>28. Sound(fits, n, y, d)
    BY <2>26, <2>27 DEF Sound
  <2> QED
    BY <2>0, <2>28
<1> QED
  BY <1>1, <1>2

-----------------------------------------------------------------------------
(* The handlers. *)

(* A ping is in no account.                                                 *)
LEMMA PingFits ==
  ASSUME NEW fits, NEW n, NEW x \in Worlds, NEW y, NEW s \in Sockets, NEW m \in Messages, m.op = "ping",
         NEW due, InPalette(x, s), ~x.socket[s].closed, NoClose(Stream(x, s)),
         FitAt(fits, n, x, s, due), Streamed(x, y, s, Frame(m)), y.tree = x.tree, y.ws = x.ws
  PROVE  FitAt(fits, n, y, s, due) /\ NoClose(Stream(y, s))
<1> DEFINE q == Stream(x, s)
           p == Frame(m)
           ids == DataIds(q)
<1>1. q \in Seq(Tokens) /\ Fine(q) /\ NoClose(q) /\ ids \in Seq(Nat)
  BY AccountIs DEF FitAt
<1>2. p \in Seq(Tokens) /\ DataIds(p) = << >>
  BY FrameHas, IdsOfFrame DEF IdsOf
<1>3. Stream(y, s) = q \o p
  BY DEF Streamed
<1>4. Fine(q \o p) /\ NoClose(q \o p)
  <2> HIDE DEF q
  <2> QED
    BY <1>1, FrameFollows
<1>5. DataIds(q \o p) = ids
  <2>1. DataIds(q \o p) = DataIds(q) \o DataIds(p)
    <3> HIDE DEF q, p
    <3> QED
      BY <1>1, <1>2, IdsOfTwo
  <2>2. DataIds(q) \o << >> = DataIds(q)
    <3> HIDE DEF q
    <3> QED
      BY <1>1, ConcatEmptySeq
  <2> QED
    BY <1>2, <2>1, <2>2
<1> HIDE DEF q, p
<1>6. Account(y, s) = Account(x, s)
  BY <1>3, <1>5 DEF Account, Waiting, q
<1> QED
  BY <1>3, <1>4, <1>6 DEF FitAt

(* on_timeout: a ping, or the end.                                          *)
LEMMA TimeoutSound ==
  ASSUME NEW x, NEW s \in Sockets, NEW ping \in Messages, ping.op = "ping", Good(NoSocket, x),
         ~x.socket[s].closed, NEW fits, NEW n, NEW d, Sound(fits, n, x, d)
  PROVE  Sound(fits, n, OnTimeout(x, s, ping), d)
<1>0. x \in Worlds /\ Consistent(x) /\ Clean(x) /\ x.loop.corked = NoSocket
  BY DEF Good
<1>1. CASE sendPingsAutomatically /\ ~x.ws[s].isShuttingDown /\ ~x.ws[s].hasTimedOut
  <2> DEFINE f == FALSE
             b == TRUE
             z == [x EXCEPT !.ws[s].hasTimedOut = b]
             p == Frame(ping)
             y == Write(z, s, p, f).x
  <2>1. OnTimeout(x, s, ping) = y
    BY <1>1 DEF OnTimeout
  <2>2. b \in BOOLEAN /\ f \in BOOLEAN
    OBVIOUS
  <2>3. p \in Seq(Tokens)
    BY FrameIs
  <2> HIDE DEF b
  <2>4. /\ Silent(x, z) /\ z \in Worlds /\ z.loop = x.loop /\ z.socket = x.socket
        /\ \A u \in Sockets : z.ws[u].closes = x.ws[u].closes
    BY <1>0, <2>2, TimeoutIsSilent
  <2>5. z.tree = x.tree
    BY <1>0, <2>2, TimeoutPut
  <2> HIDE DEF z, p
  <2>6. Streamed(z, y, s, p)
    <3>1. z.loop.corked # s
      BY <1>0, <2>4, PubSubAssumption
    <3> QED
      BY <2>3, <2>4, <3>1, WriteStreamed
  <2> HIDE DEF f
  <2>7. Sent(z, y, s)
    BY <2>2, <2>3, <2>4, Written
  <2> HIDE DEF y
  <2>8. x.ws[s].closes = 0
    BY <1>0, <1>1, OpenIs
  <2>9. Sound(fits, n, z, d)
    BY <1>0, <2>4, SilentSound
  <2>10. InPalette(z, s)
    BY <1>0, <2>5 DEF Consistent, ConsistentFor, InPalette
  <2>11. y.tree = z.tree /\ y.ws = z.ws /\ \A u \in Sockets : y.socket[u].closed = z.socket[u].closed
    BY <2>7 DEF Sent
  <2>12. FitAt(fits, n, y, s, d[s]) /\ NoClose(Stream(y, s))
    <3>1. FitAt(fits, n, z, s, d[s]) /\ NoClose(Stream(z, s)) /\ ~z.socket[s].closed
      BY <2>4, <2>8, <2>9 DEF Sound, SoundAt
    <3>2. Streamed(z, y, s, Frame(ping))
      BY <2>6 DEF p
    <3> DEFINE due == d[s]
    <3> HIDE DEF due
    <3>3. FitAt(fits, n, z, s, due)
      BY <3>1 DEF due
    <3>4. FitAt(fits, n, y, s, due) /\ NoClose(Stream(y, s))
      BY <2>4, <2>10, <2>11, <3>1, <3>2, <3>3, PingFits
    <3> QED
      BY <3>4 DEF due
  <2>13. Enrolled(y, s)
    BY <2>9, <2>11 DEF Sound, SoundAt, Enrolled
  <2>14. SoundAt(fits, n, y, s, d[s])
    BY <2>12, <2>13 DEF SoundAt
  <2>15. ASSUME NEW u \in Sockets \ {s} PROVE SoundAt(fits, n, y, u, d[u])
    <3>1. Stream(y, u) = Stream(z, u)
      BY <2>6 DEF Streamed
    <3>2. StaysFor(z, y, u)
      BY <2>11, <3>1 DEF StaysFor, Waiting, Enrolled
    <3>3. z.socket[u].closed => z.ws[u].closes = 1
      BY <1>0, <2>4 DEF Clean, CleanAt
    <3> QED
      BY <2>9, <3>2, <3>3, SoundStays DEF Sound
  <2>16. PaletteIsData(y)
    BY <2>9, <2>11 DEF Sound, PaletteIsData
  <2>17. Sound(fits, n, y, d)
    BY <2>14, <2>15, <2>16 DEF Sound
  <2> QED
    BY <2>1, <2>17
<1>2. CASE ~(sendPingsAutomatically /\ ~x.ws[s].isShuttingDown /\ ~x.ws[s].hasTimedOut)
  <2>1. OnTimeout(x, s, ping) = CloseSocket(x, s)
    BY <1>2 DEF OnTimeout
  <2> QED
    BY <2>1, CloseSound
<1> QED
  BY <1>1, <1>2

(* The end of one iteration and the start of the next.                      *)
LEMMA IterationSound ==
  ASSUME NEW x, Good(NoSocket, x), NEW fits, NEW n, NEW d \in [Sockets -> Seq(Nat)], Sound(fits, n, x, d)
  PROVE  Sound(fits, n, PreCb(PostCb(x)), d)
<1> DEFINE y == DrainAll(x)
           z == DieIfCorked(y)
<1>1. PreCb(PostCb(x)) = DrainAll(z)
  BY DEF PreCb, PostCb
<1>2. x \in Worlds /\ Consistent(x) /\ Clean(x)
  BY DEF Good
<1>3. Sound(fits, n, y, d)
  BY <1>2, DrainedAllSound
<1>4. Good(NoSocket, y)
  BY DrainIsGood
<1> HIDE DEF y
<1>5. z = y
  BY <1>4 DEF DieIfCorked, CanCork, Good, Worlds, LoopData
<1>6. Sound(fits, n, DrainAll(y), d)
  BY <1>3, <1>4, DrainedAllSound DEF Good
<1> QED
  BY <1>1, <1>5, <1>6

-----------------------------------------------------------------------------
(* The peer. *)

(* A whole message in front of what is on the wire is its frame.            *)
LEMMA FrontIs ==
  ASSUME NEW wire \in Seq(Tokens), NEW m \in Messages, m.len + 1 <= Len(wire),
         \A i \in 1..m.len + 1 : wire[i] = <<m, i>>
  PROVE  /\ From(wire, m.len + 1) \in Seq(Tokens)
         /\ wire = Frame(m) \o From(wire, m.len + 1)
<1> DEFINE f == Frame(m)
           n == m.len + 1
           a == SubSeq(wire, 1, n)
<1>1. /\ f \in Seq(Tokens) /\ Len(f) = n /\ n \in Nat
      /\ \A i \in 1..n : f[i] = <<m, i>>
  BY FrameHas
<1>2. n <= Len(wire) /\ \A i \in 1..n : wire[i] = <<m, i>>
  OBVIOUS
<1> HIDE DEF f, n
<1>3. Len(wire) \in Nat
  BY LenProperties
<1>4. n \in 0..Len(wire)
  BY <1>1, <1>2, <1>3
<1>5. a \in Seq(Tokens) /\ From(wire, n) \in Seq(Tokens) /\ a \o From(wire, n) = wire
  BY <1>4, CutInTwo
<1>6. Len(a) = n /\ \A i \in 1..n : a[i] = wire[i]
  <2>1. \A i \in 1..n : wire[i] \in Tokens
    BY <1>1, <1>2, <1>3
  <2>2. /\ Len(a) = IF 1 <= n THEN n - 1 + 1 ELSE 0
        /\ \A i \in 1..n - 1 + 1 : a[i] = wire[1 + i - 1]
    BY <1>1, <2>1, SubSeqProperties
  <2>3. (IF 1 <= n THEN n - 1 + 1 ELSE 0) = n /\ n - 1 + 1 = n /\ \A i \in 1..n : 1 + i - 1 = i
    BY <1>1
  <2> HIDE DEF a
  <2> QED
    BY <2>2, <2>3
<1> HIDE DEF a
<1>7. a = f
  <2>1. \A i \in 1..Len(a) : a[i] = f[i]
    BY <1>1, <1>2, <1>6
  <2> QED
    BY <1>1, <1>5, <1>6, <2>1, SeqEqual
<1> QED
  BY <1>5, <1>7 DEF f, n

(* What is left on the wire and owed, where rest is the stream behind it    *)
(* and parked what waits; open says that no close frame was sent.           *)
Owing(fits, open, n, lossy, left, rest, parked) ==
  /\ Fine(left[1] \o rest)
  /\ open => NoClose(left[1] \o rest)
  /\ fits => Ordered(DataIds(left[1] \o rest) \o parked, n)
  /\ fits /\ ~lossy => left[2] = DataIds(left[1] \o rest) \o parked

(* A frame less on the wire, whose id, if it has one, was the first owed.   *)
LEMMA FrameLess ==
  ASSUME NEW fits, NEW open, NEW n, NEW lossy, NEW m \in Messages, NEW wire \in Seq(Tokens),
         NEW rest \in Seq(Tokens), NEW parked \in Seq(Nat), NEW owed, NEW less,
         Owing(fits, open, n, lossy, <<Frame(m) \o wire, owed>>, rest, parked),
         \A ids \in Seq(Nat) : ~lossy /\ owed = IdsOf(m) \o ids => less = ids
  PROVE  Owing(fits, open, n, lossy, <<wire, less>>, rest, parked)
<1> DEFINE f == Frame(m)
           i == IdsOf(m)
           q == wire \o rest
           d == DataIds(q)
           ids == d \o parked
<1>1. f \in Seq(Tokens) /\ i \in Seq(Nat) /\ DataIds(f) = i
  BY FrameHas, IdsOfFrame
<1>2. q \in Seq(Tokens) /\ d \in Seq(Nat)
  <2>1. q \in Seq(Tokens)
    BY IdsOfTwo
  <2> HIDE DEF q
  <2> QED
    BY <2>1, IdsOfTwo
<1>3. (f \o wire) \o rest = f \o q
  <2> HIDE DEF f
  <2> QED
    BY <1>1, InARow
<1>4. DataIds(f \o q) = i \o d
  <2> HIDE DEF f, q, i
  <2> QED
    BY <1>1, <1>2, IdsOfTwo
<1>5. (i \o d) \o parked = i \o ids /\ ids \in Seq(Nat)
  <2>1. i \in Seq(Nat)
    BY <1>1
  <2>2. d \in Seq(Nat)
    BY <1>2
  <2> HIDE DEF i, d
  <2> QED
    BY <2>1, <2>2, IdsInARow
<1>6. /\ Fine(f \o q) /\ (open => NoClose(f \o q))
      /\ fits => Ordered(i \o ids, n)
      /\ fits /\ ~lossy => owed = i \o ids
  <2> DEFINE left == <<f \o wire, owed>>
  <2>1. left[1] = f \o wire /\ left[2] = owed
    OBVIOUS
  <2>2. Owing(fits, open, n, lossy, left, rest, parked)
    OBVIOUS
  <2> HIDE DEF left, f, q, i, d, ids
  <2> QED
    BY <1>3, <1>4, <1>5, <2>1, <2>2 DEF Owing
<1>7. Fine(q) /\ (open => NoClose(q))
  <2> HIDE DEF q
  <2> QED
    BY <1>2, <1>6, FrameLeaves
<1>8. fits => Ordered(ids, n)
  <2> HIDE DEF i, ids
  <2> QED
    BY <1>1, <1>5, <1>6, PartsOrdered
<1>9. fits /\ ~lossy => less = ids
  BY <1>5, <1>6
<1> QED
  BY <1>7, <1>8, <1>9 DEF Owing

(* One message, or none, is taken off the wire.                             *)
LEMMA OneTakenOwing ==
  ASSUME NEW fits, NEW open, NEW n, NEW lossy, NEW left \in Lefts,
         NEW rest \in Seq(Tokens), NEW parked \in Seq(Nat),
         Owing(fits, open, n, lossy, left, rest, parked)
  PROVE  Owing(fits, open, n, lossy, TakeOne(left, lossy), rest, parked)
<1> DEFINE wire == left[1]
           owed == left[2]
           m == wire[1][1]
           k == m.len + 1
           behind == SubSeq(wire, k + 1, Len(wire))
           at == IF lossy THEN SelectInSeq(owed, LAMBDA id : id = m.id) ELSE 1
           less == SubSeq(owed, at + 1, Len(owed))
           AtFront == /\ wire # << >> /\ ~(Len(wire) < k) /\ \A i \in 1..k : wire[i] = <<m, i>>
<1>1. \/ TakeOne(left, lossy) = left
      \/ AtFront /\ m.op = "ping" /\ TakeOne(left, lossy) = <<behind, owed>>
      \/ /\ AtFront /\ m.op = "data" /\ at \in 1..Len(owed) /\ owed[at] = m.id
         /\ TakeOne(left, lossy) = <<behind, less>>
  BY DEF TakeOne
<1>2. wire \in Seq(Tokens) /\ owed \in Seq(Nat) /\ left = <<wire, owed>>
  BY DEF Lefts
<1>3. ~lossy => at = 1
  OBVIOUS
<1> HIDE DEF wire, owed, at
<1>4. ASSUME AtFront
      PROVE  /\ m \in Messages /\ k \in Nat /\ behind \in Seq(Tokens)
             /\ wire = Frame(m) \o behind
  <2>1. wire[1] \in Tokens
    BY <1>2, <1>4
  <2>2. m \in Messages
    BY <2>1, TokenIs
  <2>3. k \in Nat /\ k <= Len(wire)
    BY <1>2, <1>4, <2>2, FrameHas
  <2> HIDE DEF m
  <2>4. From(wire, k) \in Seq(Tokens) /\ wire = Frame(m) \o From(wire, k)
    BY <1>2, <1>4, <2>2, <2>3, FrontIs
  <2> QED
    BY <2>2, <2>3, <2>4 DEF From
<1>5. CASE TakeOne(left, lossy) = left
  BY <1>5
<1>6. CASE AtFront /\ m.op = "ping" /\ TakeOne(left, lossy) = <<behind, owed>>
  <2> HIDE DEF m, behind
  <2>1. \A ids \in Seq(Nat) : ~lossy /\ owed = IdsOf(m) \o ids => owed = ids
    BY <1>6, ConcatEmptySeq DEF IdsOf
  <2>2. Owing(fits, open, n, lossy, <<Frame(m) \o behind, owed>>, rest, parked)
    BY <1>2, <1>4, <1>6
  <2>3. m \in Messages
    BY <1>4, <1>6
  <2>4. behind \in Seq(Tokens)
    BY <1>4, <1>6
  <2>5. Owing(fits, open, n, lossy, <<behind, owed>>, rest, parked)
    BY <2>1, <2>2, <2>3, <2>4, FrameLess
  <2> QED
    BY <1>6, <2>5
<1>7. CASE AtFront /\ m.op = "data" /\ TakeOne(left, lossy) = <<behind, less>>
  <2> HIDE DEF m, behind, less
  <2>1. ASSUME NEW ids \in Seq(Nat), ~lossy, owed = IdsOf(m) \o ids PROVE less = ids
    <3>1. at = 1 /\ m.id \in Nat
      BY <1>3, <1>4, <1>7, <2>1, FrameHas
    <3> DEFINE one == <<m.id>>
    <3>2. owed = one \o ids
      BY <1>7, <2>1 DEF IdsOf
    <3>3. one \in Seq(Nat) /\ Len(one) = 1 /\ one[1] = m.id
      BY <3>1
    <3> HIDE DEF one
    <3>4. Len(ids) \in Nat /\ Len(owed) = 1 + Len(ids) /\ \A j \in 1..Len(ids) : owed[j + 1] = ids[j]
      <4>1. Len(ids) \in Nat
        BY LenProperties
      <4>2. /\ Len(owed) = Len(one) + Len(ids)
            /\ \A j \in 1..Len(one) + Len(ids) : owed[j] = IF j <= Len(one) THEN one[j] ELSE ids[j - Len(one)]
        BY <3>2, <3>3, ConcatProperties
      <4> QED
        BY <3>3, <4>1, <4>2
    <3>5. /\ less \in Seq(Nat) /\ Len(less) = Len(ids)
          /\ \A j \in 1..Len(ids) : less[j] = owed[j + 1]
      <4> DEFINE l == Len(owed)
                 r == SubSeq(owed, 2, l)
      <4>1. less = r
        BY <3>1 DEF less
      <4>2. l \in Nat /\ l = 1 + Len(ids) /\ \A j \in 2..l : owed[j] \in Nat
        BY <1>2, <3>4
      <4>3. /\ r \in Seq(Nat) /\ Len(r) = IF 2 <= l THEN l - 2 + 1 ELSE 0
            /\ \A j \in 1..l - 2 + 1 : r[j] = owed[2 + j - 1]
        <5>1. 2 \in Int /\ l \in Int /\ \A j \in 2..l : owed[j] \in Nat
          BY <4>2
        <5> HIDE DEF l
        <5> QED
          BY <5>1, SubSeqProperties
      <4> HIDE DEF r, l
      <4>4. (IF 2 <= l THEN l - 2 + 1 ELSE 0) = Len(ids) /\ l - 2 + 1 = Len(ids)
        BY <3>4, <4>2
      <4>5. \A j \in 1..Len(ids) : 2 + j - 1 = j + 1
        BY <3>4
      <4> QED
        BY <4>1, <4>3, <4>4, <4>5
    <3>6. \A j \in 1..Len(less) : less[j] = ids[j]
      BY <3>4, <3>5
    <3> QED
      BY <3>5, <3>6, SeqEqual
  <2>2. Owing(fits, open, n, lossy, <<Frame(m) \o behind, owed>>, rest, parked)
    BY <1>2, <1>4, <1>7
  <2>3. m \in Messages
    BY <1>4, <1>7
  <2>4. behind \in Seq(Tokens)
    BY <1>4, <1>7
  <2>5. \A ids \in Seq(Nat) : ~lossy /\ owed = IdsOf(m) \o ids => less = ids
    BY <2>1
  <2>6. Owing(fits, open, n, lossy, <<behind, less>>, rest, parked)
    BY <2>2, <2>3, <2>4, <2>5, FrameLess
  <2> QED
    BY <1>7, <2>6
<1> QED
  BY <1>1, <1>5, <1>6, <1>7

(* As many messages as can be.                                              *)
LEMMA TakenOwing ==
  ASSUME NEW fits, NEW open, NEW n, NEW lossy, NEW wire \in Seq(Tokens), NEW owed \in Seq(Nat),
         NEW rest \in Seq(Tokens), NEW parked \in Seq(Nat),
         Owing(fits, open, n, lossy, <<wire, owed>>, rest, parked)
  PROVE  /\ Taken(wire, owed, lossy) \in Lefts
         /\ Owing(fits, open, n, lossy, Taken(wire, owed, lossy), rest, parked)
<1> DEFINE A == <<wire, owed>>
           P == {left \in Lefts : Owing(fits, open, n, lossy, left, rest, parked)}
<1>1. A \in Lefts
  BY DEF Lefts
<1>2. Owing(fits, open, n, lossy, A, rest, parked)
  OBVIOUS
<1> HIDE DEF A
<1>3. A \in P
  BY <1>1, <1>2
<1>4. ASSUME NEW left \in P PROVE TakeOne(left, lossy) \in P
  <2>1. left \in Lefts /\ Owing(fits, open, n, lossy, left, rest, parked)
    OBVIOUS
  <2>2. TakeOne(left, lossy) \in Lefts
    BY <2>1, OneTaken
  <2>3. Owing(fits, open, n, lossy, TakeOne(left, lossy), rest, parked)
    BY <2>1, OneTakenOwing
  <2> QED
    BY <2>2, <2>3
<1>5. P \in SUBSET Lefts
  OBVIOUS
<1> HIDE DEF P
<1>6. Taken(wire, owed, lossy) \in P
  BY <1>3, <1>4, <1>5, TakenStays DEF A
<1> QED
  BY <1>6 DEF P

(* What is behind the wire.                                                 *)
BehindWire(x, s) == Buffered(x, s) \o CorkOf(x, s)

(* The wire and what is behind it are the stream.                           *)
LEMMA WireAndRest ==
  ASSUME NEW x \in Worlds, NEW s \in Sockets
  PROVE  /\ BehindWire(x, s) \in Seq(Tokens)
         /\ Stream(x, s) = x.socket[s].wire \o BehindWire(x, s)
<1> DEFINE w == x.socket[s].wire
           b == Buffered(x, s)
           c == CorkOf(x, s)
<1>1. w \in Seq(Tokens)
  BY StreamIs
<1>2. b \in Seq(Tokens)
  BY BufferedIs
<1>3. c \in Seq(Tokens)
  BY StreamIs
<1>4. Stream(x, s) = (w \o b) \o c
  BY StreamIs DEF Out
<1>5. BehindWire(x, s) = b \o c
  BY DEF BehindWire
<1> HIDE DEF w, b, c
<1>6. (w \o b) \o c = w \o (b \o c)
  BY <1>1, <1>2, <1>3, InARow
<1>7. b \o c \in Seq(Tokens)
  BY <1>2, <1>3, IdsOfTwo
<1> QED
  BY <1>4, <1>5, <1>6, <1>7 DEF w

(* What the peer takes settles what it was owed.                            *)
LEMMA DeliveredSound ==
  ASSUME NEW h, NEW x, Good(h, x), NEW fits, NEW n, NEW d, \A u \in Sockets : d[u] = << >>,
         Sound(fits, n, x, d)
  PROVE  Sound(fits, n, Delivered(x), d)
<1> DEFINE y == Delivered(x)
           none == << >>
<1>1. x \in Worlds /\ Consistent(x) /\ Clean(x)
  BY DEF Good
<1>2. /\ y \in Worlds /\ y.loop = x.loop /\ y.tree = x.tree
      /\ \A s \in Sockets :
           LET left == Taken(x.socket[s].wire, x.ws[s].owed, x.ws[s].lossy)
           IN  /\ y.socket[s].wire = left[1] /\ y.ws[s].owed = left[2]
               /\ y.socket[s].closed = x.socket[s].closed
               /\ y.socket[s].buffer = x.socket[s].buffer
               /\ y.socket[s].pendingRemoval = x.socket[s].pendingRemoval
               /\ y.ws[s].subscriber = x.ws[s].subscriber
               /\ y.ws[s].closes = x.ws[s].closes
               /\ y.ws[s].lossy = x.ws[s].lossy
  BY <1>1, DeliveredIs
<1> HIDE DEF y
<1>3. ASSUME NEW s \in Sockets PROVE SoundAt(fits, n, y, s, none)
  <2> DEFINE lossy == x.ws[s].lossy
             wire == x.socket[s].wire
             owed == x.ws[s].owed
             left == Taken(wire, owed, lossy)
             rest == BehindWire(x, s)
             parked == Waiting(x, s)
             open == x.ws[s].closes = 0
  <2>1. SoundAt(fits, n, x, s, none)
    BY DEF Sound
  <2>2. Enrolled(y, s)
    BY <1>2, <2>1 DEF SoundAt, Enrolled
  <2>3. CASE x.socket[s].closed
    <3>1. y.socket[s].closed /\ y.ws[s].closes = 1
      BY <1>1, <1>2, <2>3 DEF Clean, CleanAt
    <3> QED
      BY <2>2, <3>1 DEF SoundAt
  <2>4. CASE ~x.socket[s].closed
    <3>1. /\ y.socket[s].wire = left[1] /\ y.ws[s].owed = left[2]
          /\ y.ws[s].lossy = lossy /\ (y.ws[s].closes = 0 <=> open)
      BY <1>2
    <3>2. wire \in Seq(Tokens) /\ rest \in Seq(Tokens) /\ Stream(x, s) = wire \o rest
      BY <1>1, StreamIs, WireAndRest
    <3>3. owed \in Seq(Nat)
      <4>1. x.ws[s] \in WsData
        BY <1>1, WsIs
      <4> QED
        BY <4>1 DEF WsData
    <3>4. parked \in Seq(Nat) /\ Account(x, s) \in Seq(Nat)
      <4>1. InPalette(x, s)
        BY <1>1 DEF Consistent, ConsistentFor
      <4> QED
        BY <1>1, <4>1, AccountIs
    <3>5. BehindWire(y, s) = rest
      BY <1>2 DEF BehindWire, Buffered, CorkOf, IsCorked
    <3>6. Stream(y, s) = left[1] \o rest
      BY <1>2, <3>1, <3>5, WireAndRest
    <3>7. Waiting(y, s) = parked
      BY <1>2 DEF Waiting
    <3>8. Account(x, s) = DataIds(wire \o rest) \o parked
      BY <3>2 DEF Account
    <3>9. Account(y, s) = DataIds(left[1] \o rest) \o parked
      BY <3>6, <3>7 DEF Account
    <3>10. Fine(wire \o rest) /\ (open => NoClose(wire \o rest))
      BY <2>1, <2>4, <3>2 DEF SoundAt, FitAt
    <3>11. Account(x, s) \o none = Account(x, s)
      <4> DEFINE a == Account(x, s)
      <4>1. a \in Seq(Nat)
        BY <3>4
      <4> HIDE DEF a
      <4>2. a \o none = a
        BY <4>1, ConcatEmptySeq
      <4> QED
        BY <4>2 DEF a
    <3>12. fits => Ordered(Account(x, s), n) /\ (~lossy => owed = Account(x, s))
      BY <2>1, <2>4, <3>11 DEF SoundAt, FitAt, Settles
    <3> DEFINE first == <<wire, owed>>
    <3>13. first[1] = wire /\ first[2] = owed
      OBVIOUS
    <3> HIDE DEF first, wire, owed, rest, parked, lossy, open
    <3>14. Owing(fits, open, n, lossy, first, rest, parked)
      BY <3>8, <3>10, <3>12, <3>13 DEF Owing
    <3>15. left \in Lefts /\ Owing(fits, open, n, lossy, left, rest, parked)
      BY <3>2, <3>3, <3>4, <3>14, TakenOwing DEF first
    <3> HIDE DEF left
    <3>16. Fine(Stream(y, s)) /\ (y.ws[s].closes = 0 => NoClose(Stream(y, s)))
      BY <3>1, <3>6, <3>15 DEF Owing
    <3>17. Account(y, s) \o none = Account(y, s)
      <4> DEFINE a == Account(y, s)
      <4>1. a \in Seq(Nat)
        <5>1. InPalette(y, s)
          BY <1>1, <1>2 DEF Consistent, ConsistentFor, InPalette
        <5> QED
          BY <1>2, <5>1, AccountIs
      <4> HIDE DEF a
      <4>2. a \o none = a
        BY <4>1, ConcatEmptySeq
      <4> QED
        BY <4>2 DEF a
    <3>18. fits => Settles(Account(y, s) \o none, n, y.ws[s])
      BY <3>1, <3>9, <3>15, <3>17 DEF Owing, Settles
    <3> QED
      BY <2>2, <3>16, <3>18 DEF SoundAt, FitAt
  <2> QED
    BY <2>3, <2>4
<1>4. PaletteIsData(y)
  BY <1>2 DEF Sound, PaletteIsData
<1>5. Sound(fits, n, y, d)
  BY <1>3, <1>4 DEF Sound
<1> QED
  BY <1>5 DEF y

-----------------------------------------------------------------------------
(* The steps. *)

(* What holds of a world does not depend on its kernel.                     *)
LEMMA PartsSound ==
  ASSUME NEW fits, NEW n, NEW x, NEW y, NEW d, Clean(x), Sound(fits, n, x, d),
         y.loop = x.loop, y.socket = x.socket, y.tree = x.tree, y.ws = x.ws
  PROVE  Sound(fits, n, y, d)
<1>1. SameStreams(x, y)
  BY SocketsStay
<1>2. \A u \in Sockets : Enrolled(x, u) => Enrolled(y, u)
  BY DEF Enrolled
<1>3. Silent(x, y)
  BY <1>1, <1>2, SameIsSilent
<1> QED BY <1>3, SilentSound

(* A call is made from what is between the calls.                           *)
LEMMA CallStartsSound ==
  ASSUME NEW fits, NEW n, NEW d, NEW h, NEW kernel, Good(h, Now), Sound(fits, n, Now, d)
  PROVE  Sound(fits, n, World(kernel), d)
<1> DEFINE x == Now
           y == World(kernel)
<1>1. y.loop = x.loop /\ y.socket = x.socket /\ y.tree = x.tree /\ y.ws = x.ws
  BY WorldHas, NowHas
<1>2. Clean(x) /\ Sound(fits, n, x, d)
  BY DEF Good
<1> HIDE DEF x, y
<1>3. Sound(fits, n, y, d)
  BY <1>1, <1>2, PartsSound
<1> QED BY <1>3 DEF y

(* And ends there, with what the peers then take.                           *)
LEMMA CallEndsSound ==
  ASSUME NEW fits, NEW n, NEW h, NEW y, Good(h, y), Becomes(y), Sound(Held(fits, y), n, y, NoDues)
  PROVE  Sound(Held(fits, Now'), n, Now', NoDues)
<1> DEFINE z == Delivered(y)
           w == Now'
           none == NoDues
           held == Held(fits, y)
<1>1. \A u \in Sockets : none[u] = << >>
  BY DEF NoDues
<1>2. Sound(held, n, y, none)
  OBVIOUS
<1>3. z.tree = y.tree
  BY DeliveredIs DEF Good
<1>4. w.loop = z.loop /\ w.socket = z.socket /\ w.tree = z.tree /\ w.ws = z.ws
  BY DEF Becomes, Now, World
<1> HIDE DEF w, none, held
<1>5. Sound(held, n, z, none)
  BY <1>1, <1>2, DeliveredSound
<1>6. Clean(z)
  BY DeliveredIsGood DEF Good
<1> HIDE DEF z
<1>7. Sound(held, n, w, none)
  BY <1>4, <1>5, <1>6, PartsSound
<1>8. Held(fits, w) = held
  BY <1>3, <1>4 DEF held, Held
<1>9. Sound(Held(fits, w), n, w, none)
  BY <1>7, <1>8
<1> QED BY <1>9 DEF w, none

(* The same of a call that parks nothing.                                   *)
LEMMA CallEndsWell ==
  ASSUME NEW fits, NEW n, NEW h, NEW y, Good(h, y), Becomes(y), Sound(fits, n, y, NoDues)
  PROVE  Sound(Held(fits, Now'), n, Now', NoDues)
<1> DEFINE none == NoDues
<1>1. \A u \in Sockets : none[u] = << >>
  BY DEF NoDues
<1>2. Sound(fits, n, y, none)
  OBVIOUS
<1> HIDE DEF none
<1>3. Sound(Held(fits, y), n, y, NoDues)
  BY <1>1, <1>2, SoundHeld
<1> QED BY <1>3, CallEndsSound


(* What holds of the streams, once as many messages as nextId says are      *)
(* numbered.                                                                *)
Streams(fits) == Sound(fits, nextId, Now, NoDues)

(* And once a step has been taken: of what is in order and owed only while  *)
(* the indices of the palette still fit.                                    *)
StreamsGoOn(fits) == Sound(Held(fits, Now'), nextId', Now', NoDues)

(* send of one socket.                                                      *)
LEMMA SendSound ==
  ASSUME IInv, NEW fits, Streams(fits), NEW s \in Sockets, AppSend(s)
  PROVE  Sound(Held(fits, Now'), nextId', Now', NoDues)
<1>1. PICK kernel \in Kernels, len \in Lengths[nextId] :
        Calls(SendOwed(World(kernel), s, Message("data", len)))
  BY DEF AppSend
<1> DEFINE x == World(kernel)
           m == Message("data", len)
           y == SendOwed(x, s, m)
           later == nextId + 1
<1>2. Good(Holder, x) /\ Sound(fits, nextId, x, NoDues)
  BY CallStarts, CallStartsSound DEF IInv, Streams
<1>3. m \in Messages /\ m.op = "data" /\ m.id = nextId
  BY LengthIs DEF AppSend, Message
<1>4. x.ws[s].closes = 0
  BY WorldHas DEF AppSend, Usable
<1>5. nextId' = later /\ Becomes(y)
  BY <1>1 DEF AppSend, Numbered, Calls
<1> HIDE DEF x, m
<1>6. Kept(x, y) /\ Consistent(y)
  BY <1>2, <1>3, <1>4, SentOwed DEF Good
<1>7. Good(Holder, y)
  BY <1>2, <1>6, KeptIsGood
<1>8. Sound(fits, m.id + 1, y, NoDues)
  BY <1>2, <1>3, <1>4, OneSentSound DEF Good
<1> HIDE DEF y
<1>9. Sound(fits, later, y, NoDues)
  BY <1>3, <1>8
<1> HIDE DEF later
<1>10. Sound(Held(fits, Now'), later, Now', NoDues)
  BY <1>5, <1>7, <1>9, CallEndsWell
<1> QED BY <1>5, <1>10

(* publish of one socket.                                                   *)
LEMMA PublishedSound ==
  ASSUME IInv, NEW fits, Streams(fits), NEW s \in Sockets, NEW t \in Topics, AppPublishes(s, t)
  PROVE  Sound(Held(fits, Now'), nextId', Now', NoDues)
<1>1. PICK kernel \in Kernels, len \in Lengths[nextId] :
        Calls(Publish(World(kernel), s, t, Message("data", len)))
  BY DEF AppPublishes
<1> DEFINE x == World(kernel)
           m == Message("data", len)
           y == Publish(x, s, t, m)
           later == nextId + 1
<1>2. Good(Holder, x) /\ Sound(fits, nextId, x, NoDues)
  BY CallStarts, CallStartsSound DEF IInv, Streams
<1>3. m \in Messages /\ m.op = "data" /\ m.id = nextId
  BY LengthIs DEF AppPublishes, Message
<1>5. nextId' = later /\ Becomes(y)
  BY <1>1 DEF AppPublishes, Numbered, Calls
<1> HIDE DEF x, m
<1>6. Kept(x, y) /\ Consistent(y)
  BY <1>2, <1>3, Published DEF Good
<1>7. Good(Holder, y)
  BY <1>2, <1>6, KeptIsGood
<1>8. Sound(Held(fits, y), m.id + 1, y, NoDues)
  BY <1>2, <1>3, PublishSound DEF Good
<1> HIDE DEF y
<1>9. Sound(Held(fits, y), later, y, NoDues)
  BY <1>3, <1>8
<1> HIDE DEF later
<1>10. Sound(Held(fits, Now'), later, Now', NoDues)
  BY <1>5, <1>7, <1>9, CallEndsSound
<1> QED BY <1>5, <1>10

(* publish of App, which excludes nobody.                                   *)
LEMMA PublishedToAllSound ==
  ASSUME IInv, NEW fits, Streams(fits), NEW t \in Topics, AppPublishesToAll(t)
  PROVE  Sound(Held(fits, Now'), nextId', Now', NoDues)
<1>1. PICK kernel \in Kernels, len \in Lengths[nextId] :
        Calls(AppPublish(World(kernel), NoSocket, t, Message("data", len)))
  BY DEF AppPublishesToAll
<1> DEFINE x == World(kernel)
           m == Message("data", len)
           y == AppPublish(x, NoSocket, t, m)
           later == nextId + 1
<1>2. Good(Holder, x) /\ Sound(fits, nextId, x, NoDues)
  BY CallStarts, CallStartsSound DEF IInv, Streams
<1>3. m \in Messages /\ m.op = "data" /\ m.id = nextId
  BY LengthIs DEF AppPublishesToAll, Message
<1>5. nextId' = later /\ Becomes(y)
  BY <1>1 DEF AppPublishesToAll, Numbered, Calls
<1> HIDE DEF x, m
<1>6. Kept(x, y) /\ Consistent(y)
  BY <1>2, <1>3, AppPublished DEF Good
<1>7. Good(Holder, y)
  BY <1>2, <1>6, KeptIsGood
<1>8. Sound(Held(fits, y), m.id + 1, y, NoDues)
  BY <1>2, <1>3, AppPublishSound DEF Good
<1> HIDE DEF y
<1>9. Sound(Held(fits, y), later, y, NoDues)
  BY <1>3, <1>8
<1> HIDE DEF later
<1>10. Sound(Held(fits, Now'), later, Now', NoDues)
  BY <1>5, <1>7, <1>9, CallEndsSound
<1> QED BY <1>5, <1>10


(* A call that does not park, whose message has a number but is not data.   *)
LEMMA NumberedSound ==
  ASSUME NEW fits, NEW n \in Nat, NEW h, NEW y, Good(h, y), Becomes(y), Sound(fits, n, y, NoDues),
         nextId' = n + 1
  PROVE  Sound(Held(fits, Now'), nextId', Now', NoDues)
<1> DEFINE later == n + 1
<1>1. Sound(fits, later, y, NoDues)
  BY AllLater DEF Good
<1>2. nextId' = later
  OBVIOUS
<1> HIDE DEF later
<1>3. Sound(Held(fits, Now'), later, Now', NoDues)
  BY <1>1, CallEndsWell
<1> QED BY <1>2, <1>3

(* end, by the application or for the long timeout.                         *)
LEMMA EndingSound ==
  ASSUME IInv, NEW fits, Streams(fits), NEW s \in Sockets, NEW h, NEW kernel \in Kernels, Good(h, Now),
         ~socket[s].closed \/ ws[s].closes = 0,
         Becomes(End(World(kernel), s, Message("close", 1))), nextId' = nextId + 1
  PROVE  Sound(Held(fits, Now'), nextId', Now', NoDues)
<1> DEFINE x == World(kernel)
           m == Message("close", 1)
           y == End(x, s, m)
           none == NoDues
<1>1. Good(h, x) /\ Sound(fits, nextId, x, none)
  BY CallStarts, CallStartsSound DEF Streams
<1>2. m \in Messages /\ m.op = "close"
  BY MessageIs DEF Message
<1>3. ~x.socket[s].closed \/ x.ws[s].closes = 0
  BY WorldHas
<1>4. Becomes(y) /\ nextId \in Nat
  BY DEF IInv
<1>5. \A u \in Sockets : none[u] = << >>
  BY DEF NoDues
<1> HIDE DEF x, m, none
<1>6. Good(h, y)
  BY <1>1, <1>2, <1>3, Ended
<1>7. Sound(fits, nextId, y, none)
  BY <1>1, <1>2, <1>3, <1>5, EndSound
<1> HIDE DEF y
<1>8. Sound(fits, nextId, y, NoDues)
  BY <1>7 DEF none
<1> QED BY <1>4, <1>6, <1>8, NumberedSound

(* end by the application.                                                  *)
LEMMA AppEndSound ==
  ASSUME IInv, NEW fits, Streams(fits), NEW s \in Sockets, AppEnd(s)
  PROVE  Sound(Held(fits, Now'), nextId', Now', NoDues)
<1>1. PICK kernel \in Kernels : Calls(End(World(kernel), s, Message("close", 1)))
  BY DEF AppEnd
<1>2. Becomes(End(World(kernel), s, Message("close", 1))) /\ nextId' = nextId + 1
  BY <1>1 DEF Calls, AppEnd
<1>3. Good(Holder, Now) /\ ws[s].closes = 0
  BY DEF IInv, AppEnd, Usable
<1> QED BY <1>2, <1>3, EndingSound

(* The long timeout, which ends a socket that may have ended before.        *)
LEMMA LongTimeoutSound ==
  ASSUME IInv, NEW fits, Streams(fits), NEW s \in Sockets, LongTimeout(s)
  PROVE  Sound(Held(fits, Now'), nextId', Now', NoDues)
<1>1. PICK kernel \in Kernels : Becomes(End(World(kernel), s, Message("close", 1)))
  BY DEF LongTimeout
<1>2. Good(NoSocket, Now) /\ ~socket[s].closed /\ nextId' = nextId + 1
  BY FreeIs DEF LongTimeout, Open
<1> QED BY <1>1, <1>2, EndingSound

(* The idle timeout.                                                        *)
LEMMA IdleTimeoutSound ==
  ASSUME IInv, NEW fits, Streams(fits), NEW s \in Sockets, Timeout(s)
  PROVE  Sound(Held(fits, Now'), nextId', Now', NoDues)
<1>1. PICK kernel \in Kernels : Becomes(OnTimeout(World(kernel), s, Message("ping", 1)))
  BY DEF Timeout
<1> DEFINE x == World(kernel)
           m == Message("ping", 1)
           y == OnTimeout(x, s, m)
<1>2. Good(NoSocket, x) /\ ~x.socket[s].closed /\ Sound(fits, nextId, x, NoDues)
  BY FreeIs, CallStarts, CallStartsSound, WorldHas DEF Timeout, Open, Streams
<1>3. m \in Messages /\ m.op = "ping"
  BY MessageIs DEF Message
<1>4. Becomes(y) /\ nextId \in Nat /\ nextId' = nextId + 1
  BY <1>1 DEF IInv, Timeout
<1> HIDE DEF x, m
<1>5. Good(NoSocket, y)
  BY <1>2, <1>3, TimedOut
<1>6. Sound(fits, nextId, y, NoDues)
  BY <1>2, <1>3, TimeoutSound
<1> HIDE DEF y
<1> QED BY <1>4, <1>5, <1>6, NumberedSound

(* A call that sends nothing.                                               *)
LEMMA SilentCall ==
  ASSUME NEW fits, NEW n, NEW h, NEW x, NEW y, Good(h, y), Becomes(y), Clean(x), Silent(x, y),
         Sound(fits, n, x, NoDues), nextId' = n
  PROVE  Sound(Held(fits, Now'), nextId', Now', NoDues)
<1>1. Sound(fits, n, y, NoDues)
  BY SilentSound
<1>2. Sound(Held(fits, Now'), n, Now', NoDues)
  BY <1>1, CallEndsWell
<1> QED BY <1>2

(* close by the application.                                                *)
LEMMA AppCloseSound ==
  ASSUME IInv, NEW fits, Streams(fits), NEW s \in Sockets, AppCloses(s)
  PROVE  Sound(Held(fits, Now'), nextId', Now', NoDues)
<1> DEFINE y == WsClose(Now, s)
<1>1. Good(Holder, Now) /\ Sound(fits, nextId, Now, NoDues)
  BY DEF IInv, Streams
<1>2. Good(Holder, y)
  BY <1>1, WsClosed
<1>3. Sound(fits, nextId, y, NoDues)
  BY <1>1, WsCloseSound
<1>4. nextId' = nextId /\ Becomes(y)
  BY DEF AppCloses, Calls
<1> HIDE DEF y
<1>5. Sound(Held(fits, Now'), nextId, Now', NoDues)
  BY <1>2, <1>3, <1>4, CallEndsWell
<1> QED BY <1>4, <1>5

(* The FIN of the peer.                                                     *)
LEMMA PeerEndSound ==
  ASSUME IInv, NEW fits, Streams(fits), NEW s \in Sockets, OnEnd(s)
  PROVE  Sound(Held(fits, Now'), nextId', Now', NoDues)
<1> DEFINE y == CloseSocket(Now, s)
<1>1. Good(NoSocket, Now) /\ Sound(fits, nextId, Now, NoDues)
  BY FreeIs DEF OnEnd, Open, Streams
<1>2. Good(NoSocket, y)
  BY <1>1, SocketClosed
<1>3. Sound(fits, nextId, y, NoDues)
  BY <1>1, CloseSound
<1>4. nextId' = nextId /\ Becomes(y)
  BY DEF OnEnd
<1> HIDE DEF y
<1>5. Sound(Held(fits, Now'), nextId, Now', NoDues)
  BY <1>2, <1>3, <1>4, CallEndsWell
<1> QED BY <1>4, <1>5


(* subscribe and unsubscribe: nobody is iterating between two calls.        *)
LEMMA AppSubscribeSound ==
  ASSUME IInv, NEW fits, Streams(fits), NEW s \in Sockets, NEW t \in Topics,
         AppSubscribes(s, t) \/ AppUnsubscribes(s, t)
  PROVE  Sound(Held(fits, Now'), nextId', Now', NoDues)
<1> DEFINE n == nextId
           x == Now
<1>1. Good(Holder, x) /\ Clean(x) /\ Sound(fits, n, x, NoDues)
  BY DEF IInv, Streams, Good
<1>2. x \in Worlds /\ Consistent(x) /\ x.tree.iterating # s
  <2>1. ~x.loop.dead
    BY NowHas DEF AppSubscribes, AppUnsubscribes, Usable
  <2> QED BY <1>1, <2>1, PubSubAssumption DEF Good
<1>3. CASE AppSubscribes(s, t)
  <2> DEFINE y == Subscribe(x, s, t)
  <2>1. x.ws[s].closes = 0
    BY <1>3, NowHas DEF AppSubscribes, Usable
  <2>2. nextId' = n /\ Becomes(y)
    BY <1>3 DEF AppSubscribes, Calls
  <2> HIDE DEF x, n
  <2>3. Good(Holder, y)
    BY <1>1, <1>2, <2>1, Subscribed, RegroupedIsGood
  <2>4. Silent(x, y)
    BY <1>2, SubscribeRegroups, RegroupsIsSilent
  <2> HIDE DEF y
  <2> QED BY <1>1, <2>2, <2>3, <2>4, SilentCall
<1>4. CASE AppUnsubscribes(s, t)
  <2> DEFINE y == Unsubscribe(x, s, t)
  <2>2. nextId' = n /\ Becomes(y)
    BY <1>4 DEF AppUnsubscribes, Calls
  <2> HIDE DEF x, n
  <2>3. Good(Holder, y)
    BY <1>1, <1>2, Unsubscribed, RegroupedIsGood
  <2>4. Silent(x, y)
    BY <1>2, UnsubscribeRegroups, RegroupsIsSilent
  <2> HIDE DEF y
  <2> QED BY <1>1, <2>2, <2>3, <2>4, SilentCall
<1> QED BY <1>3, <1>4

(* iterateTopics of s, with a callback that subscribes u.                   *)
LEMMA AppIterateSound ==
  ASSUME IInv, NEW fits, Streams(fits), NEW s \in Sockets, NEW u \in Sockets, AppIterates(s, u)
  PROVE  Sound(Held(fits, Now'), nextId', Now', NoDues)
<1> DEFINE n == nextId
           x == Now
<1>1. Good(Holder, x) /\ Clean(x) /\ Sound(fits, n, x, NoDues)
  BY DEF IInv, Streams, Good
<1>2. x.ws[u].closes = 0 /\ ~x.loop.dead
  BY NowHas DEF AppIterates, Usable
<1>3. PICK topics \in {TopicsOf(x, s), OtherTopics(x, s)} : Becomes(IterateTopics(x, s, u, topics))
  BY DEF AppIterates, Calls
<1> DEFINE y == IterateTopics(x, s, u, topics)
<1>4. nextId' = n /\ Becomes(y)
  BY <1>3 DEF AppIterates
<1>5. topics \subseteq Topics
  BY <1>3 DEF TopicsOf, OtherTopics
<1> HIDE DEF x, n
<1>6. Good(Holder, y)
  BY <1>1, <1>2, <1>5, Iterated
<1>7. Silent(x, y)
  BY <1>1, <1>2, <1>5, IterateRegroups, RegroupsIsSilent
<1> HIDE DEF y
<1> QED BY <1>1, <1>4, <1>6, <1>7, SilentCall

(* WebSocket::cork.                                                         *)
LEMMA AppCorkSound ==
  ASSUME IInv, NEW fits, Streams(fits), NEW s \in Sockets, AppCorks(s)
  PROVE  Sound(Held(fits, Now'), nextId', Now', NoDues)
<1> DEFINE n == nextId
           x == Now
           y == Cork(x, s)
<1>1. Good(NoSocket, x) /\ x.ws[s].closes = 0
  BY NobodyHolds, NowHas DEF IInv, AppCorks, Usable
<1>2. nextId' = n /\ Becomes(y) /\ Sound(fits, n, x, NoDues)
  BY DEF AppCorks, Streams
<1> HIDE DEF x, n
<1>3. Good(s, y)
  BY <1>1, CorkIsTaken
<1>4. Silent(x, y) /\ Clean(x)
  BY <1>1, CorkIsSilent DEF Good
<1> HIDE DEF y
<1> QED BY <1>2, <1>3, <1>4, SilentCall

(* Data comes in.                                                           *)
LEMMA DataSound ==
  ASSUME IInv, NEW fits, Streams(fits), NEW s \in Sockets, OnData(s)
  PROVE  Sound(Held(fits, Now'), nextId', Now', NoDues)
<1> DEFINE n == nextId
           x == Now
           y == OnDataBegin(x, s)
<1>1. Good(NoSocket, x)
  BY FreeIs DEF OnData, Open
<1>2. ~x.ws[s].isShuttingDown /\ ~x.socket[s].closed
  BY NowHas DEF OnData, Open
<1>3. nextId' = n /\ Becomes(y) /\ Sound(fits, n, x, NoDues)
  BY DEF OnData, Streams
<1> HIDE DEF x, n
<1>4. x.ws[s].closes = 0
  BY <1>1, <1>2, OpenIs DEF Good
<1>5. Good(s, y)
  BY <1>1, <1>4, DataBegins
<1>6. Silent(x, y) /\ Clean(x)
  BY <1>1, DataBeginIsSilent DEF Good
<1> HIDE DEF y
<1> QED BY <1>3, <1>5, <1>6, SilentCall

(* A handler that returns has its cork taken back.                          *)
LEMMA ReturnIsGood ==
  ASSUME IInv, NEW kernel \in Kernels
  PROVE  LET x == World(kernel)
             y == Returned(x)
         IN  Good(NoSocket, y) /\ Clean(x) /\ Silent(x, y)
<1> DEFINE x == World(kernel)
<1>1. Good(Holder, x)
  BY CallStarts DEF IInv
<1>2. x \in Worlds /\ Clean(x)
  BY <1>1 DEF Good
<1> HIDE DEF x
<1>3. CASE running.in = "data"
  <2>1. running.at \in Sockets /\ Holder = running.at
    BY <1>3 DEF IInv, HandlerIs, Holder, Idle, InCall
  <2>2. Returned(x) = OnDataEnd(x, running.at)
    BY <1>3 DEF Returned
  <2>3. Good(NoSocket, Returned(x)) /\ Silent(x, Returned(x))
    BY <1>1, <1>2, <2>1, <2>2, DataEnds, DataEndIsSilent
  <2> QED BY <1>2, <2>3 DEF x
<1>4. CASE running.in = "cork"
  <2>1. running.at \in Sockets /\ Holder = running.at
    BY <1>4 DEF IInv, HandlerIs, Holder, Idle, InCall
  <2>2. Returned(x) = Uncork(x, running.at, << >>, FALSE).x
    BY <1>4 DEF Returned
  <2>3. Good(NoSocket, Uncork(x, running.at, << >>, FALSE).x)
    BY <1>1, <2>1, CorkIsFree
  <2>4. Silent(x, Uncork(x, running.at, << >>, FALSE).x)
    BY <1>2, <2>1, UncorkIsSilent
  <2> QED BY <1>2, <2>2, <2>3, <2>4 DEF x
<1>5. CASE running.in \notin {"data", "cork"}
  <2>1. Holder = NoSocket
    BY <1>5 DEF Holder
  <2>2. Returned(x) = x
    BY <1>5 DEF Returned
  <2>3. Silent(x, x)
    BY SameIsSilent DEF SameStreams
  <2> QED BY <1>1, <1>2, <2>1, <2>2, <2>3 DEF x
<1> QED BY <1>3, <1>4, <1>5

(* The return of a handler.                                                 *)
LEMMA ReturnSound ==
  ASSUME IInv, NEW fits, Streams(fits), HandlerReturns
  PROVE  Sound(Held(fits, Now'), nextId', Now', NoDues)
<1>1. PICK kernel \in Kernels : Becomes(Returned(World(kernel)))
  BY DEF HandlerReturns
<1> DEFINE n == nextId
           x == World(kernel)
           y == Returned(x)
<1>2. Sound(fits, n, x, NoDues)
  BY CallStartsSound DEF IInv, Streams
<1>3. Good(NoSocket, y) /\ Clean(x) /\ Silent(x, y)
  BY ReturnIsGood
<1>4. nextId' = n /\ Becomes(y)
  BY <1>1 DEF HandlerReturns
<1> HIDE DEF x, y, n
<1> QED BY <1>2, <1>3, <1>4, SilentCall

(* A socket that may be written to again.                                   *)
LEMMA WritableSound ==
  ASSUME IInv, NEW fits, Streams(fits), NEW s \in Sockets, NEW kernel \in Kernels, Writable(s, kernel)
  PROVE  Sound(Held(fits, Now'), nextId', Now', NoDues)
<1> DEFINE n == nextId
           x == World(kernel)
           y == OnWritable(x, s)
<1>1. Good(NoSocket, Now)
  BY FreeIs DEF Writable, Open
<1>2. Good(NoSocket, x) /\ ~x.socket[s].closed /\ Sound(fits, n, x, NoDues)
  BY <1>1, CallStarts, CallStartsSound, WorldHas DEF Writable, Open, Streams
<1>3. nextId' = n /\ Becomes(y)
  BY DEF Writable
<1> HIDE DEF x, n
<1>4. Good(NoSocket, y)
  BY <1>2, WritableIsGood
<1>5. Silent(x, y) /\ Clean(x)
  BY <1>2, WritableIsSilent DEF Good
<1> HIDE DEF y
<1> QED BY <1>2, <1>3, <1>4, <1>5, SilentCall

(* The end of one iteration and the start of the next.                      *)
LEMMA IterateSound ==
  ASSUME IInv, NEW fits, Streams(fits), Iterate
  PROVE  Sound(Held(fits, Now'), nextId', Now', NoDues)
<1>1. PICK kernel \in Kernels : Becomes(PreCb(PostCb(World(kernel))))
  BY DEF Iterate
<1> DEFINE n == nextId
           x == World(kernel)
           y == PreCb(PostCb(x))
           none == NoDues
<1>2. Good(NoSocket, x) /\ Sound(fits, n, x, none)
  BY FreeIs, CallStarts, CallStartsSound DEF Iterate, Streams
<1>3. nextId' = n /\ Becomes(y)
  BY <1>1 DEF Iterate
<1>4. none \in [Sockets -> Seq(Nat)]
  BY DEF NoDues
<1> HIDE DEF x, n, none
<1>5. Good(NoSocket, y)
  BY <1>2, IterationIsGood
<1>6. Sound(fits, n, y, none)
  BY <1>2, <1>4, IterationSound
<1> HIDE DEF y
<1>7. Sound(Held(fits, Now'), n, Now', NoDues)
  BY <1>3, <1>5, <1>6, CallEndsWell DEF none
<1> QED BY <1>3, <1>7

(* A step that changes nothing of the world.                                *)
LEMMA WorldStays ==
  ASSUME NEW fits, Streams(fits), UNCHANGED <<world, nextId>>
  PROVE  Sound(Held(fits, Now'), nextId', Now', NoDues)
<1> DEFINE n == nextId
           x == Now
           none == NoDues
<1>1. Now' = x /\ nextId' = n
  BY DEF world, Now, World
<1>2. Sound(fits, n, x, none) /\ \A u \in Sockets : none[u] = << >>
  BY DEF Streams, NoDues
<1> HIDE DEF x, n, none
<1>3. Sound(Held(fits, x), n, x, NoDues)
  BY <1>2, SoundHeld
<1> QED BY <1>1, <1>3

(* One step of the loop.                                                    *)
LEMMA StepKeepsStreams ==
  ASSUME IInv, NEW fits, Streams(fits), [Next]_vars
  PROVE  StreamsGoOn(fits)
<1>1. ASSUME NEW s \in Sockets, NEW kernel \in Kernels, Writable(s, kernel) PROVE StreamsGoOn(fits)
  BY <1>1, WritableSound DEF StreamsGoOn
<1>2. ASSUME NEW s \in Sockets,
             \/ AppSend(s) \/ AppEnd(s) \/ AppCloses(s) \/ AppCorks(s)
             \/ OnData(s) \/ OnEnd(s) \/ Timeout(s) \/ LongTimeout(s)
      PROVE  StreamsGoOn(fits)
  BY <1>2, SendSound, AppEndSound, AppCloseSound, AppCorkSound, DataSound, PeerEndSound,
     IdleTimeoutSound, LongTimeoutSound DEF StreamsGoOn
<1>3. ASSUME NEW s \in Sockets, NEW t \in Topics,
             AppPublishes(s, t) \/ AppSubscribes(s, t) \/ AppUnsubscribes(s, t)
      PROVE  StreamsGoOn(fits)
  BY <1>3, PublishedSound, AppSubscribeSound DEF StreamsGoOn
<1>4. ASSUME NEW t \in Topics, AppPublishesToAll(t) PROVE StreamsGoOn(fits)
  BY <1>4, PublishedToAllSound DEF StreamsGoOn
<1>5. ASSUME NEW s \in Sockets, NEW u \in Sockets, AppIterates(s, u) PROVE StreamsGoOn(fits)
  BY <1>5, AppIterateSound DEF StreamsGoOn
<1>6. ASSUME HandlerReturns \/ Iterate PROVE StreamsGoOn(fits)
  BY <1>6, ReturnSound, IterateSound DEF StreamsGoOn
<1>7. ASSUME UNCHANGED vars \/ Call PROVE StreamsGoOn(fits)
  BY <1>7, WorldStays DEF Call, vars, StreamsGoOn
<1>8. CASE Next
  BY <1>8, <1>1, <1>2, <1>3, <1>4, <1>5, <1>6, <1>7 DEF Next
<1>9. CASE UNCHANGED vars
  BY <1>9, <1>7
<1> QED BY <1>8, <1>9


(* A loop whose sockets have just been opened has sent nothing.             *)
LEMMA StreamsStart ==
  ASSUME Init, NEW fits
  PROVE  Streams(fits)
<1>1. PICK subscribed \in Subscriptions :
        /\ loop = NewLoop
        /\ socket = [s \in Sockets |-> NewSocket]
        /\ tree = NewTree(subscribed)
        /\ ws = [s \in Sockets |-> [NewWs EXCEPT !.subscriber = subscribed[s] # {}]]
  BY DEF Init
<1> DEFINE x == Now
           none == << >>
<1>2. x.loop = loop /\ x.socket = socket /\ x.tree = tree /\ x.ws = ws /\ x \in Worlds
  BY NowHas, InvStarts DEF IInv, Good
<1> HIDE DEF x
<1>3. /\ x.tree.palette = none
      /\ \A s \in Sockets : x.tree.indices[s] = none
      /\ \A t \in Topics : x.tree.topics[t] = {s \in Sockets : t \in subscribed[s]}
  BY <1>1, <1>2 DEF NewTree
<1>4. x.loop.corked = NoSocket
  BY <1>1, <1>2 DEF NewLoop
<1>5. ASSUME NEW s \in Sockets
      PROVE  x.ws[s].owed = none /\ (x.ws[s].subscriber <=> subscribed[s] # {})
  <2> DEFINE b == subscribed[s] # {}
             k == [NewWs EXCEPT !.subscriber = b]
  <2>1. b \in BOOLEAN
    OBVIOUS
  <2>2. x.ws[s] = k
    BY <1>1, <1>2
  <2> HIDE DEF b
  <2>3. k.owed = none /\ k.subscriber = b
    BY DEF NewWs
  <2> HIDE DEF k
  <2> QED BY <2>1, <2>2, <2>3 DEF b
<1>6. \A s \in Sockets : x.socket[s].wire = none /\ x.socket[s].buffer = none
                         /\ x.socket[s].pendingRemoval = 0
  BY <1>1, <1>2 DEF NewSocket
<1>7. PaletteIsData(x)
  BY <1>3 DEF PaletteIsData
<1>8. ASSUME NEW s \in Sockets PROVE SoundAt(fits, nextId, x, s, NoDues[s])
  <2>1. NoDues[s] = none
    BY DEF NoDues
  <2>2. Buffered(x, s) = none
    <3>1. Buffered(x, s) \in Seq(Tokens) /\ Len(Buffered(x, s)) = Len(none) - 0
      BY <1>2, <1>6, BufferedIs
    <3> QED BY <3>1
  <2>3. CorkOf(x, s) = none
    BY <1>4, PubSubAssumption DEF CorkOf, IsCorked
  <2>4. Out(x, s) = none
    BY <1>6, <2>2 DEF Out
  <2>5. Stream(x, s) = none
    BY <1>2, <2>3, <2>4, StreamIs
  <2>6. Waiting(x, s) = none
    BY <1>3, NothingWaits
  <2>7. Account(x, s) = none
    BY <2>5, <2>6, NothingIsFine DEF Account
  <2>8. Ordered(none, nextId)
    BY DEF Ordered, Rising, Under
  <2>9. Account(x, s) \o NoDues[s] = none
    BY <2>1, <2>7
  <2>10. FitAt(fits, nextId, x, s, NoDues[s])
    BY <1>5, <2>5, <2>8, <2>9, NothingIsFine DEF FitAt, Settles
  <2>11. NoClose(Stream(x, s))
    BY <2>5, NothingIsFine
  <2>12. Enrolled(x, s)
    BY <1>3, <1>5 DEF Enrolled
  <2> QED BY <2>10, <2>11, <2>12 DEF SoundAt
<1> QED BY <1>7, <1>8 DEF Streams, Sound, x

-----------------------------------------------------------------------------
(* What the peers get. *)

(* The streams, whether or not the indices of the palette fit.              *)
StreamInv == IInv /\ Streams(FALSE)

(* Where no index is wanted to fit, that they do not is nothing.            *)
LEMMA HeldIs ==
  ASSUME NEW x
  PROVE  /\ Held(FALSE, x) = FALSE
         /\ Len(x.tree.palette) <= PaletteLimit + 1 => Held(TRUE, x) = TRUE
BY DEF Held

(* Every step keeps the streams whole.                                      *)
LEMMA StepKeepsWhole ==
  ASSUME StreamInv, [Next]_vars
  PROVE  StreamInv'
<1>1. IInv'
  BY StepKeepsInv DEF StreamInv
<1>2. Sound(Held(FALSE, Now'), nextId', Now', NoDues)
  BY StepKeepsStreams DEF StreamInv, StreamsGoOn
<1>3. Sound(FALSE, nextId', Now', NoDues)
  BY <1>2, HeldIs
<1> QED BY <1>1, <1>3 DEF StreamInv, Streams

(* PubSub!FramesAreWhole, for any sockets, topics, kernels and limits: what *)
(* write, the cork and the backpressure make of the frames of a WebSocket   *)
(* is whole frames one after the other, and nothing after a close frame     *)
(* (AsyncSocket.h, WebSocket.h).                                            *)
THEOREM FramesAreAlwaysWhole == Spec => []FramesAreWhole
<1>1. Init => StreamInv
  BY InvStarts, StreamsStart DEF StreamInv
<1>2. StreamInv /\ [Next]_vars => StreamInv'
  BY StepKeepsWhole
<1>3. ASSUME StreamInv PROVE FramesAreWhole
  <2>1. Sound(FALSE, nextId, Now, NoDues)
    BY <1>3 DEF StreamInv, Streams
  <2>2. ASSUME NEW s \in Sockets, Live(s) PROVE Fine(Stream(Now, s))
    BY <2>1, <2>2, NowHas DEF Sound, SoundAt, FitAt, Live
  <2> QED BY <2>2 DEF Fine, FramesAreWhole
<1> QED BY <1>1, <1>2, <1>3, PTL DEF Spec

(* The streams and what is owed, while the indices of the palette fit.      *)
AccountInv == IInv /\ Streams(TRUE)

(* Every step after which they still fit keeps what is owed.                *)
LEMMA StepKeepsAccounts ==
  ASSUME AccountInv, [Next]_vars, PaletteFits'
  PROVE  AccountInv'
<1>1. IInv'
  BY StepKeepsInv DEF AccountInv
<1>2. Sound(Held(TRUE, Now'), nextId', Now', NoDues)
  BY StepKeepsStreams DEF AccountInv, StreamsGoOn
<1>3. Now'.tree = tree'
  BY DEF Now, World
<1>4. Held(TRUE, Now') = TRUE
  BY <1>3, HeldIs DEF PaletteFits
<1>5. Sound(TRUE, nextId', Now', NoDues)
  BY <1>2, <1>4
<1> QED BY <1>1, <1>5 DEF AccountInv, Streams

(* As long as they fit, it holds.                                           *)
LEMMA AccountsHold == Spec /\ []PaletteFits => []AccountInv
<1>1. Init => AccountInv
  BY InvStarts, StreamsStart DEF AccountInv
<1>2. AccountInv /\ [Next]_vars /\ PaletteFits' => AccountInv'
  BY StepKeepsAccounts
<1> QED BY <1>1, <1>2, PTL DEF Spec

(* What an account says of a socket that is open.                           *)
LEMMA AccountSays ==
  ASSUME AccountInv, NEW s \in Sockets, Live(s)
  PROVE  LET ids == DataIds(Stream(Now, s)) \o ParkedIds(s)
         IN  Increasing(ids) /\ (~ws[s].lossy => ws[s].owed = ids)
<1> DEFINE x == Now
           ids == DataIds(Stream(x, s)) \o ParkedIds(s)
           none == << >>
<1>1. x.ws = ws /\ x.socket = socket /\ x.tree = tree
  BY NowHas
<1>2. x \in Worlds /\ InPalette(x, s) /\ Sound(TRUE, nextId, x, NoDues)
  BY DEF AccountInv, Streams, IInv, Good, Consistent, ConsistentFor
<1> HIDE DEF x
<1>3. Waiting(x, s) = ParkedIds(s)
  BY <1>1 DEF Waiting, ParkedIds
<1>4. Account(x, s) = ids /\ ids \in Seq(Nat)
  BY <1>2, <1>3, AccountIs DEF Account
<1>5. NoDues[s] = none
  BY DEF NoDues
<1>6. Settles(Account(x, s) \o NoDues[s], nextId, x.ws[s])
  BY <1>1, <1>2 DEF Sound, SoundAt, FitAt, Live
<1>7. Account(x, s) \o NoDues[s] = ids
  <2> HIDE DEF ids
  <2> QED BY <1>4, <1>5
<1> HIDE DEF ids
<1>8. Ordered(ids, nextId) /\ (~ws[s].lossy => ws[s].owed = ids)
  BY <1>1, <1>6, <1>7 DEF Settles
<1>9. Increasing(ids)
  BY <1>4, <1>8, OrderedIncreases
<1> QED BY <1>8, <1>9 DEF ids, x

(* PubSub!NothingIsLost: as long as the palette has no more messages than a *)
(* 16-bit index can tell apart, every peer gets what was sent or published  *)
(* to it in the order of the calls, through all the ways a message may      *)
(* take, and all of it unless the application was told of a drop            *)
(* (TopicTree.h, WebSocket.h, App.h, AsyncSocket.h).                        *)
THEOREM NothingIsEverLost == Spec /\ []PaletteFits => []NothingIsLost
<1>1. ASSUME AccountInv PROVE NothingIsLost
  BY <1>1, AccountSays DEF NothingIsLost
<1> QED BY <1>1, AccountsHold, PTL
=============================================================================
