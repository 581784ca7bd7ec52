------------------------------ MODULE HttpParser ------------------------------
(***************************************************************************)
(* The request parser of the vendored uWebSockets.  It holds on to a head  *)
(* that is not whole (fallback), counts down the body (remaining), and     *)
(* hands requests and bodies to the two handlers of its context.           *)
(*                                                                         *)
(* Bytes are tokens: a request line is a method with its target and then a *)
(* version with its CR LF, a field a name with its colon, its value, and   *)
(* CR LF.  A handler takes the world of AsyncSocket, whose http field has  *)
(* fallback and remaining, and returns it with whether the user it was     *)
(* given is still the same.                                                *)
(***************************************************************************)
EXTENDS HttpHandlers, ChunkedEncoding

CONSTANTS
  MAX_FALLBACK_SIZE,            \* 4096 bytes in the code
  UWS_HTTP_MAX_HEADERS_COUNT    \* 100 in the code

Methods == {"GET /"}
Version == " HTTP/1.1"
Names == {"host:", "content-length:", "transfer-encoding:", "connection:", "x:"}
Controls == {CarriageReturn, LineFeed, "NUL"}
Numbers == [v \in {"0", "1", "2", "3"} |-> Digit[v]]     \* toUnsignedInteger

Parsed(consumed, headers) == [consumed |-> consumed, err |-> "none", headers |-> headers]
Incomplete == Parsed(0, << >>)
Invalid(err) == [Incomplete EXCEPT !.err = err]

Token(data, i) ==   \* past the end stand a CR, and what is no LF
  IF i <= Len(data) THEN data[i] ELSE IF i = Len(data) + 1 THEN CarriageReturn ELSE "a"

(* The fields from the token at on, and the empty line after them.  What   *)
(* follows a CR and is no LF may be the end of the data.                   *)
RECURSIVE Fields(_, _, _)
Fields(data, at, headers) ==
  LET eol == FirstOf(data, Controls, at + 1)
      value == IF eol = at + 1 THEN "" ELSE data[at + 1]
      found == Append(headers, <<data[at], value>>)
      next == eol + 2
  IN  IF Len(headers) = UWS_HTTP_MAX_HEADERS_COUNT - 2 THEN Invalid("431")
      ELSE IF Token(data, at) \notin Names
      THEN IF at > Len(data) THEN Incomplete ELSE Invalid("400")
      ELSE IF Token(data, eol) # CarriageReturn THEN Invalid("400")
      ELSE IF Token(data, eol + 1) # LineFeed THEN Incomplete
      ELSE IF Token(data, next) # CarriageReturn THEN Fields(data, next, found)
      ELSE IF Token(data, next + 1) = LineFeed THEN Parsed(next + 1, found)
      ELSE IF next < Len(data) THEN Invalid("400")
      ELSE Incomplete

GetHeaders(data) ==
  IF data[1] = CarriageReturn THEN Incomplete
  ELSE IF data[1] \notin Methods THEN Invalid("505")
  ELSE IF Len(data) = 1 \/ (Len(data) = 2 /\ data[2] = Version) THEN Incomplete
  ELSE IF data[2] # Version THEN Invalid("505")
  ELSE Fields(data, 3, << >>)

(* The value of the first field of that name; no field has the value none. *)
GetHeader(headers, name) ==
  LET named == SelectSeq(headers, LAMBDA h : h[1] = name)
  IN  IF named = << >> THEN "none" ELSE named[1][2]
Given(headers, name) == GetHeader(headers, name) \notin {"none", ""}

Refused(headers) ==
  \/ Len(SelectSeq(headers, LAMBDA h : h[1] = "host:")) # 1
  \/ Given(headers, "transfer-encoding:") /\ Given(headers, "content-length:")

-----------------------------------------------------------------------------
(* What a step of the parser returns: user is same, other (closed or       *)
(* upgraded) or error, when err is what to answer.                         *)

Outcome(x, data, user, err) == [x |-> x, data |-> data, user |-> user, err |-> err]
KeepGoing(x, data) == Outcome(x, data, "same", "none")
Error(x, err) == Outcome(x, << >>, "error", err)
UserOf(called) == IF called.same THEN "same" ELSE "other"

(* The chunks in the data; that the user has changed is not looked at.     *)
RECURSIVE ConsumeChunks(_, _)
AfterChunk(x, next) ==
  IF next.some
  THEN ConsumeChunks(DataHandler(x, next.chunk, next.chunk = << >>).x, next.data)
  ELSE IF next.word.isError THEN Error(x, "400")
  ELSE KeepGoing(x, next.data)

ConsumeChunks(x, data) ==
  LET next == GetNextChunk(data, x.http.remaining)
  IN  AfterChunk([x EXCEPT !.http.remaining = next.word], next)

(* The body whose head has been handled in an earlier read.  A body with a *)
(* content length that takes all of the data returns at once.              *)
AfterBodyData(called, left, data) ==
  Outcome([called.x EXCEPT !.http.remaining = Remaining(left)], data, UserOf(called), "none")

ConsumeBody(x, data) ==
  LET left == x.http.remaining.size
      n == Least(left, Len(data))
  IN  IF IsParsingChunkedEncoding(x.http.remaining) THEN ConsumeChunks(x, data)
      ELSE AfterBodyData(DataHandler(x, SubSeq(data, 1, n), left = n), left - n, Rest(data, n))

(* What comes after a head: the body, as far as the data has it, unless    *)
(* only the head was wanted.  That the user has changed is not looked at.  *)
AfterHead(x, headers, data, minimally) ==
  LET length == GetHeader(headers, "content-length:")
      n == IF length \in DOMAIN Numbers THEN Numbers[length] ELSE 0
      emitted == Least(n, Len(data))
      chunked == [x EXCEPT !.http.remaining = STATE_IS_CHUNKED]
      sized == [x EXCEPT !.http.remaining = Remaining(n - emitted)]
  IN  IF Given(headers, "transfer-encoding:")
      THEN IF minimally THEN KeepGoing(chunked, data) ELSE ConsumeChunks(chunked, data)
      ELSE IF ~Given(headers, "content-length:")
      THEN KeepGoing(DataHandler(x, << >>, TRUE).x, data)
      ELSE IF length \notin DOMAIN Numbers THEN Error(x, "400")
      ELSE IF minimally
      THEN KeepGoing([x EXCEPT !.http.remaining = Remaining(n)], data)
      ELSE KeepGoing(DataHandler(sized, SubSeq(data, 1, emitted), emitted = n).x,
                     Rest(data, emitted))

(* The whole requests in the data, or the first one's head only.           *)
RECURSIVE FenceAndConsumePostPadded(_, _, _)
NextRequest(after, minimally) ==
  IF after.user # "same" \/ minimally THEN after
  ELSE FenceAndConsumePostPadded(after.x, after.data, FALSE)

AfterRequestHandler(called, head, data, minimally) ==
  IF ~called.same THEN Outcome(called.x, << >>, "other", "none")
  ELSE NextRequest(AfterHead(called.x, head.headers, data, minimally), minimally)

WithHead(x, head, data, minimally) ==
  IF head.err # "none" THEN Error(x, head.err)
  ELSE IF head.consumed = 0 THEN KeepGoing(x, data)
  ELSE IF head.consumed > MAX_FALLBACK_SIZE THEN Error(x, "431")
  ELSE IF Refused(head.headers) THEN Error(x, "400")
  ELSE AfterRequestHandler(RequestHandler(x, head.headers), head,
                           Rest(data, head.consumed), minimally)

FenceAndConsumePostPadded(x, data, minimally) ==
  IF data = << >> THEN KeepGoing(x, data) ELSE WithHead(x, GetHeaders(data), data, minimally)

(* The end of a read: a head that is not whole is kept.                    *)
Keep(consumed) ==
  IF consumed.user # "same" \/ consumed.data = << >> THEN consumed
  ELSE IF Len(consumed.data) < MAX_FALLBACK_SIZE
  THEN KeepGoing([consumed.x EXCEPT !.http.fallback = @ \o consumed.data], << >>)
  ELSE Error(consumed.x, "431")

ConsumeRest(x, data) == Keep(FenceAndConsumePostPadded(x, data, FALSE))

(* After the body of an earlier read comes what a new read begins with,    *)
(* unless that body took everything, or the user has changed.              *)
RestAfter(body, chunked) ==
  IF body.user # "same" \/ (body.data = << >> /\ ~chunked) THEN body
  ELSE ConsumeRest(body.x, body.data)

Onward(x, data) ==
  IF x.http.remaining = NoBody THEN ConsumeRest(x, data)
  ELSE RestAfter(ConsumeBody(x, data), IsParsingChunkedEncoding(x.http.remaining))

(* Mutant: what was kept counts as if it had come with this read.          *)
SkipAll(data, used, had) == Rest(data, used)

(* What this read has after a head of which it had only a part. *)
SkipHead(data, used, had) == Rest(data, used - had)

(* One read.  A kept head is completed with as much of the data as there   *)
(* is room for; only the head is taken from there, the body from the data. *)
AfterKept(consumed, data, whole, had) ==
  LET used == Len(whole) - Len(consumed.data)
  IN  IF consumed.user # "same" THEN consumed
      ELSE IF used > 0
      THEN Onward([consumed.x EXCEPT !.http.fallback = << >>], SkipHead(data, used, had))
      ELSE IF Len(whole) = MAX_FALLBACK_SIZE THEN Error(consumed.x, "431")
      ELSE KeepGoing(consumed.x, << >>)

ConsumePostPadded(x, data) ==
  LET kept == x.http.fallback
      whole == kept \o SubSeq(data, 1, Least(MAX_FALLBACK_SIZE - Len(kept), Len(data)))
  IN  IF x.http.remaining = NoBody /\ kept # << >>
      THEN AfterKept(FenceAndConsumePostPadded([x EXCEPT !.http.fallback = whole], whole, TRUE),
                     data, whole, Len(kept))
      ELSE Onward(x, data)
==============================================================================
