---------------------------- MODULE ChunkedEncoding ----------------------------
(***************************************************************************)
(* The chunked transfer coding of the vendored uWebSockets: a body that    *)
(* arrives in pieces cut anywhere is decoded without keeping any of it.    *)
(* All that is kept is one word, two bits and a size: a record here.  A    *)
(* word without bits is the rest of a body with a content length.          *)
(* Bytes are tokens; LineFeed and CarriageReturn are two, and hexadecimal  *)
(* digits are those in Digit.                                              *)
(***************************************************************************)
EXTENDS Integers, Sequences

LineFeed == "\n"
CarriageReturn == "\r"
Digit == [d \in {"0", "1", "2", "3"} |->
            CASE d = "0" -> 0 [] d = "1" -> 1 [] d = "2" -> 2 [] OTHER -> 3]

Word(chunked, sized, size) ==
  [isChunked |-> chunked, hasSize |-> sized, size |-> size, isError |-> FALSE]
NoBody == Word(FALSE, FALSE, 0)
Remaining(n) == Word(FALSE, FALSE, n)
STATE_IS_CHUNKED == Word(TRUE, FALSE, 0)
STATE_IS_ERROR == [STATE_IS_CHUNKED EXCEPT !.isError = TRUE, !.hasSize = TRUE]

IsParsingChunkedEncoding(word) == word.isChunked \/ word.hasSize

Rest(q, n) == SubSeq(q, n + 1, Len(q))
FirstOf(q, set, n) ==   \* the first index from n on of a member of set, or one past the end
  IF \E i \in n..Len(q) : q[i] \in set
  THEN CHOOSE i \in n..Len(q) : q[i] \in set /\ \A j \in n..(i - 1) : q[j] \notin set
  ELSE Len(q) + 1

(* The digits of a size count until something below the space, and the     *)
(* line ends at its line feed.  The size takes in the CR LF of its chunk.  *)
RECURSIVE ConsumeHexNumber(_, _)
ConsumeHexNumber(data, word) ==
  LET eol == FirstOf(data, {LineFeed}, 1)
  IN  IF data # << >> /\ Head(data) \in DOMAIN Digit
      THEN ConsumeHexNumber(Tail(data),
             Word(TRUE, FALSE, word.size * 16 + Digit[Head(data)]))
      ELSE IF data # << >> /\ Head(data) \notin {CarriageReturn, LineFeed}
      THEN [data |-> data, word |-> STATE_IS_ERROR]
      ELSE IF eol > Len(data) THEN [data |-> << >>, word |-> word]
      ELSE [data |-> Rest(data, eol), word |-> Word(TRUE, TRUE, word.size + 2)]

Chunk(emit, data, word) == [some |-> TRUE, chunk |-> emit, data |-> data, word |-> word]
NoChunk(data, word) == [some |-> FALSE, chunk |-> << >>, data |-> data, word |-> word]

RECURSIVE GetNextChunk(_, _)
GetNextChunk(data, word) ==
  LET sized == ConsumeHexNumber(data, word)
      n == Len(data)
      content == word.size - 2
  IN  IF data = << >> THEN NoChunk(data, word)
      ELSE IF word.hasSize /\ ~word.isChunked THEN      \* the trailing CR LF
        IF n >= word.size THEN NoChunk(Rest(data, word.size), NoBody)
        ELSE NoChunk(<< >>, [word EXCEPT !.size = @ - n])
      ELSE IF ~word.hasSize THEN
        IF sized.word.isError THEN NoChunk(sized.data, sized.word)
        ELSE IF sized.word.hasSize /\ sized.word.size = 2
             THEN Chunk(<< >>, sized.data, Word(FALSE, TRUE, 2))
        ELSE GetNextChunk(sized.data, sized.word)
      ELSE IF n >= word.size THEN
        IF content > 0
        THEN Chunk(SubSeq(data, 1, content), Rest(data, word.size), STATE_IS_CHUNKED)
        ELSE GetNextChunk(Rest(data, word.size), STATE_IS_CHUNKED)
      ELSE IF content > 0
           THEN Chunk(SubSeq(data, 1, IF n > content THEN content ELSE n),
                      << >>, [word EXCEPT !.size = @ - n])
      ELSE NoChunk(<< >>, [word EXCEPT !.size = @ - n])
==============================================================================
