------------------------------- MODULE MCInbound -------------------------------
(***************************************************************************)
(* Conversations of a few frames: a message of one frame or of several,    *)
(* short, medium and long ones, compressed ones, control frames between    *)
(* the frames of a message, and frames that end the connection.            *)
(***************************************************************************)
EXTENDS WebSocketProtocol

(* A frame, and what the handlers are to be told when it is there. *)
Frame(op, fin, rsv1, data, meant) ==
  LET header == HeaderOf(Len(data))
  IN  [bytes |-> [i \in 1..header + Len(data) |->
                    [op |-> op, fin |-> fin, rsv1 |-> rsv1, len |-> Len(data),
                     byte |-> IF i <= header THEN "head" ELSE data[i - header],
                     key |-> IF i <= header THEN 0 ELSE (i - header - 1) % 4]],
       meant |-> meant]

Text(data) == Frame(TEXT, TRUE, FALSE, data, <<<<"text">> \o data>>)
First(data) == Frame(TEXT, FALSE, FALSE, data, << >>)
More(data) == Frame(CONTINUATION, FALSE, FALSE, data, << >>)
Last(data, all) == Frame(CONTINUATION, TRUE, FALSE, data, <<<<"text">> \o all>>)
Ping(data) == Frame(PING, TRUE, FALSE, data, <<<<"send pong">> \o data, <<"ping">> \o data>>)
Pong(data) == Frame(PONG, TRUE, FALSE, data, <<<<"pong">> \o data>>)
Bye == Frame(CLOSE, TRUE, FALSE, <<"1000">>, <<<<"close", "1000">>>>)
Bad(op, fin, data) == Frame(op, fin, FALSE, data, <<<<"closed">>>>)
Zip(data) == Frame(2, TRUE, TRUE, data, <<<<"binary">> \o Inflated(data)>>)

SomeConversations == {
  <<Text(<<"a", "b">>), Text(<<"c">>), Bye, Text(<<"d">>)>>,
  <<First(<<"a", "b">>), Ping(<<"p", "q">>), Last(<<"c">>, <<"a", "b", "c">>), Text(<<"d">>)>>,
  <<First(<<"a">>), More(<<"b">>), Pong(<< >>), Last(<<"c">>, <<"a", "b", "c">>)>>,
  <<First(<< >>), Ping(<<"p">>), Last(<<"c">>, <<"c">>), Bye>>,
  <<Text(<<"a", "b", "c", "d", "e", "f">>), Ping(<< >>), Text(<< >>)>>,
  <<First(<<"a", "b", "c">>), Last(<<"d", "e">>, <<"a", "b", "c", "d", "e">>)>>,
  <<Text(<<"a">>), Bad(TEXT, TRUE, <<"invalid">>)>>,
  <<First(<<"a", "b", "c", "d">>), Bad(CONTINUATION, TRUE, <<"e", "f", "g">>)>>,
  <<Bad(2, TRUE, <<"a", "b", "c", "d", "e", "f", "g">>)>>,
  <<Bad(CONTINUATION, TRUE, <<"a">>)>>,
  <<First(<<"a">>), Bad(TEXT, TRUE, <<"b">>)>>,
  <<Bad(PING, FALSE, <<"p">>)>>,
  <<Bad(PING, TRUE, <<"a", "b", "c">>)>>,
  <<Frame(TEXT, TRUE, FALSE, <<"end">>, <<<<"text", "end">>, <<"close">>>>), Text(<<"d">>)>>,
  <<Frame(TEXT, TRUE, FALSE, <<"bye">>, <<<<"text", "bye">>, <<"closed">>>>), Text(<<"d">>)>>}

ZippedConversations == {
  <<Zip(<<"a", "b">>), Text(<<"c">>), Zip(<<"d">>)>>,
  <<Frame(2, FALSE, TRUE, <<"a">>, << >>), Ping(<<"p">>),
    Frame(CONTINUATION, TRUE, FALSE, <<"b">>, <<<<"binary", "a", "a", "b", "b">>>>)>>,
  <<Frame(2, FALSE, TRUE, <<"a", "b">>, << >>), Bad(CONTINUATION, TRUE, <<"c", "d">>)>>}

AllConversations == SomeConversations \cup ZippedConversations
==============================================================================
