-------------------------------- MODULE MCHttp --------------------------------
(***************************************************************************)
(* What a peer sends over a connection, one or two requests, and what the  *)
(* application does with each.  A head with two fields has twelve tokens,  *)
(* and fits the fallback; one with five does not.  The cork has room for   *)
(* the responses of a read.                                                *)
(***************************************************************************)
EXTENDS HttpContext, TLC

Crlf == <<CarriageReturn, LineFeed>>
Field(name, value) == <<name, value>> \o Crlf
Host == Field("host:", "x")
Header(fields) == <<"GET /", Version>> \o fields \o Crlf

Sent(head, body, payload, plan) ==
  [bytes |-> head \o body, good |-> TRUE, plan |-> plan,
   meant |-> <<"request">> \o payload \o <<"fin">>]
Plain(plan) == Sent(Header(Host), << >>, << >>, plan)
Closing(plan) ==
  Sent(Header(Host \o Field("connection:", "close")), << >>, << >>, plan)
Lengthy(n, plan) ==
  LET body == [i \in 1..n |-> "b"]
  IN  Sent(Header(Host \o Field("content-length:", ToString(n))), body, body, plan)
Chunked(plan) ==
  Sent(Header(Field("transfer-encoding:", "chunked") \o Host),
       <<"2">> \o Crlf \o <<"b", "c">> \o Crlf \o <<"1">> \o Crlf \o <<"d">> \o Crlf
         \o <<"0">> \o Crlf \o Crlf,
       <<"b", "c", "d">>, plan)
Bad(bytes, meant) == [bytes |-> bytes, good |-> FALSE, plan |-> "read", 
   meant |-> Append(meant, "error")]

BadRequests == {
  Bad(Header(Field("x:", "x")), << >>),
  Bad(Header(Host \o Host), << >>),
  Bad(Header(Host \o Field("x:", "NUL")), << >>),
  Bad(<<"GET /", " HTTP/1.0">> \o Host \o Crlf, << >>),
  Bad(Header(Host \o Field("content-length:", "many")), <<"request">>),
  Bad(Header(Field("transfer-encoding:", "chunked") \o Host) \o <<"1", "x">>, <<"request">>),
  Bad(Header(Host \o Field("content-length:", "1") \o Field("transfer-encoding:", "chunked")), << >>),
  Bad(Header(Host \o Host \o Host \o Host \o Host), << >>)}

SomeTraffics ==
  {<<Plain(plan), Plain("end")>> :
     plan \in {"end", "bare", "wait", "write", "tryEnd", "upgrade"}}
  \cup {<<Closing(plan)>> : plan \in {"end", "wait", "tryEnd"}}
  \cup {<<Plain("endAndClose")>>, <<Plain("end"), Closing("write")>>}
  \cup {<<Plain("unrouted")>>, <<Plain("end"), Lengthy(1, "unrouted")>>}
  \cup {<<Lengthy(2, plan), Plain("end")>> : plan \in {"read", "end", "abort"}}
  \cup {<<Chunked(plan), Plain("tryEnd")>> : plan \in {"read", "wait"}}
  \cup {<<r>> : r \in BadRequests}
  \cup {<<Plain("end"), r>> : r \in BadRequests}

(* A kernel takes everything, nothing, a token, or all but the end of a body. *)
SomeHttpKernels == {<< >>, <<0, 0, 0, 0, 0, 0, 0, 0>>, <<1>>, <<9, 9, 9, 1>>}
=============================================================================
