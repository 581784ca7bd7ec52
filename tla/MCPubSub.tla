------------------------------ MODULE MCPubSub ------------------------------
(***************************************************************************)
(* Two sockets and one topic or two, both sockets subscribed to all or to *)
(* none.  The cork holds one small frame (two tokens) and never a big one  *)
(* (five); a kernel takes everything, or one token of the first call.  One *)
(* full big frame less one token is over the limit of backpressure.  The   *)
(* first message may be big.                                               *)
(***************************************************************************)
EXTENDS PubSub

CONSTANTS s1, s2, t1, t2

SomeKernels == {<< >>, <<1>>}
AllOrNone == {[s \in Sockets |-> Topics], [s \in Sockets |-> {}]}
FirstMayBeBig == <<{1, 4}, {1}, {1}>>
AllSmall == <<{1}, {1}, {1}>>

(* History: the sockets that were ended inside their own WebSocket::cork.   *)
VARIABLE endedInCork

MCInit == Init /\ endedInCork = {}
MCNext ==
  /\ Next
  /\ endedInCork' = endedInCork \cup
       {s \in Sockets : running = [in |-> "cork", at |-> s] /\ ws'[s].isShuttingDown}
MCSpec == MCInit /\ [][MCNext]_<<vars, endedInCork>>

(* Wherever the loop is, what is owed to a socket gets out, and a FIN after *)
(* an end, once the running handler returns, the iteration finishes and the *)
(* kernel takes what it is given: nothing waits for another call.  Only a   *)
(* socket that is ended inside its own WebSocket::cork may be left without  *)
(* a FIN, see FinFollowsEnd.                                                *)
LoopDeliversAll ==
  ~loop.dead =>
    LET settled == Quiet
    IN  \A s \in Sockets :
          ~IsOwed(settled, s) /\ (LacksFin(settled, s) => s \in endedInCork)
=============================================================================
