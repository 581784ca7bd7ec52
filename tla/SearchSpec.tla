------------------------------ MODULE SearchSpec ------------------------------
(***************************************************************************)
(* What a call of one of the four searches promises, as a specification:   *)
(* the state of the call, whether its client's session is still open, and  *)
(* the messages websocketpp accepted for that session.                     *)
(***************************************************************************)
EXTENDS Search, FiniteSets

CONSTANT Calls    \* the calls that may be made: values of Call(...)

ASSUME CallsAssumption ==
  \A r \in Calls :
    /\ r.list \in AdjacencyList
    /\ \E alg \in Algorithm, start, end \in Nodes \cup {Empty} : r = Call(alg, r.list, start, end)

VARIABLES
  run,    \* the call
  open,   \* whether the session behind hdl still accepts messages
  sent    \* the messages accepted for it, in order

vars == <<run, open, sent>>

Init == run \in Calls /\ open = TRUE /\ sent = << >>

(* send throws on a session that is no longer open; the exception is caught *)
(* and logged, and the search goes on.                                      *)
Advance ==
  \E m \in Moves(run) :
    /\ run' = m.next
    /\ sent' = IF open THEN sent \o m.says ELSE sent
    /\ UNCHANGED open

(* The environment: the session stops being open. *)
HangUp == open /\ open' = FALSE /\ UNCHANGED <<run, sent>>

Next == Advance \/ HangUp

Spec == Init /\ [][Next]_vars

-----------------------------------------------------------------------------
(* Reference definitions. *)

Closed(S) == run.start \in S /\ \A n \in S : Successors(run.list, n) \subseteq S

(* What can be reached from start: what lies in every closed set of keys. *)
Reachable == {n \in DOMAIN run.list : \A S \in SUBSET DOMAIN run.list : Closed(S) => n \in S}

(* The stream of a finished call: the visited nodes, one more per message   *)
(* and never the end; then, when the end was met, the announcement and the  *)
(* inner nodes of the path, one more per message.                           *)
Transcript ==
  LET grow(s) == [k \in 1..Len(s) |-> SubSeq(s, 1, k)]
      tell(kind, arrays) == [k \in 1..Len(arrays) |-> [kind |-> kind, nodes |-> arrays[k]]]
  IN  tell("visitedNodes", grow(run.visited))
      \o IF run.route = << >> THEN << >>
         ELSE tell("pathFound", << << >> >>)
              \o tell("pathNodes", grow(SubSeq(run.route, 2, Len(run.route) - 1)))

-----------------------------------------------------------------------------

TypeOK ==
  /\ run \in Run
  /\ open \in BOOLEAN
  /\ sent \in Seq(Message)

(* The verdict is right: a call that was not refused and returns has shown  *)
(* a path from start to end exactly if there is one; if there is none it    *)
(* has visited everything that can be reached, and nothing else.            *)
Verdict ==
  run.phase = "done" /\ ~Refused(run) =>
    IF run.end \in Reachable THEN IsRoute(run, run.route)
    ELSE run.route = << >> /\ Range(run.visited) = Reachable

(* No node is ever reported as visited that cannot be reached, none twice,  *)
(* and never the end.                                                       *)
VisitsAreReachable ==
  /\ Range(run.visited) \subseteq Reachable \ {run.end}
  /\ \A i, j \in 1..Len(run.visited) : run.visited[i] = run.visited[j] => i = j

(* A client that stays until the call returns has been sent the whole       *)
(* transcript, every message once and in order; one that left has been sent *)
(* a beginning of it.                                                       *)
StreamIsTranscript ==
  run.phase = "done" /\ ~Refused(run) =>
    /\ Len(sent) <= Len(Transcript)
    /\ sent = SubSeq(Transcript, 1, Len(sent))
    /\ open => Len(sent) = Len(Transcript)

(* The array a client sees only ever grows: no later message of a kind      *)
(* takes back what an earlier one reported.                                 *)
Grows ==
  [][/\ run.visited = SubSeq(run'.visited, 1, Len(run.visited))
     /\ sent = SubSeq(sent', 1, Len(sent))
     /\ run.route # << >> => run'.route = run.route]_vars
===============================================================================
