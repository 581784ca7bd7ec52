----------------------------- MODULE ChildApps ------------------------------
(***************************************************************************)
(* App.h, addChildApp and removeChildApp: one app accepts every socket and *)
(* deals them out to its child apps in turn, each of which runs on a loop  *)
(* of its own and is handed the socket by a deferred callback.             *)
(***************************************************************************)
EXTENDS Loop

CONSTANTS Main,        \* the loop of the app that accepts
          MaxSockets,  \* bound on the sockets accepted
          MaxChanges,  \* bound on the child apps added and removed
          MaxDeferred  \* bound on what is deferred to a loop besides sockets

(* A socket is handed over by a callback; 0 is any other callback.         *)
ASSUME ChildAssumption == Main \in Loops /\ MaxSockets \in Nat /\ Callbacks = 0..MaxSockets

VARIABLES childApps, roundRobin, accepted, adopted, changes
childVars == <<loopVars, childApps, roundRobin, accepted, adopted, changes>>

ChildInit ==
  /\ LoopInit
  /\ childApps = <<>> /\ roundRobin = 0
  /\ accepted = 0
  /\ adopted = [l \in Loops |-> <<>>]
  /\ changes = 0

AddChildApp(l) ==
  /\ changes < MaxChanges /\ waking[Main] = Nobody
  /\ childApps' = Append(childApps, l)
  /\ changes' = changes + 1
  /\ UNCHANGED <<loopVars, roundRobin, accepted, adopted>>

RemoveChildApp(l) ==
  /\ changes < MaxChanges /\ waking[Main] = Nobody
  /\ childApps' = SelectSeq(childApps, LAMBDA app : app # l)
  /\ roundRobin' = 0
  /\ changes' = changes + 1
  /\ UNCHANGED <<loopVars, accepted, adopted>>

(* The handler of onPreOpen; without child apps the app keeps the socket.  *)
(* An app is as often in the list as it was added.                         *)
PreOpen ==
  /\ accepted < MaxSockets /\ next[Main] = 0 /\ waking[Main] = Nobody
  /\ accepted' = accepted + 1
  /\ \/ /\ childApps = <<>>
        /\ adopted' = [adopted EXCEPT ![Main] = Append(@, accepted')]
        /\ UNCHANGED <<loopVars, roundRobin>>
     \/ /\ childApps # <<>>
        /\ \E receivingApp \in Loops, fd \in Callbacks :
             /\ receivingApp = childApps[roundRobin + 1] /\ fd = accepted'
             /\ Defer(Main, receivingApp, fd)
        /\ roundRobin' = IF roundRobin + 1 = Len(childApps) THEN 0 ELSE roundRobin + 1
        /\ UNCHANGED adopted
  /\ UNCHANGED <<childApps, changes>>

(* The callback hands the socket to the child app.                         *)
AdoptSocket(l) ==
  /\ Run(l)
  /\ adopted' = IF Old(l)[next[l]] = 0 THEN adopted
                ELSE [adopted EXCEPT ![l] = Append(@, Old(l)[next[l]])]
  /\ UNCHANGED <<childApps, roundRobin, accepted, changes>>

(* Any thread may defer something else, a callback that runs included.     *)
Elsewhere ==
  /\ \/ \E t \in Threads : WakeUp(t)
     \/ \E t \in Threads, l \in Loops : Len(SelectSeq(deferred[l], LAMBDA c : c = 0)) < MaxDeferred /\ Defer(t, l, 0)
     \/ \E l \in Loops : Swap(l) \/ Clear(l)
  /\ UNCHANGED <<childApps, roundRobin, accepted, adopted, changes>>

ChildNext ==
  \/ PreOpen
  \/ \E l \in Loops : AddChildApp(l) \/ RemoveChildApp(l) \/ AdoptSocket(l)
  \/ Elsewhere
ChildSpec == ChildInit /\ [][ChildNext]_childVars
=============================================================================
