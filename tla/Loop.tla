-------------------------------- MODULE Loop --------------------------------
(***************************************************************************)
(* Loop.h and LoopData.h: Loop::defer, which any thread calls to have a    *)
(* callback run on the thread of a loop.  A loop has two queues and a      *)
(* mutex; who defers appends to the current queue under the mutex and then *)
(* wakes the loop, and the loop swaps the queues under the mutex and runs  *)
(* the one that is no longer current without it.                           *)
(***************************************************************************)
EXTENDS Naturals, Sequences

CONSTANTS Loops,      \* the loops, each the thread that runs it
          Threads,    \* every thread that defers
          Callbacks,  \* what can be deferred
          Nobody      \* no loop

ASSUME LoopAssumption == Loops \subseteq Threads /\ Nobody \notin Loops

VARIABLES
  deferQueues,        \* the two queues of every loop
  currentDeferQueue,  \* the queue that callbacks are appended to
  next,               \* the callback that wakeupCb runs next, 0 outside of it
  woken,              \* whether the loop is woken up and has not seen it yet
  waking,             \* the loop whose mutex the thread left without having woken it yet
  deferred,           \* history: what was deferred to a loop, in the order of the mutex
  ran                 \* history: what the loop ran
loopVars == <<deferQueues, currentDeferQueue, next, woken, waking, deferred, ran>>

Other(q) == (q + 1) % 2

LoopInit ==
  /\ deferQueues = [l \in Loops |-> [q \in 0..1 |-> <<>>]]
  /\ currentDeferQueue = [l \in Loops |-> 0]
  /\ next = [l \in Loops |-> 0]
  /\ woken = [l \in Loops |-> FALSE]
  /\ waking = [t \in Threads |-> Nobody]
  /\ deferred = [l \in Loops |-> <<>>]
  /\ ran = [l \in Loops |-> <<>>]

(* defer, up to the unlock: the thread still has to wake the loop.         *)
Defer(t, l, callback) ==
  /\ waking[t] = Nobody
  /\ deferQueues' = [deferQueues EXCEPT ![l][currentDeferQueue[l]] = Append(@, callback)]
  /\ waking' = [waking EXCEPT ![t] = l]
  /\ deferred' = [deferred EXCEPT ![l] = Append(@, callback)]
  /\ UNCHANGED <<currentDeferQueue, next, woken, ran>>

(* us_wakeup_loop: several calls before the loop gets to it are one.       *)
WakeUp(t) ==
  /\ waking[t] # Nobody
  /\ woken' = [woken EXCEPT ![waking[t]] = TRUE]
  /\ waking' = [waking EXCEPT ![t] = Nobody]
  /\ UNCHANGED <<deferQueues, currentDeferQueue, next, deferred, ran>>

(* wakeupCb: swap the queues, run what is in the old one, clear it.        *)
Swap(l) ==
  /\ next[l] = 0 /\ waking[l] = Nobody
  /\ woken[l]
  /\ woken' = [woken EXCEPT ![l] = FALSE]
  /\ currentDeferQueue' = [currentDeferQueue EXCEPT ![l] = Other(@)]
  /\ next' = [next EXCEPT ![l] = 1]
  /\ UNCHANGED <<deferQueues, waking, deferred, ran>>

Old(l) == deferQueues[l][Other(currentDeferQueue[l])]

Run(l) ==
  /\ next[l] \in DOMAIN Old(l) /\ waking[l] = Nobody
  /\ ran' = [ran EXCEPT ![l] = Append(@, Old(l)[next[l]])]
  /\ next' = [next EXCEPT ![l] = @ + 1]
  /\ UNCHANGED <<deferQueues, currentDeferQueue, woken, waking, deferred>>

ClearBoth(l) ==
  /\ next[l] = Len(Old(l)) + 1 /\ waking[l] = Nobody
  /\ deferQueues' = [deferQueues EXCEPT ![l] = [q \in 0..1 |-> <<>>]]
  /\ next' = [next EXCEPT ![l] = 0]
  /\ UNCHANGED <<currentDeferQueue, woken, waking, deferred, ran>>

Clear(l) ==
  /\ next[l] = Len(Old(l)) + 1 /\ waking[l] = Nobody
  /\ deferQueues' = [deferQueues EXCEPT ![l][Other(currentDeferQueue[l])] = <<>>]
  /\ next' = [next EXCEPT ![l] = 0]
  /\ UNCHANGED <<currentDeferQueue, woken, waking, deferred, ran>>

LoopStep(l) == Swap(l) \/ Run(l) \/ Clear(l)

LoopNext ==
  \/ \E t \in Threads : WakeUp(t) \/ \E l \in Loops, callback \in Callbacks : Defer(t, l, callback)
  \/ \E l \in Loops : LoopStep(l)

LoopSpec == LoopInit /\ [][LoopNext]_loopVars

-----------------------------------------------------------------------------
LoopTypeOK ==
  /\ deferQueues \in [Loops -> [0..1 -> Seq(Callbacks)]]
  /\ currentDeferQueue \in [Loops -> 0..1]
  /\ next \in [Loops -> Nat]
  /\ woken \in [Loops -> BOOLEAN]
  /\ waking \in [Threads -> Loops \cup {Nobody}]
  /\ deferred \in [Loops -> Seq(Callbacks)]
  /\ ran \in [Loops -> Seq(Callbacks)]

(* What wakeupCb still has to run of the queue it took.                    *)
ToRun(l) == IF next[l] = 0 THEN <<>> ELSE SubSeq(Old(l), next[l], Len(Old(l)))

(* Every callback is run once, in the order in which the threads got the   *)
(* mutex, and none is left behind: what a loop ran, has taken and finds in *)
(* its queue is all that was deferred to it, and while something is in its *)
(* queue it is woken up or about to be.                                    *)
CallbacksInOrder ==
  \A l \in Loops :
    /\ deferred[l] = (ran[l] \o ToRun(l)) \o deferQueues[l][currentDeferQueue[l]]
    /\ deferQueues[l][currentDeferQueue[l]] # <<>> => woken[l] \/ \E t \in Threads : waking[t] = l
=============================================================================
