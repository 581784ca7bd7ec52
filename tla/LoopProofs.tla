----------------------------- MODULE LoopProofs -----------------------------
(***************************************************************************)
(* Loop::defer for any number of loops, threads and callbacks: what is     *)
(* deferred is run once, in the order of the mutex, and no wakeup is lost. *)
(***************************************************************************)
EXTENDS ChildApps, Integers, SequenceTheorems, TLAPS

(* A callback that is run moves from what is left of the queue to what     *)
(* was run.                                                                *)
LEMMA RunNext ==
  ASSUME NEW S, NEW a \in Seq(S), NEW s \in Seq(S), NEW i \in 1..Len(s)
  PROVE  /\ Append(a, s[i]) \o SubSeq(s, i + 1, Len(s)) = a \o SubSeq(s, i, Len(s))
         /\ SubSeq(s, i + 1, Len(s)) \in Seq(S)
<1>1. Len(s) \in Nat /\ s[i] \in S /\ <<s[i]>> \in Seq(S)
  BY LenProperties, ElementOfSeq
<1>2. SubSeq(s, i + 1, Len(s)) \in Seq(S)
  <2>1. \A k \in (i + 1)..Len(s) : s[k] \in S
    BY <1>1, ElementOfSeq
  <2> QED
    BY <1>1, <2>1, SubSeqProperties
<1>3. SubSeq(s, i, Len(s)) = <<s[i]>> \o SubSeq(s, i + 1, Len(s))
  BY <1>1, SubSeqRecursiveFirst
<1>4. Append(a, s[i]) = a \o <<s[i]>>
  BY <1>1, AppendIsConcat
<1> DEFINE first == <<s[i]>>
           rest == SubSeq(s, i + 1, Len(s))
<1>5. first \in Seq(S) /\ rest \in Seq(S)
  BY <1>1, <1>2
<1>6. SubSeq(s, i, Len(s)) = first \o rest /\ Append(a, s[i]) = a \o first
  BY <1>3, <1>4
<1> HIDE DEF first, rest
<1>7. (a \o first) \o rest = a \o (first \o rest)
  <2>1. ASSUME NEW b \in Seq(S), NEW c \in Seq(S) PROVE (a \o b) \o c = a \o (b \o c)
    OBVIOUS
  <2> QED
    BY <1>5, <2>1, Zenon
<1>8. Append(a, s[i]) \o rest = a \o SubSeq(s, i, Len(s))
  BY <1>6, <1>7
<1> QED
  BY <1>2, <1>8 DEF rest

-----------------------------------------------------------------------------
(* What makes the property inductive: outside of wakeupCb the old queue is *)
(* empty, and inside of it the next callback is one of it or behind it.    *)
OldIsTaken ==
  \A l \in Loops : /\ next[l] = 0 => Old(l) = <<>>
                   /\ next[l] <= Len(Old(l)) + 1
LoopInv == LoopTypeOK /\ OldIsTaken /\ CallbacksInOrder

(* There are two queues, and the other of the other is the first. *)
LEMMA Swapping == \A q \in 0..1 : Other(q) \in 0..1 /\ Other(q) # q /\ Other(Other(q)) = q
BY DEF Other

(* Both queues of a loop are sequences, and so is what is left to run. *)
LEMMA Typing ==
  ASSUME LoopTypeOK, NEW l \in Loops
  PROVE  /\ Old(l) \in Seq(Callbacks)
         /\ deferQueues[l][currentDeferQueue[l]] \in Seq(Callbacks)
         /\ Len(Old(l)) \in Nat /\ next[l] \in Nat
         /\ DOMAIN Old(l) = 1..Len(Old(l))
         /\ ToRun(l) \in Seq(Callbacks)
<1>1. currentDeferQueue[l] \in 0..1 /\ Other(currentDeferQueue[l]) \in 0..1 /\ next[l] \in Nat
  BY Swapping DEF LoopTypeOK
<1>2. Old(l) \in Seq(Callbacks) /\ deferQueues[l][currentDeferQueue[l]] \in Seq(Callbacks)
  BY <1>1 DEF LoopTypeOK, Old
<1>3. Len(Old(l)) \in Nat /\ DOMAIN Old(l) = 1..Len(Old(l))
  BY <1>2, LenProperties
<1>4. ToRun(l) \in Seq(Callbacks)
  <2>1. CASE next[l] = 0
    BY <2>1, EmptySeq DEF ToRun
  <2>2. CASE next[l] # 0
    <3>1. \A k \in next[l]..Len(Old(l)) : Old(l)[k] \in Callbacks
      BY <1>1, <1>2, <1>3, <2>2, ElementOfSeq
    <3>2. SubSeq(Old(l), next[l], Len(Old(l))) \in Seq(Callbacks)
      BY <1>1, <1>3, <3>1, SubSeqProperties
    <3> QED
      BY <2>2, <3>2 DEF ToRun
  <2> QED
    BY <2>1, <2>2
<1> QED
  BY <1>1, <1>2, <1>3, <1>4

(* A loop whose part of the state a step leaves alone keeps its part of    *)
(* the invariant, but for the wakeup.                                      *)
LEMMA Untouched ==
  ASSUME NEW l \in Loops,
         deferQueues'[l] = deferQueues[l], currentDeferQueue'[l] = currentDeferQueue[l], next'[l] = next[l]
  PROVE  Old(l)' = Old(l) /\ ToRun(l)' = ToRun(l)
BY DEF Old, ToRun

(* At the start all queues are empty. *)
LEMMA InitHolds == LoopInit => LoopInv
<1> SUFFICES ASSUME LoopInit PROVE LoopInv
  OBVIOUS
<1>1. LoopTypeOK
  BY EmptySeq DEF LoopInit, LoopTypeOK
<1>2. ASSUME NEW l \in Loops
      PROVE  Old(l) = <<>> /\ ToRun(l) = <<>> /\ next[l] = 0 /\ deferQueues[l][currentDeferQueue[l]] = <<>>
  <2>1. next[l] = 0 /\ currentDeferQueue[l] = 0 /\ \A q \in 0..1 : deferQueues[l][q] = <<>>
    BY DEF LoopInit
  <2>2. Other(0) \in 0..1 /\ 0 \in 0..1
    BY Swapping
  <2> QED
    BY <2>1, <2>2 DEF Old, ToRun
<1>3. OldIsTaken
  <2>1. Len(<<>>) = 0
    BY EmptySeq
  <2>2. ASSUME NEW l \in Loops PROVE Len(Old(l)) = 0
    BY <1>2, <2>1
  <2>3. ASSUME NEW l \in Loops PROVE (next[l] = 0 => Old(l) = <<>>) /\ next[l] <= Len(Old(l)) + 1
    <3>1. next[l] = 0 /\ Len(Old(l)) = 0 /\ Old(l) = <<>>
      BY <1>2, <2>2
    <3> QED
      BY <3>1
  <2> QED
    BY <2>3 DEF OldIsTaken
<1>4. CallbacksInOrder
  <2>1. (<<>> \o <<>>) \o <<>> = <<>>
    BY EmptySeq, ConcatEmptySeq
  <2>2. \A l \in Loops : deferred[l] = <<>> /\ ran[l] = <<>>
    BY DEF LoopInit
  <2> QED
    BY <1>2, <2>1, <2>2 DEF CallbacksInOrder
<1> QED
  BY <1>1, <1>3, <1>4 DEF LoopInv

-----------------------------------------------------------------------------
(* defer appends to the current queue; the one that is run is not touched. *)
LEMMA DeferKeeps ==
  ASSUME LoopInv, NEW t \in Threads, NEW l \in Loops, NEW c \in Callbacks, Defer(t, l, c)
  PROVE  LoopInv'
<1> USE DEF LoopInv
<1> DEFINE cur == currentDeferQueue[l]
<1>1. cur \in 0..1 /\ Other(cur) \in 0..1 /\ Other(cur) # cur
  BY Swapping DEF LoopTypeOK
<1>2. deferQueues'[l][cur] = Append(deferQueues[l][cur], c) /\ Old(l)' = Old(l) /\ currentDeferQueue' = currentDeferQueue
  BY <1>1 DEF Defer, Old, LoopTypeOK
<1>3. LoopTypeOK'
  <2>1. Append(deferQueues[l][cur], c) \in Seq(Callbacks) /\ Append(deferred[l], c) \in Seq(Callbacks)
    BY <1>1 DEF LoopTypeOK
  <2> QED
    BY <1>1, <2>1 DEF LoopTypeOK, Defer
<1>4. \A k \in Loops \ {l} : /\ deferQueues'[k] = deferQueues[k] /\ currentDeferQueue'[k] = currentDeferQueue[k]
                              /\ next'[k] = next[k] /\ deferred'[k] = deferred[k]
  BY DEF Defer, LoopTypeOK
<1>5. next' = next /\ ran' = ran /\ woken' = woken /\ waking[t] = Nobody /\ waking'[t] = l
      /\ \A u \in Threads \ {t} : waking'[u] = waking[u]
  BY DEF Defer, LoopTypeOK
<1>6. OldIsTaken'
  BY <1>2, <1>4, <1>5, Untouched DEF OldIsTaken
<1>7. ASSUME NEW k \in Loops
      PROVE  /\ deferred'[k] = (ran'[k] \o ToRun(k)') \o deferQueues'[k][currentDeferQueue'[k]]
             /\ deferQueues'[k][currentDeferQueue'[k]] # <<>> => woken'[k] \/ \E u \in Threads : waking'[u] = k
  <2>1. CASE k = l
    <3>1. ToRun(l)' = ToRun(l)
      BY <1>2, <1>5 DEF ToRun
    <3>2. ran[l] \o ToRun(l) \in Seq(Callbacks) /\ deferQueues[l][cur] \in Seq(Callbacks)
      BY Typing, ConcatProperties DEF LoopTypeOK
    <3>3. deferred'[l] = Append(deferred[l], c)
      BY DEF Defer, LoopTypeOK
    <3>4. deferred[l] = (ran[l] \o ToRun(l)) \o deferQueues[l][cur]
      BY DEF CallbacksInOrder
    <3> DEFINE old == ran[l] \o ToRun(l)
               queued == deferQueues[l][cur]
    <3>5. deferred'[l] = Append(old \o queued, c) /\ old \in Seq(Callbacks) /\ queued \in Seq(Callbacks)
      BY <3>2, <3>3, <3>4
    <3>6. (ran'[l] \o ToRun(l)') \o deferQueues'[l][currentDeferQueue'[l]] = old \o Append(queued, c)
      BY <1>2, <1>5, <3>1
    <3> HIDE DEF old, queued
    <3>7. Append(old \o queued, c) = old \o Append(queued, c)
      <4>1. ASSUME NEW p \in Seq(Callbacks), NEW q \in Seq(Callbacks) PROVE Append(p \o q, c) = p \o Append(q, c)
        OBVIOUS
      <4> QED
        BY <3>5, <4>1, Zenon
    <3> QED
      BY <2>1, <1>5, <3>5, <3>6, <3>7
  <2>2. CASE k # l
    <3>1. ToRun(k)' = ToRun(k)
      BY <2>2, <1>4, Untouched
    <3>2. \A u \in Threads : waking[u] = k => waking'[u] = k
      BY <1>5, LoopAssumption
    <3>3. deferred'[k] = deferred[k] /\ deferQueues'[k][currentDeferQueue'[k]] = deferQueues[k][currentDeferQueue[k]]
      BY <2>2, <1>4
    <3>4. /\ deferred[k] = (ran[k] \o ToRun(k)) \o deferQueues[k][currentDeferQueue[k]]
          /\ deferQueues[k][currentDeferQueue[k]] # <<>> => woken[k] \/ \E u \in Threads : waking[u] = k
      BY DEF CallbacksInOrder
    <3> QED
      BY <1>5, <3>1, <3>2, <3>3, <3>4, Zenon
  <2> QED
    BY <2>1, <2>2
<1>8. CallbacksInOrder'
  BY <1>7 DEF CallbacksInOrder
<1> QED
  BY <1>3, <1>6, <1>8

(* The wake-up after the unlock touches no queue. *)
LEMMA WakeUpKeeps ==
  ASSUME LoopInv, NEW t \in Threads, WakeUp(t)
  PROVE  LoopInv'
<1> USE DEF LoopInv
<1>1. waking[t] \in Loops
  BY DEF WakeUp, LoopTypeOK
<1>2. LoopTypeOK'
  BY <1>1 DEF WakeUp, LoopTypeOK
<1>3. \A k \in Loops : Old(k)' = Old(k) /\ ToRun(k)' = ToRun(k)
  BY Untouched DEF WakeUp
<1>4. OldIsTaken'
  BY <1>3 DEF WakeUp, OldIsTaken
<1>5. ASSUME NEW k \in Loops, woken[k] \/ \E u \in Threads : waking[u] = k
      PROVE  woken'[k] \/ \E u \in Threads : waking'[u] = k
  BY <1>1, <1>5 DEF WakeUp, LoopTypeOK
<1>6. CallbacksInOrder'
  BY <1>3, <1>5 DEF WakeUp, CallbacksInOrder
<1> QED
  BY <1>2, <1>4, <1>6

(* The swap makes the filled queue the old one; the other was empty. *)
LEMMA SwapKeeps ==
  ASSUME LoopInv, NEW l \in Loops, Swap(l)
  PROVE  LoopInv'
<1> USE DEF LoopInv
<1> DEFINE cur == currentDeferQueue[l]
<1>1. cur \in 0..1 /\ Other(cur) \in 0..1 /\ Other(Other(cur)) = cur /\ next[l] = 0
  BY Swapping DEF LoopTypeOK, Swap
<1>2. LoopTypeOK'
  BY <1>1 DEF LoopTypeOK, Swap
<1>3. deferQueues' = deferQueues /\ currentDeferQueue'[l] = Other(cur) /\ next'[l] = 1
      /\ deferred' = deferred /\ ran' = ran /\ waking' = waking
  BY DEF LoopTypeOK, Swap
<1>4. Old(l)' = deferQueues[l][cur] /\ deferQueues[l][Other(cur)] = <<>>
  BY <1>1, <1>3 DEF Old, OldIsTaken
<1>5. deferQueues[l][cur] \in Seq(Callbacks) /\ Len(deferQueues[l][cur]) \in Nat /\ ran[l] \in Seq(Callbacks)
  BY Typing, LenProperties DEF LoopTypeOK
<1>6. \A k \in Loops \ {l} : /\ currentDeferQueue'[k] = currentDeferQueue[k]
                              /\ next'[k] = next[k] /\ woken'[k] = woken[k]
  BY DEF Swap, LoopTypeOK
<1>7. OldIsTaken'
  BY <1>3, <1>4, <1>5, <1>6, Untouched DEF OldIsTaken
<1>8. ASSUME NEW k \in Loops
      PROVE  /\ deferred'[k] = (ran'[k] \o ToRun(k)') \o deferQueues'[k][currentDeferQueue'[k]]
             /\ deferQueues'[k][currentDeferQueue'[k]] # <<>> => woken'[k] \/ \E u \in Threads : waking'[u] = k
  <2>1. CASE k = l
    <3>1. ToRun(l) = <<>> /\ ToRun(l)' = deferQueues[l][cur]
      BY <1>1, <1>3, <1>4, <1>5, SubSeqFull DEF ToRun
    <3>2. deferred[l] = ran[l] \o deferQueues[l][cur]
      BY <3>1, <1>5, ConcatEmptySeq DEF CallbacksInOrder
    <3>3. (ran[l] \o deferQueues[l][cur]) \o <<>> = ran[l] \o deferQueues[l][cur]
      BY <1>5, ConcatProperties, ConcatEmptySeq
    <3> QED
      BY <2>1, <1>3, <1>4, <3>1, <3>2, <3>3
  <2>2. CASE k # l
    BY <2>2, <1>3, <1>6, Untouched DEF CallbacksInOrder
  <2> QED
    BY <2>1, <2>2
<1>9. CallbacksInOrder'
  BY <1>8 DEF CallbacksInOrder
<1> QED
  BY <1>2, <1>7, <1>9

(* A callback that is run moves from what is left to what was run. *)
LEMMA RunKeeps ==
  ASSUME LoopInv, NEW l \in Loops, Run(l)
  PROVE  LoopInv'
<1> USE DEF LoopInv
<1>1. Old(l) \in Seq(Callbacks) /\ Len(Old(l)) \in Nat /\ next[l] \in 1..Len(Old(l)) /\ ran[l] \in Seq(Callbacks)
  BY Typing DEF Run, LoopTypeOK
<1>2. Old(l)[next[l]] \in Callbacks
  BY <1>1, ElementOfSeq
<1>3. LoopTypeOK'
  <2>1. Append(ran[l], Old(l)[next[l]]) \in Seq(Callbacks) /\ next[l] + 1 \in Nat
    BY <1>1, <1>2
  <2> QED
    BY <2>1 DEF LoopTypeOK, Run
<1>4. deferQueues' = deferQueues /\ currentDeferQueue' = currentDeferQueue /\ woken' = woken /\ waking' = waking
      /\ deferred' = deferred /\ next'[l] = next[l] + 1 /\ ran'[l] = Append(ran[l], Old(l)[next[l]])
      /\ \A k \in Loops \ {l} : next'[k] = next[k] /\ ran'[k] = ran[k]
  BY DEF Run, LoopTypeOK
<1>5. \A k \in Loops : Old(k)' = Old(k)
  BY <1>4 DEF Old
<1>6. OldIsTaken'
  BY <1>1, <1>4, <1>5 DEF OldIsTaken
<1>7. ran'[l] \o ToRun(l)' = ran[l] \o ToRun(l)
  <2>1. next[l] # 0 /\ next[l] + 1 # 0 /\ Old(l)' = Old(l) /\ next'[l] = next[l] + 1
    BY <1>1, <1>4, <1>5
  <2>2. ToRun(l) = SubSeq(Old(l), next[l], Len(Old(l))) /\ ToRun(l)' = SubSeq(Old(l), next[l] + 1, Len(Old(l)))
    BY <2>1, Zenon DEF ToRun
  <2>3. Append(ran[l], Old(l)[next[l]]) \o SubSeq(Old(l), next[l] + 1, Len(Old(l))) = ran[l] \o SubSeq(Old(l), next[l], Len(Old(l)))
    BY <1>1, RunNext, Zenon
  <2> QED
    BY <1>4, <2>2, <2>3, Zenon
<1>8. \A k \in Loops \ {l} : ToRun(k)' = ToRun(k) /\ ran'[k] = ran[k]
  BY <1>4, Untouched
<1>9. CallbacksInOrder'
  <2>1. \A k \in Loops : ran'[k] \o ToRun(k)' = ran[k] \o ToRun(k)
    BY <1>7, <1>8, Zenon
  <2> QED
    BY <1>4, <2>1, Zenon DEF CallbacksInOrder
<1> QED
  BY <1>3, <1>6, <1>9

(* The clear drops a queue of which every callback was run. *)
LEMMA ClearKeeps ==
  ASSUME LoopInv, NEW l \in Loops, Clear(l)
  PROVE  LoopInv'
<1> USE DEF LoopInv
<1> DEFINE cur == currentDeferQueue[l]
<1>1. cur \in 0..1 /\ Other(cur) \in 0..1 /\ Other(cur) # cur
  BY Swapping DEF LoopTypeOK
<1>2. LoopTypeOK'
  BY <1>1, EmptySeq DEF LoopTypeOK, Clear
<1>3. currentDeferQueue' = currentDeferQueue /\ woken' = woken /\ waking' = waking /\ deferred' = deferred /\ ran' = ran
      /\ next'[l] = 0 /\ next[l] = Len(Old(l)) + 1
  BY DEF Clear, LoopTypeOK
<1>4. Old(l)' = <<>> /\ deferQueues'[l][cur] = deferQueues[l][cur]
  BY <1>1, <1>3 DEF Clear, LoopTypeOK, Old
<1>5. ToRun(l) = <<>> /\ ToRun(l)' = <<>>
  <2>1. Len(Old(l)) \in Nat
    BY Typing
  <2>2. SubSeq(Old(l), next[l], Len(Old(l))) = <<>>
    BY <1>3, <2>1, SubSeqEmpty
  <2> QED
    BY <1>3, <2>2 DEF ToRun
<1>6. \A k \in Loops \ {l} : deferQueues'[k] = deferQueues[k] /\ next'[k] = next[k]
  BY DEF Clear, LoopTypeOK
<1>7. OldIsTaken'
  <2>1. Len(Old(l)') = 0
    BY <1>4
  <2> QED
    BY <1>3, <1>4, <1>6, <2>1, Untouched DEF OldIsTaken
<1>8. \A k \in Loops : ToRun(k)' = ToRun(k) /\ deferQueues'[k][currentDeferQueue'[k]] = deferQueues[k][currentDeferQueue[k]]
  BY <1>3, <1>4, <1>5, <1>6, Untouched
<1>9. CallbacksInOrder'
  BY <1>3, <1>8 DEF CallbacksInOrder
<1> QED
  BY <1>2, <1>7, <1>9

(* Every step of the loops keeps the invariant. *)
LEMMA NextKeeps == LoopInv /\ [LoopNext]_loopVars => LoopInv'
<1> SUFFICES ASSUME LoopInv, [LoopNext]_loopVars PROVE LoopInv'
  OBVIOUS
<1>1. ASSUME NEW t \in Threads, WakeUp(t) PROVE LoopInv'
  BY <1>1, WakeUpKeeps
<1>2. ASSUME NEW t \in Threads, NEW l \in Loops, NEW c \in Callbacks, Defer(t, l, c) PROVE LoopInv'
  BY <1>2, DeferKeeps
<1>3. ASSUME NEW l \in Loops, Swap(l) PROVE LoopInv'
  BY <1>3, SwapKeeps
<1>4. ASSUME NEW l \in Loops, Run(l) PROVE LoopInv'
  BY <1>4, RunKeeps
<1>5. ASSUME NEW l \in Loops, Clear(l) PROVE LoopInv'
  BY <1>5, ClearKeeps
<1>6. CASE UNCHANGED loopVars
  BY <1>6 DEF loopVars, LoopInv, LoopTypeOK, OldIsTaken, CallbacksInOrder, Old, ToRun
<1> QED
  BY <1>1, <1>2, <1>3, <1>4, <1>5, <1>6 DEF LoopNext, LoopStep

(* The queues, flags and histories of the loops have their types.          *)
THEOREM LoopTypeCorrect == LoopSpec => []LoopTypeOK
<1>1. LoopInv => LoopTypeOK
  BY DEF LoopInv
<1> QED
  BY <1>1, InitHolds, NextKeeps, PTL DEF LoopSpec

(* Loop::defer keeps its promise: every callback is run once and in the    *)
(* order of the mutex, and none stays in a queue nobody is woken up for.   *)
THEOREM DeferredIsRun == LoopSpec => []CallbacksInOrder
<1>1. LoopInv => CallbacksInOrder
  BY DEF LoopInv
<1> QED
  BY <1>1, InitHolds, NextKeeps, PTL DEF LoopSpec

-----------------------------------------------------------------------------
(* Every step of the child apps is a step of the loops, or leaves them alone. *)
LEMMA ChildSteps == [ChildNext]_childVars => [LoopNext]_loopVars
<1> SUFFICES ASSUME [ChildNext]_childVars PROVE [LoopNext]_loopVars
  OBVIOUS
<1>1. ASSUME PreOpen PROVE [LoopNext]_loopVars
  <2>1. UNCHANGED loopVars \/ \E l \in Loops, c \in Callbacks : Defer(Main, l, c)
    BY <1>1 DEF PreOpen
  <2>2. Main \in Threads
    BY LoopAssumption, ChildAssumption
  <2> QED
    BY <2>1, <2>2 DEF LoopNext
<1>2. ASSUME NEW l \in Loops, AddChildApp(l) \/ RemoveChildApp(l) PROVE UNCHANGED loopVars
  BY <1>2 DEF AddChildApp, RemoveChildApp
<1>3. ASSUME NEW l \in Loops, AdoptSocket(l) PROVE LoopNext
  BY <1>3 DEF AdoptSocket, LoopNext, LoopStep
<1>4. ASSUME Elsewhere PROVE LoopNext
  <2>1. 0 \in Callbacks
    BY ChildAssumption
  <2> QED
    BY <1>4, <2>1 DEF Elsewhere, LoopNext, LoopStep
<1>5. CASE UNCHANGED childVars
  BY <1>5 DEF childVars
<1> QED
  BY <1>1, <1>2, <1>3, <1>4, <1>5 DEF ChildNext

(* However an app deals out its sockets, it uses the queues of the loops   *)
(* as Loop::defer and wakeupCb do, so that every child app runs the        *)
(* callbacks it was sent once and in order.                                *)
THEOREM ChildImplementsLoop == ChildSpec => LoopSpec /\ []CallbacksInOrder
<1>1. ChildInit => LoopInit
  BY DEF ChildInit
<1>2. ChildSpec => LoopSpec
  BY <1>1, ChildSteps, PTL DEF ChildSpec, LoopSpec
<1> QED
  BY <1>2, DeferredIsRun, PTL
=============================================================================
