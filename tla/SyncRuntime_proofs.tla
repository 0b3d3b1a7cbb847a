------------------------- MODULE SyncRuntime_proofs -------------------------
(***************************************************************************)
(* Safety of the sync runtime for every number of slots, workers and       *)
(* queries.  IInv is the inductive invariant; the theorems at the end are  *)
(* the invariants the TLC runs check on a small instance.                  *)
(***************************************************************************)
EXTENDS SyncRuntime, TLAPS

(***************************************************************************)
(* Sequences: what the free list's push and pop do to it.                  *)
(***************************************************************************)
\* A function on 1 .. n is a sequence of length n.
LEMMA FunctionIsSeq ==
    ASSUME NEW S, NEW n \in Nat, NEW f \in [1 .. n -> S]
    PROVE  f \in Seq(S) /\ Len(f) = n
  BY SMT

\* A non-empty sequence has a last element.
LEMMA LastOfSeq ==
    ASSUME NEW S, NEW f \in Seq(S), f # << >>
    PROVE  Len(f) \in Nat \ {0} /\ f[Len(f)] \in S
  BY SMT

\* SubSeq(f, 1, Len(f) - 1) is f without its last element.
LEMMA FrontOfSeq ==
    ASSUME NEW S, NEW f \in Seq(S), NEW n \in Nat, n = Len(f) - 1
    PROVE  /\ SubSeq(f, 1, n) \in Seq(S)
           /\ Len(SubSeq(f, 1, n)) = n
           /\ \A i \in 1 .. n : SubSeq(f, 1, n)[i] = f[i]
<1>1. SubSeq(f, 1, n) \in Seq(S)
  BY SMT
<1>2. Len(SubSeq(f, 1, n)) = n
  BY SMT
<1>3. \A i \in 1 .. n : SubSeq(f, 1, n)[i] = f[i]
  BY SMT
<1> QED
  BY <1>1, <1>2, <1>3

\* Append adds one element at the end.
LEMMA AppendToSeq ==
    ASSUME NEW S, NEW f \in Seq(S), NEW e \in S
    PROVE  /\ Append(f, e) \in Seq(S)
           /\ Len(f) \in Nat /\ Len(Append(f, e)) = Len(f) + 1
           /\ Append(f, e)[Len(f) + 1] = e
           /\ \A i \in 1 .. Len(f) : Append(f, e)[i] = f[i]
<1>1. Append(f, e) \in Seq(S) /\ Len(f) \in Nat /\ Len(Append(f, e)) = Len(f) + 1
  BY SMT
<1>2. Append(f, e)[Len(f) + 1] = e
  BY SMT
<1>3. \A i \in 1 .. Len(f) : Append(f, e)[i] = f[i]
  BY SMT
<1> QED
  BY <1>1, <1>2, <1>3

(***************************************************************************)
(* grow_chunk adds at least one slot and stays within the capacity.        *)
(***************************************************************************)
LEMMA GrowByBounds ==
    ASSUME StoreTypeOK, ~Exhausted
    PROVE  /\ GrowBy \in Nat /\ allocated + GrowBy \in 0 .. Capacity
           /\ freeList = << >> => GrowBy >= 1
  BY TxnStoreAssumption DEF StoreTypeOK, Exhausted, GrowBy

(***************************************************************************)
(* acquire with a non-empty list takes its last id and grows nothing.      *)
(***************************************************************************)
LEMMA PopFreeNonEmpty ==
    ASSUME StoreTypeOK, NEW id, PopFree(id), freeList # << >>
    PROVE  /\ Len(freeList) \in Nat \ {0}
           /\ id = freeList[Len(freeList)] /\ id \in SlotId
           /\ allocated' = allocated
           /\ freeList' \in Seq(SlotId) /\ Len(freeList') = Len(freeList) - 1
           /\ \A i \in 1 .. Len(freeList') : freeList'[i] = freeList[i]
<1>1. freeList \in Seq(SlotId) /\ Len(freeList) \in Nat \ {0} /\ freeList[Len(freeList)] \in SlotId
  BY LastOfSeq DEF StoreTypeOK
<1>2. /\ id = freeList[Len(freeList)] /\ allocated' = allocated
      /\ freeList' = SubSeq(freeList, 1, Len(freeList) - 1)
  BY DEF PopFree, FreeAfterGrow
<1>3. Len(freeList) - 1 \in Nat
  BY <1>1
<1>4. /\ freeList' \in Seq(SlotId) /\ Len(freeList') = Len(freeList) - 1
      /\ \A i \in 1 .. Len(freeList) - 1 : freeList'[i] = freeList[i]
  BY <1>1, <1>2, <1>3, FrontOfSeq, Zenon
<1> QED
  BY <1>1, <1>2, <1>4

(***************************************************************************)
(* acquire with an empty list grows the arena by one chunk, takes the      *)
(* highest new id and leaves the others on the list.                       *)
(***************************************************************************)
LEMMA PopFreeEmpty ==
    ASSUME StoreTypeOK, NEW id, PopFree(id), freeList = << >>
    PROVE  /\ GrowBy \in Nat \ {0}
           /\ id = allocated + GrowBy - 1 /\ id \in SlotId
           /\ allocated' = allocated + GrowBy /\ allocated' \in 0 .. Capacity
           /\ freeList' \in Seq(SlotId) /\ Len(freeList') = GrowBy - 1
           /\ \A i \in 1 .. Len(freeList') : freeList'[i] = allocated + i - 1
<1>1. /\ GrowBy \in Nat \ {0} /\ allocated + GrowBy \in 0 .. Capacity
      /\ Capacity \in Nat /\ allocated \in Nat
  BY GrowByBounds, TxnStoreAssumption DEF PopFree, StoreTypeOK
<1> DEFINE f == [i \in 1 .. GrowBy |-> allocated + i - 1]
<1>2. f \in [1 .. GrowBy -> SlotId]
  BY <1>1 DEF SlotId
<1>3. f \in Seq(SlotId) /\ Len(f) = GrowBy
  <2> HIDE DEF f
  <2> QED  BY <1>1, <1>2, FunctionIsSeq
<1>4. FreeAfterGrow = f
  BY DEF FreeAfterGrow
<1>5. /\ id = f[GrowBy] /\ freeList' = SubSeq(f, 1, GrowBy - 1)
      /\ allocated' = allocated + GrowBy
  BY <1>3, <1>4, Zenon DEF PopFree
<1>6. \A i \in 1 .. GrowBy : f[i] = allocated + i - 1
  OBVIOUS
<1> HIDE DEF f
<1>7. /\ freeList' \in Seq(SlotId) /\ Len(freeList') = GrowBy - 1
      /\ \A i \in 1 .. GrowBy - 1 : freeList'[i] = f[i]
  <2>1. GrowBy - 1 \in Nat
    BY <1>1
  <2> QED  BY <1>3, <1>5, <2>1, FrontOfSeq
<1>8. id = allocated + GrowBy - 1 /\ id \in SlotId
  BY <1>1, <1>2, <1>5, <1>6
<1> QED
  BY <1>1, <1>5, <1>6, <1>7, <1>8

-----------------------------------------------------------------------------
(* The inductive invariant.                                                *)

\* Every id on the free list belongs to the arena.
FreeAllocated == \A i \in 1 .. Len(freeList) : freeList[i] < allocated

\* A slot that no worker has published, or that its worker has cleared, is Free.
Publishing(w) == pc[w] \in {"enter", "run", "running", "clear"}
UnheldIsFree ==
    \A s \in SlotId : slotState[s] # "Free" => \E w \in Workers : Publishing(w) /\ slotOf[w] = s

\* Only a worker inside the pipeline holds a mutex, that of its own slot.
LockedByRunner ==
    \A s \in SlotId : lock[s] # NoOne => pc[lock[s]] = "running" /\ slotOf[lock[s]] = s

\* What the scan knows of the slots that were active when the drain began.
DrainKnows ==
    /\ \A s \in drain.active : slotState[s] # "Free"
    /\ drain.at = "scan" => drain.remaining <= drain.next /\ drain.next <= drain.limit
    /\ drain.at = "scan" => \A s \in drain.active : s < drain.limit
    /\ drain.at = "scan" /\ drain.remaining = 0 => \A s \in drain.active : s >= drain.next
    /\ drain.at = "decide" /\ drain.remaining = 0 => drain.active = {}
    /\ drain.at \in {"off", "copy", "scan", "decide"} => drain.result = "none"

\* An open query is in the hands of a worker that has not left its loop.
OpenIsServed ==
    \A q \in Queries : outcome[q] = "open" =>
        \E w \in Workers : cur[w] = q /\ pc[w] \notin {"recv", "exited"}

DoneIsJoined == drain.at = "done" => \A w \in Workers : pc[w] = "exited"

IInv ==
    /\ TypeOK
    /\ FreeAllocated /\ SlotsPartitioned
    /\ UnheldIsFree /\ LockedByRunner /\ StateFollowsHolder
    /\ DrainKnows /\ DrainedWaitedForActive
    /\ OpenIsServed /\ DoneIsJoined

-----------------------------------------------------------------------------
(***************************************************************************)
(* Type correctness of every step.                                         *)
(***************************************************************************)
LEMMA TypeStep ==
    ASSUME IInv, [Next]_vars
    PROVE  TypeOK'
<1> USE DEF IInv
<1>1. ASSUME NEW w \in Workers, NEW q \in Queries, Receive(w, q) PROVE TypeOK'
  <2>1. UNCHANGED <<freeList, allocated, slotState, slotOf, reply, lock, shutdown, drain>>
    BY <1>1 DEF Receive, storeVars
  <2>2. \E to \in {"acquire", "recv", "exited"} : pc' = [pc EXCEPT ![w] = to]
    BY <1>1 DEF Receive, Goto, LoopTop
  <2>3. cur' = [cur EXCEPT ![w] = q] \/ cur' = cur
    BY <1>1 DEF Receive
  <2>4. \E o \in Outcome : outcome' = [outcome EXCEPT ![q] = o]
    BY <1>1 DEF Receive, Outcome
  <2>5. StoreTypeOK'
    BY <2>1 DEF TypeOK, StoreTypeOK
  <2>6. pc' \in [Workers -> {"recv", "acquire", "publish", "enter", "run", "running",
                             "clear", "return", "reply", "exited"}]
    BY <2>2 DEF TypeOK
  <2>7. cur' \in [Workers -> Queries \cup {NoOne}] /\ outcome' \in [Queries -> Outcome]
    BY <2>3, <2>4 DEF TypeOK
  <2> QED  BY <2>1, <2>5, <2>6, <2>7 DEF TypeOK
<1>2. ASSUME NEW w \in Workers, ReceiveError(w) PROVE TypeOK'
  BY <1>2 DEF TypeOK, StoreTypeOK, ReceiveError, Goto, storeVars
<1>3. ASSUME NEW w \in Workers, ObserveShutdown(w) PROVE TypeOK'
  BY <1>3 DEF TypeOK, StoreTypeOK, ObserveShutdown, Goto, storeVars
<1>4. ASSUME NEW w \in Workers, Acquire(w) PROVE TypeOK'
  <2>1. PICK id \in SlotId : PopFree(id) /\ slotOf' = [slotOf EXCEPT ![w] = id]
    BY <1>4, Zenon DEF Acquire
  <2>2. StoreTypeOK'
    <3>1. CASE freeList # << >>
      BY <2>1, <3>1, PopFreeNonEmpty DEF TypeOK, StoreTypeOK, PopFree
    <3>2. CASE freeList = << >>
      BY <2>1, <3>2, PopFreeEmpty DEF TypeOK, StoreTypeOK, PopFree
    <3> QED  BY <3>1, <3>2
  <2> QED  BY <1>4, <2>1, <2>2 DEF TypeOK, Acquire, Goto
<1>5. ASSUME NEW w \in Workers, AcquireExhausted(w) PROVE TypeOK'
  BY <1>5, Zenon DEF TypeOK, StoreTypeOK, AcquireExhausted, Goto, storeVars, LoopTop, Outcome
<1>6. ASSUME NEW w \in Workers, AcquirePublish(w) PROVE TypeOK'
  BY <1>6, Zenon DEF TypeOK, StoreTypeOK, AcquirePublish, Goto, storeVars, PublishIngress, SlotState
<1>7. ASSUME NEW w \in Workers, EnterPolicy(w) PROVE TypeOK'
  BY <1>7 DEF TypeOK, StoreTypeOK, EnterPolicy, Goto, storeVars, SetState, SlotState
<1>8. ASSUME NEW w \in Workers, RunBegin(w) PROVE TypeOK'
  BY <1>8 DEF TypeOK, StoreTypeOK, RunBegin, Goto, storeVars
<1>9. ASSUME NEW w \in Workers, RunEnd(w) PROVE TypeOK'
  BY <1>9, Zenon DEF TypeOK, StoreTypeOK, RunEnd, Goto, storeVars
<1>10. ASSUME NEW w \in Workers, ReleaseClear(w) PROVE TypeOK'
  BY <1>10, Zenon DEF TypeOK, StoreTypeOK, ReleaseClear, Goto, storeVars, ClearSlot, SlotState,
     DrainState
<1>11. ASSUME NEW w \in Workers, ReleaseReturn(w) PROVE TypeOK'
  <2>1. slotOf[w] \in SlotId
    BY <1>11 DEF SlotsPartitioned, ReleaseReturn, HoldsSlot, InUse
  <2>2. StoreTypeOK'
    BY <1>11, <2>1, AppendToSeq DEF TypeOK, StoreTypeOK, ReleaseReturn, ReturnToFree
  <2> QED  BY <1>11, <2>2 DEF TypeOK, ReleaseReturn, Goto
<1>12. ASSUME NEW w \in Workers, SendReply(w) PROVE TypeOK'
  BY <1>12, Zenon DEF TypeOK, StoreTypeOK, SendReply, Goto, storeVars, LoopTop, Outcome, Wire
<1>13. CASE ShutdownSignal
  <2>1. drain' \in DrainState
    <3>1. {s \in SlotId : slotState[s] # "Free"} \in SUBSET SlotId
      OBVIOUS
    <3>2. CASE drain' = [drain EXCEPT !.at = "copy",
                                      !.active = {s \in SlotId : slotState[s] # "Free"}]
      BY <3>1, <3>2, Zenon DEF TypeOK, DrainState
    <3>3. CASE drain' = [drain EXCEPT !.at = "teardown", !.result = "skipped"]
      BY <3>3, Zenon DEF TypeOK, DrainState
    <3> QED  BY <1>13, <3>2, <3>3 DEF ShutdownSignal
  <2> QED  BY <1>13, <2>1 DEF TypeOK, StoreTypeOK, ShutdownSignal, NoWorkerVars, storeVars,
     workerVars
<1>14. CASE DrainDeadline
  <2>1. drain' \in DrainState
    BY <1>14, Zenon DEF TypeOK, DrainState, DrainDeadline
  <2> QED  BY <1>14, <2>1 DEF TypeOK, StoreTypeOK, DrainDeadline, NoWorkerVars, storeVars,
     workerVars
<1>15. CASE SecondSignal
  <2>1. drain' \in DrainState
    BY <1>15, Zenon DEF TypeOK, DrainState, SecondSignal
  <2> QED  BY <1>15, <2>1 DEF TypeOK, StoreTypeOK, SecondSignal, NoWorkerVars, storeVars,
     workerVars
<1>16. CASE DrainCopy
  <2>1. drain' \in DrainState
    <3>1. allocated \in 0 .. Capacity /\ 0 \in 0 .. Capacity
      BY TxnStoreAssumption DEF TypeOK, StoreTypeOK
    <3>2. drain' = [drain EXCEPT !.at = "scan", !.limit = allocated, !.next = 0, !.remaining = 0]
      BY <1>16 DEF DrainCopy
    <3> QED  BY <3>1, <3>2, Zenon DEF TypeOK, DrainState
  <2> QED  BY <1>16, <2>1 DEF TypeOK, StoreTypeOK, DrainCopy, NoWorkerVars, storeVars,
     workerVars
<1>17. CASE DrainScan
  <2>1. drain' \in DrainState
    <3>1. CASE drain.next < drain.limit
      <4>1. drain.next + 1 \in 0 .. Capacity /\ drain.remaining + 1 \in 0 .. Capacity
        BY <1>17, <3>1, TxnStoreAssumption DEF TypeOK, DrainState, DrainScan, DrainKnows
      <4>2. CASE slotState[drain.next] # "Free"
        <5>1. drain' = [drain EXCEPT !.next = drain.next + 1, !.remaining = drain.remaining + 1]
          BY <1>17, <3>1, <4>2 DEF DrainScan
        <5> QED  BY <4>1, <5>1, Zenon DEF TypeOK, DrainState
      <4>3. CASE slotState[drain.next] = "Free"
        <5>1. drain' = [drain EXCEPT !.next = drain.next + 1, !.remaining = drain.remaining]
          BY <1>17, <3>1, <4>3 DEF DrainScan
        <5> QED  BY <4>1, <5>1, Zenon DEF TypeOK, DrainState
      <4> QED  BY <4>2, <4>3
    <3>2. CASE ~(drain.next < drain.limit)
      BY <1>17, <3>2 DEF TypeOK, DrainState, DrainScan
    <3> QED  BY <3>1, <3>2
  <2> QED  BY <1>17, <2>1 DEF TypeOK, StoreTypeOK, DrainScan, NoWorkerVars, storeVars,
     workerVars
<1>18. CASE DrainDecide
  <2>1. drain' \in DrainState
    <3>1. \/ \E r \in {"Drained", "Aborted", "TimedOut"} :
               drain' = [drain EXCEPT !.at = "teardown", !.result = r]
          \/ drain' = [drain EXCEPT !.at = "copy"]
      BY <1>18, Zenon DEF DrainDecide
    <3>2. CASE drain' = [drain EXCEPT !.at = "copy"]
      BY <3>2 DEF TypeOK, DrainState
    <3>3. ASSUME NEW r \in {"Drained", "Aborted", "TimedOut"},
                 drain' = [drain EXCEPT !.at = "teardown", !.result = r]
          PROVE  drain' \in DrainState
      BY <3>3, Zenon DEF TypeOK, DrainState
    <3> QED  BY <3>1, <3>2, <3>3
  <2> QED  BY <1>18, <2>1 DEF TypeOK, StoreTypeOK, DrainDecide, NoWorkerVars, storeVars,
     workerVars
<1>19. CASE Teardown
  <2>1. drain' \in DrainState
    BY <1>19 DEF TypeOK, DrainState, Teardown
  <2> QED  BY <1>19, <2>1 DEF TypeOK, StoreTypeOK, Teardown, NoWorkerVars, storeVars, workerVars
<1>20. CASE Join
  <2>1. drain' \in DrainState
    BY <1>20 DEF TypeOK, DrainState, Join
  <2> QED  BY <1>20, <2>1 DEF TypeOK, StoreTypeOK, Join, NoWorkerVars, storeVars, workerVars
<1>21. CASE UNCHANGED vars
  BY <1>21 DEF vars, TypeOK, StoreTypeOK
<1> QED
  BY <1>1, <1>2, <1>3, <1>4, <1>5, <1>6, <1>7, <1>8, <1>9, <1>10, <1>11,
     <1>12, <1>13, <1>14, <1>15, <1>16, <1>17, <1>18, <1>19, <1>20,
     <1>21
     DEF Next, WorkerStep, DrainStep

(***************************************************************************)
(* Only acquire's pop and release_active's push change who holds a slot.   *)
(***************************************************************************)
HoldingUnchanged ==
    /\ UNCHANGED <<freeList, allocated, slotOf>>
    /\ \A v \in Workers : HoldsSlot(v)' = HoldsSlot(v)

\* Only acquire and return_to_free change who holds which slot.
LEMMA HoldingStep ==
    ASSUME IInv, [Next]_vars
    PROVE  \/ HoldingUnchanged
           \/ \E w \in Workers : Acquire(w) \/ ReleaseReturn(w)
<1> USE DEF IInv
<1> DEFINE Goal == HoldingUnchanged \/ \E w \in Workers : Acquire(w) \/ ReleaseReturn(w)
<1>1. ASSUME NEW w \in Workers, NEW q \in Queries, Receive(w, q) PROVE Goal
  BY <1>1 DEF TypeOK, Receive, Goto, storeVars, HoldsSlot, HoldingUnchanged, LoopTop
<1>2. ASSUME NEW w \in Workers, ReceiveError(w) PROVE Goal
  BY <1>2 DEF TypeOK, ReceiveError, Goto, storeVars, HoldsSlot, HoldingUnchanged
<1>3. ASSUME NEW w \in Workers, ObserveShutdown(w) PROVE Goal
  BY <1>3 DEF TypeOK, ObserveShutdown, Goto, storeVars, HoldsSlot, HoldingUnchanged
<1>4. ASSUME NEW w \in Workers, Acquire(w) PROVE Goal
  BY <1>4
<1>5. ASSUME NEW w \in Workers, AcquireExhausted(w) PROVE Goal
  BY <1>5 DEF TypeOK, AcquireExhausted, Goto, storeVars, HoldsSlot, HoldingUnchanged, LoopTop
<1>6. ASSUME NEW w \in Workers, AcquirePublish(w) PROVE Goal
  BY <1>6 DEF TypeOK, AcquirePublish, Goto, storeVars, HoldsSlot, HoldingUnchanged,
     PublishIngress
<1>7. ASSUME NEW w \in Workers, EnterPolicy(w) PROVE Goal
  BY <1>7 DEF TypeOK, EnterPolicy, Goto, storeVars, HoldsSlot, HoldingUnchanged, SetState
<1>8. ASSUME NEW w \in Workers, RunBegin(w) PROVE Goal
  BY <1>8 DEF TypeOK, RunBegin, Goto, storeVars, HoldsSlot, HoldingUnchanged
<1>9. ASSUME NEW w \in Workers, RunEnd(w) PROVE Goal
  BY <1>9 DEF TypeOK, RunEnd, Goto, storeVars, HoldsSlot, HoldingUnchanged
<1>10. ASSUME NEW w \in Workers, ReleaseClear(w) PROVE Goal
  BY <1>10 DEF TypeOK, ReleaseClear, Goto, storeVars, HoldsSlot, HoldingUnchanged,
     ClearSlot, ShouldReturn, StateFollowsHolder
<1>11. ASSUME NEW w \in Workers, ReleaseReturn(w) PROVE Goal
  BY <1>11
<1>12. ASSUME NEW w \in Workers, SendReply(w) PROVE Goal
  BY <1>12 DEF TypeOK, SendReply, Goto, storeVars, HoldsSlot, HoldingUnchanged, LoopTop
<1>13. CASE ShutdownSignal
  BY <1>13 DEF ShutdownSignal, NoWorkerVars, storeVars, workerVars, HoldsSlot, HoldingUnchanged
<1>14. CASE DrainDeadline
  BY <1>14 DEF DrainDeadline, NoWorkerVars, storeVars, workerVars, HoldsSlot, HoldingUnchanged
<1>15. CASE SecondSignal
  BY <1>15 DEF SecondSignal, NoWorkerVars, storeVars, workerVars, HoldsSlot, HoldingUnchanged
<1>16. CASE DrainCopy
  BY <1>16 DEF DrainCopy, NoWorkerVars, storeVars, workerVars, HoldsSlot, HoldingUnchanged
<1>17. CASE DrainScan
  BY <1>17 DEF DrainScan, NoWorkerVars, storeVars, workerVars, HoldsSlot, HoldingUnchanged
<1>18. CASE DrainDecide
  BY <1>18 DEF DrainDecide, NoWorkerVars, storeVars, workerVars, HoldsSlot, HoldingUnchanged
<1>19. CASE Teardown
  BY <1>19 DEF Teardown, NoWorkerVars, storeVars, workerVars, HoldsSlot, HoldingUnchanged
<1>20. CASE Join
  BY <1>20 DEF Join, NoWorkerVars, storeVars, workerVars, HoldsSlot, HoldingUnchanged
<1>21. CASE UNCHANGED vars
  BY <1>21 DEF vars, HoldsSlot, HoldingUnchanged
<1> QED
  BY <1>1, <1>2, <1>3, <1>4, <1>5, <1>6, <1>7, <1>8, <1>9, <1>10, <1>11,
     <1>12, <1>13, <1>14, <1>15, <1>16, <1>17, <1>18, <1>19, <1>20,
     <1>21
     DEF Next, WorkerStep, DrainStep

-----------------------------------------------------------------------------
(***************************************************************************)
(* The free list and the slots in use.                                     *)
(***************************************************************************)
FreeDistinct == \A i, j \in 1 .. Len(freeList) : freeList[i] = freeList[j] => i = j

\* acquire's pop moves one id, which was not in use, from the list to its caller.
LEMMA PopMovesOne ==
    ASSUME StoreTypeOK, FreeAllocated, FreeDistinct, NEW id, PopFree(id)
    PROVE  /\ FreeAllocated' /\ FreeDistinct'
           /\ id \in SlotId /\ id \notin InUse /\ InUse' = InUse \cup {id}
<1>1. CASE freeList # << >>
  <2>1. /\ Len(freeList) \in Nat \ {0} /\ id = freeList[Len(freeList)] /\ id \in SlotId
        /\ allocated' = allocated /\ Len(freeList') = Len(freeList) - 1
        /\ \A i \in 1 .. Len(freeList') : freeList'[i] = freeList[i]
    BY <1>1, PopFreeNonEmpty
  <2>2. FreeAllocated' /\ FreeDistinct'
    BY <2>1 DEF FreeAllocated, FreeDistinct
  <2>3. id < allocated /\ id \in FreeSet
    BY <2>1 DEF FreeAllocated, FreeSet
  <2>4. FreeSet' = FreeSet \ {id}
    <3>1. \A i \in 1 .. Len(freeList') : freeList'[i] # id
      BY <2>1 DEF FreeDistinct
    <3>2. \A i \in 1 .. Len(freeList) : freeList[i] # id => i \in 1 .. Len(freeList')
      BY <2>1
    <3> QED  BY <2>1, <3>1, <3>2 DEF FreeSet
  <2> QED  BY <2>1, <2>2, <2>3, <2>4 DEF InUse
<1>2. CASE freeList = << >>
  <2>1. /\ GrowBy \in Nat \ {0} /\ id = allocated + GrowBy - 1 /\ id \in SlotId
        /\ allocated' = allocated + GrowBy /\ Len(freeList') = GrowBy - 1
        /\ \A i \in 1 .. Len(freeList') : freeList'[i] = allocated + i - 1
    BY <1>2, PopFreeEmpty
  <2>2. allocated \in Nat /\ allocated' \in 0 .. Capacity /\ Capacity \in Nat
    BY <1>2, PopFreeEmpty, TxnStoreAssumption DEF StoreTypeOK
  <2>3. FreeAllocated' /\ FreeDistinct'
    BY <2>1, <2>2 DEF FreeAllocated, FreeDistinct
  <2>4. FreeSet = {}
    BY <1>2 DEF FreeSet
  <2>5. FreeSet' = allocated .. allocated + GrowBy - 2
    <3>1. \A x \in allocated .. allocated + GrowBy - 2 :
            x - allocated + 1 \in 1 .. Len(freeList') /\ freeList'[x - allocated + 1] = x
      BY <2>1, <2>2
    <3>2. \A i \in 1 .. Len(freeList') : freeList'[i] \in allocated .. allocated + GrowBy - 2
      BY <2>1, <2>2
    <3> QED  BY <3>1, <3>2 DEF FreeSet
  <2>6. id \notin InUse /\ InUse' = InUse \cup {id}
    BY <2>1, <2>2, <2>4, <2>5 DEF InUse, SlotId
  <2> QED  BY <2>1, <2>3, <2>6
<1> QED
  BY <1>1, <1>2

\* return_to_free gives an id that was in use back to the list.
LEMMA PushMovesOne ==
    ASSUME StoreTypeOK, FreeAllocated, FreeDistinct, NEW id \in InUse, ReturnToFree(id)
    PROVE  /\ FreeAllocated' /\ FreeDistinct'
           /\ InUse' = InUse \ {id}
<1>1. id \in SlotId /\ id < allocated /\ id \notin FreeSet
  BY DEF InUse
<1>2. /\ Len(freeList) \in Nat /\ Len(freeList') = Len(freeList) + 1
      /\ freeList'[Len(freeList) + 1] = id /\ allocated' = allocated
      /\ \A i \in 1 .. Len(freeList) : freeList'[i] = freeList[i]
  BY <1>1, AppendToSeq DEF StoreTypeOK, ReturnToFree
<1>3. \A i \in 1 .. Len(freeList') : i = Len(freeList) + 1 \/ i \in 1 .. Len(freeList)
  BY <1>2
<1>4. FreeAllocated'
  BY <1>1, <1>2, <1>3 DEF FreeAllocated
<1>5. FreeDistinct'
  BY <1>1, <1>2, <1>3 DEF FreeDistinct, FreeSet
<1>6. FreeSet' = FreeSet \cup {id}
  <2>1. \A i \in 1 .. Len(freeList) : i \in 1 .. Len(freeList')
    BY <1>2
  <2>2. Len(freeList) + 1 \in 1 .. Len(freeList')
    BY <1>2
  <2> QED  BY <1>2, <1>3, <2>1, <2>2 DEF FreeSet
<1> QED
  BY <1>2, <1>4, <1>5, <1>6 DEF InUse

\* Every step keeps the free list and the workers a partition of the arena.
LEMMA PartitionStep ==
    ASSUME IInv, [Next]_vars
    PROVE  FreeAllocated' /\ SlotsPartitioned'
<1> USE DEF IInv
<1>1. FreeDistinct /\ StoreTypeOK
  BY DEF SlotsPartitioned, FreeDistinct, TypeOK
<1>2. CASE HoldingUnchanged
  BY <1>2 DEF HoldingUnchanged, FreeAllocated, SlotsPartitioned, InUse, FreeSet
<1>3. ASSUME NEW w \in Workers, Acquire(w) PROVE FreeAllocated' /\ SlotsPartitioned'
  <2>1. PICK id \in SlotId : PopFree(id) /\ slotOf' = [slotOf EXCEPT ![w] = id]
    BY <1>3, Zenon DEF Acquire
  <2>2. FreeAllocated' /\ FreeDistinct' /\ id \notin InUse /\ InUse' = InUse \cup {id}
    BY <1>1, <2>1, PopMovesOne
  <2>3. /\ ~HoldsSlot(w) /\ HoldsSlot(w)' /\ slotOf'[w] = id
        /\ \A v \in Workers \ {w} : HoldsSlot(v)' = HoldsSlot(v) /\ slotOf'[v] = slotOf[v]
    BY <1>3, <2>1 DEF Acquire, Goto, HoldsSlot, TypeOK
  <2> QED  BY <2>2, <2>3 DEF SlotsPartitioned, FreeDistinct
<1>4. ASSUME NEW w \in Workers, ReleaseReturn(w) PROVE FreeAllocated' /\ SlotsPartitioned'
  <2>1. HoldsSlot(w) /\ slotOf[w] \in InUse
    BY <1>4 DEF ReleaseReturn, HoldsSlot, SlotsPartitioned
  <2>2. FreeAllocated' /\ FreeDistinct' /\ InUse' = InUse \ {slotOf[w]}
    BY <1>1, <1>4, <2>1, PushMovesOne DEF ReleaseReturn
  <2>3. /\ ~HoldsSlot(w)'
        /\ \A v \in Workers \ {w} : HoldsSlot(v)' = HoldsSlot(v) /\ slotOf'[v] = slotOf[v]
    BY <1>4 DEF ReleaseReturn, Goto, HoldsSlot, TypeOK
  <2> QED  BY <2>1, <2>2, <2>3 DEF SlotsPartitioned, FreeDistinct
<1> QED
  BY <1>2, <1>3, <1>4, HoldingStep

-----------------------------------------------------------------------------
(***************************************************************************)
(* The states and the mutexes of the slots.                                *)
(***************************************************************************)
\* A slot has one holder.
LEMMA HolderFacts ==
    ASSUME IInv, NEW w \in Workers, HoldsSlot(w)
    PROVE  /\ slotOf[w] \in SlotId
           /\ \A v \in Workers \ {w} : HoldsSlot(v) => slotOf[v] # slotOf[w]
  BY DEF IInv, SlotsPartitioned, InUse

SlotStatesRight == UnheldIsFree /\ LockedByRunner /\ StateFollowsHolder

\* Every step leaves every slot in the state its holder relies on.
LEMMA StateStep ==
    ASSUME IInv, [Next]_vars
    PROVE  SlotStatesRight'
<1> USE DEF IInv, SlotStatesRight
<1>1. ASSUME NEW w \in Workers, NEW q \in Queries, Receive(w, q) PROVE SlotStatesRight'
  <2>1. UnheldIsFree'
    BY <1>1 DEF Receive, Goto, storeVars, UnheldIsFree, Publishing, TypeOK, LoopTop
  <2>2. LockedByRunner'
    BY <1>1, NoOneAssumption DEF Receive, Goto, storeVars, LockedByRunner, TypeOK, LoopTop
  <2>3. StateFollowsHolder'
    BY <1>1, NoOneAssumption DEF Receive, Goto, storeVars, StateFollowsHolder,
       LockedByRunner, TypeOK, LoopTop
  <2> QED  BY <2>1, <2>2, <2>3
<1>2. ASSUME NEW w \in Workers, ReceiveError(w) PROVE SlotStatesRight'
  <2>1. UnheldIsFree'
    BY <1>2 DEF ReceiveError, Goto, storeVars, UnheldIsFree, Publishing, TypeOK
  <2>2. LockedByRunner'
    BY <1>2, NoOneAssumption DEF ReceiveError, Goto, storeVars, LockedByRunner, TypeOK
  <2>3. StateFollowsHolder'
    BY <1>2, NoOneAssumption DEF ReceiveError, Goto, storeVars, StateFollowsHolder,
       LockedByRunner, TypeOK
  <2> QED  BY <2>1, <2>2, <2>3
<1>3. ASSUME NEW w \in Workers, ObserveShutdown(w) PROVE SlotStatesRight'
  <2>1. UnheldIsFree'
    BY <1>3 DEF ObserveShutdown, Goto, storeVars, UnheldIsFree, Publishing, TypeOK
  <2>2. LockedByRunner'
    BY <1>3, NoOneAssumption DEF ObserveShutdown, Goto, storeVars, LockedByRunner, TypeOK
  <2>3. StateFollowsHolder'
    BY <1>3, NoOneAssumption DEF ObserveShutdown, Goto, storeVars, StateFollowsHolder,
       LockedByRunner, TypeOK
  <2> QED  BY <2>1, <2>2, <2>3
<1>4. ASSUME NEW w \in Workers, Acquire(w) PROVE SlotStatesRight'
  <2>1. UnheldIsFree'
    BY <1>4 DEF Acquire, Goto, storeVars, UnheldIsFree, Publishing, TypeOK, PopFree
  <2>2. LockedByRunner'
    BY <1>4, NoOneAssumption DEF Acquire, Goto, storeVars, LockedByRunner, TypeOK, PopFree
  <2>3. StateFollowsHolder'
    BY <1>4, NoOneAssumption DEF Acquire, Goto, storeVars, StateFollowsHolder,
       LockedByRunner, TypeOK, PopFree
  <2> QED  BY <2>1, <2>2, <2>3
<1>5. ASSUME NEW w \in Workers, AcquireExhausted(w) PROVE SlotStatesRight'
  <2>1. UnheldIsFree'
    BY <1>5 DEF AcquireExhausted, Goto, storeVars, UnheldIsFree, Publishing, TypeOK, LoopTop
  <2>2. LockedByRunner'
    BY <1>5, NoOneAssumption DEF AcquireExhausted, Goto, storeVars, LockedByRunner, TypeOK,
       LoopTop
  <2>3. StateFollowsHolder'
    BY <1>5, NoOneAssumption DEF AcquireExhausted, Goto, storeVars, StateFollowsHolder,
       LockedByRunner, TypeOK, LoopTop
  <2> QED  BY <2>1, <2>2, <2>3
<1>6. ASSUME NEW w \in Workers, AcquirePublish(w) PROVE SlotStatesRight'
  <2>1. slotOf[w] \in SlotId /\ \A v \in Workers \ {w} : HoldsSlot(v) => slotOf[v] # slotOf[w]
    BY <1>6, HolderFacts DEF AcquirePublish, HoldsSlot
  <2>2. UnheldIsFree'
    BY <1>6, <2>1 DEF AcquirePublish, Goto, storeVars, UnheldIsFree, Publishing, HoldsSlot,
       TypeOK, StoreTypeOK, StateFollowsHolder, PublishIngress
  <2>3. LockedByRunner'
    BY <1>6, <2>1, NoOneAssumption DEF AcquirePublish, Goto, storeVars, LockedByRunner,
       TypeOK, StoreTypeOK, StateFollowsHolder, PublishIngress
  <2>4. StateFollowsHolder'
    BY <1>6, <2>1, NoOneAssumption DEF AcquirePublish, Goto, storeVars, LockedByRunner,
       HoldsSlot, TypeOK, StoreTypeOK, StateFollowsHolder, PublishIngress
  <2> QED  BY <2>2, <2>3, <2>4
<1>7. ASSUME NEW w \in Workers, EnterPolicy(w) PROVE SlotStatesRight'
  <2>1. slotOf[w] \in SlotId /\ \A v \in Workers \ {w} : HoldsSlot(v) => slotOf[v] # slotOf[w]
    BY <1>7, HolderFacts DEF EnterPolicy, HoldsSlot
  <2>2. /\ slotState' = [slotState EXCEPT ![slotOf[w]] = "Policy"]
        /\ pc[w] = "enter" /\ pc' = [pc EXCEPT ![w] = "run"] /\ UNCHANGED <<slotOf, lock>>
    BY <1>7 DEF EnterPolicy, Goto, SetState, StateFollowsHolder
  <2>3. UnheldIsFree'
    BY <2>1, <2>2 DEF UnheldIsFree, Publishing, TypeOK, StoreTypeOK
  <2>4. LockedByRunner'
    BY <2>2, NoOneAssumption DEF LockedByRunner, TypeOK
  <2>5. StateFollowsHolder'
    BY <2>1, <2>2 DEF StateFollowsHolder, HoldsSlot, TypeOK, StoreTypeOK
  <2> QED  BY <2>3, <2>4, <2>5
<1>8. ASSUME NEW w \in Workers, RunBegin(w) PROVE SlotStatesRight'
  <2>1. slotOf[w] \in SlotId /\ \A v \in Workers \ {w} : HoldsSlot(v) => slotOf[v] # slotOf[w]
    BY <1>8, HolderFacts DEF RunBegin, HoldsSlot
  <2>2. UnheldIsFree'
    BY <1>8, <2>1 DEF RunBegin, Goto, storeVars, UnheldIsFree, Publishing, HoldsSlot,
       TypeOK, StoreTypeOK, StateFollowsHolder
  <2>3. LockedByRunner'
    BY <1>8, <2>1, NoOneAssumption DEF RunBegin, Goto, storeVars, LockedByRunner, TypeOK,
       StoreTypeOK, StateFollowsHolder
  <2>4. StateFollowsHolder'
    BY <1>8, <2>1, NoOneAssumption DEF RunBegin, Goto, storeVars, LockedByRunner,
       HoldsSlot, TypeOK, StoreTypeOK, StateFollowsHolder
  <2> QED  BY <2>2, <2>3, <2>4
<1>9. ASSUME NEW w \in Workers, RunEnd(w) PROVE SlotStatesRight'
  <2>1. slotOf[w] \in SlotId /\ \A v \in Workers \ {w} : HoldsSlot(v) => slotOf[v] # slotOf[w]
    BY <1>9, HolderFacts DEF RunEnd, HoldsSlot, Goto
  <2>2. UnheldIsFree'
    BY <1>9, <2>1 DEF RunEnd, Goto, storeVars, UnheldIsFree, Publishing, HoldsSlot, TypeOK,
       StoreTypeOK, StateFollowsHolder
  <2>3. LockedByRunner'
    BY <1>9, <2>1, NoOneAssumption DEF RunEnd, Goto, storeVars, LockedByRunner, TypeOK,
       StoreTypeOK, StateFollowsHolder
  <2>4. StateFollowsHolder'
    BY <1>9, <2>1, NoOneAssumption DEF RunEnd, Goto, storeVars, LockedByRunner, HoldsSlot,
       TypeOK, StoreTypeOK, StateFollowsHolder
  <2> QED  BY <2>2, <2>3, <2>4
<1>10. ASSUME NEW w \in Workers, ReleaseClear(w) PROVE SlotStatesRight'
  <2>1. slotOf[w] \in SlotId /\ \A v \in Workers \ {w} : HoldsSlot(v) => slotOf[v] # slotOf[w]
    BY <1>10, HolderFacts DEF ReleaseClear, HoldsSlot
  <2>2. UnheldIsFree'
    BY <1>10, <2>1 DEF ReleaseClear, Goto, storeVars, UnheldIsFree, Publishing, HoldsSlot,
       TypeOK, StoreTypeOK, StateFollowsHolder, ClearSlot, ShouldReturn
  <2>3. LockedByRunner'
    BY <1>10, <2>1, NoOneAssumption DEF ReleaseClear, Goto, storeVars, LockedByRunner,
       TypeOK, StoreTypeOK, StateFollowsHolder, ClearSlot, ShouldReturn
  <2>4. StateFollowsHolder'
    BY <1>10, <2>1, NoOneAssumption DEF ReleaseClear, Goto, storeVars, LockedByRunner,
       HoldsSlot, TypeOK, StoreTypeOK, StateFollowsHolder, ClearSlot, ShouldReturn
  <2> QED  BY <2>2, <2>3, <2>4
<1>11. ASSUME NEW w \in Workers, ReleaseReturn(w) PROVE SlotStatesRight'
  <2>1. slotOf[w] \in SlotId /\ \A v \in Workers \ {w} : HoldsSlot(v) => slotOf[v] # slotOf[w]
    BY <1>11, HolderFacts DEF ReleaseReturn, HoldsSlot
  <2>2. UnheldIsFree'
    BY <1>11, <2>1 DEF ReleaseReturn, Goto, storeVars, UnheldIsFree, Publishing, HoldsSlot,
       TypeOK, StoreTypeOK, StateFollowsHolder, ReturnToFree
  <2>3. LockedByRunner'
    BY <1>11, <2>1, NoOneAssumption DEF ReleaseReturn, Goto, storeVars, LockedByRunner,
       TypeOK, StoreTypeOK, StateFollowsHolder, ReturnToFree
  <2>4. StateFollowsHolder'
    BY <1>11, <2>1, NoOneAssumption DEF ReleaseReturn, Goto, storeVars, LockedByRunner,
       HoldsSlot, TypeOK, StoreTypeOK, StateFollowsHolder, ReturnToFree
  <2> QED  BY <2>2, <2>3, <2>4
<1>12. ASSUME NEW w \in Workers, SendReply(w) PROVE SlotStatesRight'
  <2>1. UnheldIsFree'
    BY <1>12 DEF SendReply, Goto, storeVars, UnheldIsFree, Publishing, TypeOK, LoopTop
  <2>2. LockedByRunner'
    BY <1>12, NoOneAssumption DEF SendReply, Goto, storeVars, LockedByRunner, TypeOK, LoopTop
  <2>3. StateFollowsHolder'
    BY <1>12, NoOneAssumption DEF SendReply, Goto, storeVars, StateFollowsHolder,
       LockedByRunner, TypeOK, LoopTop
  <2> QED  BY <2>1, <2>2, <2>3
<1>13. CASE ShutdownSignal
  BY <1>13 DEF ShutdownSignal, NoWorkerVars, storeVars, workerVars, UnheldIsFree,
     LockedByRunner, StateFollowsHolder, Publishing
<1>14. CASE DrainDeadline
  BY <1>14 DEF DrainDeadline, NoWorkerVars, storeVars, workerVars, UnheldIsFree,
     LockedByRunner, StateFollowsHolder, Publishing
<1>15. CASE SecondSignal
  BY <1>15 DEF SecondSignal, NoWorkerVars, storeVars, workerVars, UnheldIsFree,
     LockedByRunner, StateFollowsHolder, Publishing
<1>16. CASE DrainCopy
  BY <1>16 DEF DrainCopy, NoWorkerVars, storeVars, workerVars, UnheldIsFree,
     LockedByRunner, StateFollowsHolder, Publishing
<1>17. CASE DrainScan
  BY <1>17 DEF DrainScan, NoWorkerVars, storeVars, workerVars, UnheldIsFree,
     LockedByRunner, StateFollowsHolder, Publishing
<1>18. CASE DrainDecide
  BY <1>18 DEF DrainDecide, NoWorkerVars, storeVars, workerVars, UnheldIsFree,
     LockedByRunner, StateFollowsHolder, Publishing
<1>19. CASE Teardown
  BY <1>19 DEF Teardown, NoWorkerVars, storeVars, workerVars, UnheldIsFree, LockedByRunner,
     StateFollowsHolder, Publishing
<1>20. CASE Join
  BY <1>20 DEF Join, NoWorkerVars, storeVars, workerVars, UnheldIsFree, LockedByRunner,
     StateFollowsHolder, Publishing
<1>21. CASE UNCHANGED vars
  <2>1. UnheldIsFree'
    BY <1>21 DEF vars, UnheldIsFree, Publishing
  <2>2. LockedByRunner'
    BY <1>21 DEF vars, LockedByRunner
  <2>3. StateFollowsHolder'
    BY <1>21 DEF vars, StateFollowsHolder
  <2> QED  BY <2>1, <2>2, <2>3
<1> QED
  BY <1>1, <1>2, <1>3, <1>4, <1>5, <1>6, <1>7, <1>8, <1>9, <1>10, <1>11,
     <1>12, <1>13, <1>14, <1>15, <1>16, <1>17, <1>18, <1>19, <1>20,
     <1>21
     DEF Next, WorkerStep, DrainStep

-----------------------------------------------------------------------------
(***************************************************************************)
(* The drain.                                                              *)
(***************************************************************************)
DrainRight == DrainKnows /\ DrainedWaitedForActive

\* Every step preserves what the scan knows of the active slots.
LEMMA DrainRightStep ==
    ASSUME IInv, [Next]_vars
    PROVE  DrainRight'
<1> USE DEF IInv, DrainRight
<1>1. ASSUME NEW w \in Workers, NEW q \in Queries, Receive(w, q) PROVE DrainRight'
  <2>1. drain' = drain /\ \A s \in SlotId : slotState[s] # "Free" => slotState'[s] # "Free"
    BY <1>1 DEF Receive, storeVars, TypeOK, StoreTypeOK
  <2> QED  BY <2>1 DEF DrainKnows, DrainedWaitedForActive, TypeOK, DrainState
<1>2. ASSUME NEW w \in Workers, ReceiveError(w) PROVE DrainRight'
  <2>1. drain' = drain /\ \A s \in SlotId : slotState[s] # "Free" => slotState'[s] # "Free"
    BY <1>2 DEF ReceiveError, storeVars, TypeOK, StoreTypeOK
  <2> QED  BY <2>1 DEF DrainKnows, DrainedWaitedForActive, TypeOK, DrainState
<1>3. ASSUME NEW w \in Workers, ObserveShutdown(w) PROVE DrainRight'
  <2>1. drain' = drain /\ \A s \in SlotId : slotState[s] # "Free" => slotState'[s] # "Free"
    BY <1>3 DEF ObserveShutdown, storeVars, TypeOK, StoreTypeOK
  <2> QED  BY <2>1 DEF DrainKnows, DrainedWaitedForActive, TypeOK, DrainState
<1>4. ASSUME NEW w \in Workers, Acquire(w) PROVE DrainRight'
  <2>1. drain' = drain /\ \A s \in SlotId : slotState[s] # "Free" => slotState'[s] # "Free"
    BY <1>4 DEF Acquire, storeVars, TypeOK, StoreTypeOK, PopFree
  <2> QED  BY <2>1 DEF DrainKnows, DrainedWaitedForActive, TypeOK, DrainState
<1>5. ASSUME NEW w \in Workers, AcquireExhausted(w) PROVE DrainRight'
  <2>1. drain' = drain /\ \A s \in SlotId : slotState[s] # "Free" => slotState'[s] # "Free"
    BY <1>5 DEF AcquireExhausted, storeVars, TypeOK, StoreTypeOK
  <2> QED  BY <2>1 DEF DrainKnows, DrainedWaitedForActive, TypeOK, DrainState
<1>6. ASSUME NEW w \in Workers, AcquirePublish(w) PROVE DrainRight'
  <2>1. drain' = drain /\ \A s \in SlotId : slotState[s] # "Free" => slotState'[s] # "Free"
    BY <1>6 DEF AcquirePublish, storeVars, TypeOK, StoreTypeOK, PublishIngress
  <2> QED  BY <2>1 DEF DrainKnows, DrainedWaitedForActive, TypeOK, DrainState
<1>7. ASSUME NEW w \in Workers, EnterPolicy(w) PROVE DrainRight'
  <2>1. drain' = drain /\ \A s \in SlotId : slotState[s] # "Free" => slotState'[s] # "Free"
    BY <1>7 DEF EnterPolicy, storeVars, TypeOK, StoreTypeOK, SetState
  <2> QED  BY <2>1 DEF DrainKnows, DrainedWaitedForActive, TypeOK, DrainState
<1>8. ASSUME NEW w \in Workers, RunBegin(w) PROVE DrainRight'
  <2>1. drain' = drain /\ \A s \in SlotId : slotState[s] # "Free" => slotState'[s] # "Free"
    BY <1>8 DEF RunBegin, storeVars, TypeOK, StoreTypeOK
  <2> QED  BY <2>1 DEF DrainKnows, DrainedWaitedForActive, TypeOK, DrainState
<1>9. ASSUME NEW w \in Workers, RunEnd(w) PROVE DrainRight'
  <2>1. drain' = drain /\ \A s \in SlotId : slotState[s] # "Free" => slotState'[s] # "Free"
    BY <1>9 DEF RunEnd, storeVars, TypeOK, StoreTypeOK
  <2> QED  BY <2>1 DEF DrainKnows, DrainedWaitedForActive, TypeOK, DrainState
<1>10. ASSUME NEW w \in Workers, ReleaseClear(w) PROVE DrainRight'
  <2>1. /\ drain' = [drain EXCEPT !.active = drain.active \ {slotOf[w]}]
        /\ slotState' = [slotState EXCEPT ![slotOf[w]] = "Free"]
    BY <1>10 DEF ReleaseClear, ClearSlot
  <2>2. \A s \in drain'.active : s \in drain.active /\ slotState'[s] # "Free"
    BY <2>1 DEF DrainKnows, TypeOK, StoreTypeOK, DrainState
  <2> QED  BY <2>1, <2>2 DEF DrainKnows, DrainedWaitedForActive, TypeOK, DrainState
<1>11. ASSUME NEW w \in Workers, ReleaseReturn(w) PROVE DrainRight'
  <2>1. drain' = drain /\ \A s \in SlotId : slotState[s] # "Free" => slotState'[s] # "Free"
    BY <1>11 DEF ReleaseReturn, storeVars, TypeOK, StoreTypeOK, ReturnToFree
  <2> QED  BY <2>1 DEF DrainKnows, DrainedWaitedForActive, TypeOK, DrainState
<1>12. ASSUME NEW w \in Workers, SendReply(w) PROVE DrainRight'
  <2>1. drain' = drain /\ \A s \in SlotId : slotState[s] # "Free" => slotState'[s] # "Free"
    BY <1>12 DEF SendReply, storeVars, TypeOK, StoreTypeOK
  <2> QED  BY <2>1 DEF DrainKnows, DrainedWaitedForActive, TypeOK, DrainState
<1>13. CASE ShutdownSignal
  <2>1. drain.at = "off" /\ drain.result = "none" /\ slotState' = slotState
    BY <1>13 DEF ShutdownSignal, NoWorkerVars, storeVars, DrainKnows
  <2>2. CASE drain' = [drain EXCEPT !.at = "copy",
                                    !.active = {s \in SlotId : slotState[s] # "Free"}]
    BY <2>1, <2>2 DEF DrainKnows, DrainedWaitedForActive, TypeOK, DrainState
  <2>3. CASE drain' = [drain EXCEPT !.at = "teardown", !.result = "skipped"]
    BY <2>1, <2>3 DEF DrainKnows, DrainedWaitedForActive, TypeOK, DrainState
  <2> QED  BY <1>13, <2>2, <2>3 DEF ShutdownSignal
<1>14. CASE DrainDeadline
  BY <1>14 DEF DrainDeadline, NoWorkerVars, storeVars, workerVars, DrainKnows,
     DrainedWaitedForActive, TypeOK, DrainState
<1>15. CASE SecondSignal
  BY <1>15 DEF SecondSignal, NoWorkerVars, storeVars, workerVars, DrainKnows,
     DrainedWaitedForActive, TypeOK, DrainState
<1>16. CASE DrainCopy
  <2>1. \A s \in drain.active : s < allocated
    BY DEF DrainKnows, UnheldIsFree, Publishing, SlotsPartitioned, HoldsSlot, InUse,
       TypeOK, DrainState
  <2>2. /\ drain.at = "copy" /\ slotState' = slotState
        /\ drain' = [drain EXCEPT !.at = "scan", !.limit = allocated, !.next = 0, !.remaining = 0]
    BY <1>16 DEF DrainCopy, NoWorkerVars, storeVars
  <2>3. \A s \in drain.active : s >= 0
    BY DEF TypeOK, DrainState, SlotId
  <2>4. allocated >= 0
    BY TxnStoreAssumption DEF TypeOK, StoreTypeOK
  <2> QED  BY <2>1, <2>2, <2>3, <2>4 DEF DrainKnows, DrainedWaitedForActive, TypeOK, DrainState
<1>17. CASE DrainScan
  <2>1. drain.at = "scan" /\ slotState' = slotState /\ drain.active \subseteq SlotId
    BY <1>17 DEF DrainScan, NoWorkerVars, storeVars, TypeOK, DrainState
  <2>2. drain.next \in Nat /\ drain.limit \in Nat /\ drain.remaining \in Nat /\ SlotId \subseteq Int
    BY TxnStoreAssumption DEF TypeOK, DrainState, SlotId
  <2>3. CASE drain.next < drain.limit /\ slotState[drain.next] # "Free"
    <3>1. drain' = [drain EXCEPT !.next = drain.next + 1, !.remaining = drain.remaining + 1]
      BY <1>17, <2>3 DEF DrainScan
    <3> QED  BY <2>1, <2>2, <2>3, <3>1 DEF DrainKnows, DrainedWaitedForActive, TypeOK,
       DrainState
  <2>4. CASE drain.next < drain.limit /\ slotState[drain.next] = "Free"
    <3>1. drain' = [drain EXCEPT !.next = drain.next + 1, !.remaining = drain.remaining]
      BY <1>17, <2>4 DEF DrainScan
    <3>2. drain.next \notin drain.active
      BY <2>4 DEF DrainKnows
    <3> QED  BY <2>1, <2>2, <2>4, <3>1, <3>2 DEF DrainKnows, DrainedWaitedForActive,
       TypeOK, DrainState
  <2>5. CASE ~(drain.next < drain.limit)
    <3>1. drain' = [drain EXCEPT !.at = "decide"]
      BY <1>17, <2>5 DEF DrainScan
    <3>2. ASSUME drain.remaining = 0, NEW s \in drain.active PROVE FALSE
      <4>1. s \in Int /\ s < drain.limit /\ s >= drain.next
        BY <2>1, <2>2, <3>2, Zenon DEF DrainKnows
      <4> QED  BY <2>2, <2>5, <4>1
    <3> QED  BY <2>1, <3>1, <3>2 DEF DrainKnows, DrainedWaitedForActive, TypeOK, DrainState
  <2> QED  BY <2>3, <2>4, <2>5
<1>18. CASE DrainDecide
  <2>1. drain.at = "decide" /\ slotState' = slotState
    BY <1>18 DEF DrainDecide, NoWorkerVars, storeVars
  <2>2. CASE drain.remaining = 0
    <3>1. drain' = [drain EXCEPT !.at = "teardown", !.result = "Drained"]
      BY <1>18, <2>2 DEF DrainDecide
    <3> QED  BY <2>1, <2>2, <3>1 DEF DrainKnows, DrainedWaitedForActive, TypeOK, DrainState
  <2>3. CASE drain.remaining # 0
    <3>1. \/ \E r \in {"Aborted", "TimedOut"} :
               drain' = [drain EXCEPT !.at = "teardown", !.result = r]
          \/ drain' = [drain EXCEPT !.at = "copy"]
      BY <1>18, <2>3, Zenon DEF DrainDecide
    <3> QED  BY <2>1, <3>1, Zenon DEF DrainKnows, DrainedWaitedForActive, TypeOK, DrainState
  <2> QED  BY <2>2, <2>3
<1>19. CASE Teardown
  BY <1>19 DEF Teardown, NoWorkerVars, storeVars, workerVars, DrainKnows,
     DrainedWaitedForActive, TypeOK, DrainState
<1>20. CASE Join
  BY <1>20 DEF Join, NoWorkerVars, storeVars, workerVars, DrainKnows,
     DrainedWaitedForActive, TypeOK, DrainState
<1>21. CASE UNCHANGED vars
  BY <1>21 DEF vars, DrainKnows, DrainedWaitedForActive
<1> QED
  BY <1>1, <1>2, <1>3, <1>4, <1>5, <1>6, <1>7, <1>8, <1>9, <1>10, <1>11,
     <1>12, <1>13, <1>14, <1>15, <1>16, <1>17, <1>18, <1>19, <1>20,
     <1>21
     DEF Next, WorkerStep, DrainStep

-----------------------------------------------------------------------------
(***************************************************************************)
(* The queries.                                                            *)
(***************************************************************************)
QueriesRight == OpenIsServed /\ DoneIsJoined

\* Every step keeps an open query in the hands of a live worker.
LEMMA QueriesStep ==
    ASSUME IInv, [Next]_vars
    PROVE  QueriesRight'
<1> USE DEF IInv, QueriesRight
<1>1. ASSUME NEW w \in Workers, NEW q \in Queries, Receive(w, q) PROVE QueriesRight'
  <2>1. OpenIsServed'
    BY <1>1 DEF Receive, Goto, OpenIsServed, TypeOK, LoopTop
  <2>2. DoneIsJoined'
    BY <1>1 DEF Receive, Goto, DoneIsJoined, TypeOK, LoopTop
  <2> QED  BY <2>1, <2>2
<1>2. ASSUME NEW w \in Workers, ReceiveError(w) PROVE QueriesRight'
  <2>1. OpenIsServed'
    BY <1>2 DEF ReceiveError, Goto, OpenIsServed, TypeOK
  <2>2. DoneIsJoined'
    BY <1>2 DEF ReceiveError, Goto, DoneIsJoined, TypeOK
  <2> QED  BY <2>1, <2>2
<1>3. ASSUME NEW w \in Workers, ObserveShutdown(w) PROVE QueriesRight'
  <2>1. OpenIsServed'
    BY <1>3 DEF ObserveShutdown, Goto, OpenIsServed, TypeOK
  <2>2. DoneIsJoined'
    BY <1>3 DEF ObserveShutdown, Goto, DoneIsJoined, TypeOK
  <2> QED  BY <2>1, <2>2
<1>4. ASSUME NEW w \in Workers, Acquire(w) PROVE QueriesRight'
  <2>1. OpenIsServed'
    BY <1>4 DEF Acquire, Goto, OpenIsServed, TypeOK
  <2>2. DoneIsJoined'
    BY <1>4 DEF Acquire, Goto, DoneIsJoined, TypeOK
  <2> QED  BY <2>1, <2>2
<1>5. ASSUME NEW w \in Workers, AcquireExhausted(w) PROVE QueriesRight'
  <2>1. OpenIsServed'
    BY <1>5 DEF AcquireExhausted, Goto, OpenIsServed, TypeOK, LoopTop
  <2>2. DoneIsJoined'
    BY <1>5 DEF AcquireExhausted, Goto, DoneIsJoined, TypeOK, LoopTop
  <2> QED  BY <2>1, <2>2
<1>6. ASSUME NEW w \in Workers, AcquirePublish(w) PROVE QueriesRight'
  <2>1. OpenIsServed'
    BY <1>6 DEF AcquirePublish, Goto, OpenIsServed, TypeOK
  <2>2. DoneIsJoined'
    BY <1>6 DEF AcquirePublish, Goto, DoneIsJoined, TypeOK
  <2> QED  BY <2>1, <2>2
<1>7. ASSUME NEW w \in Workers, EnterPolicy(w) PROVE QueriesRight'
  <2>1. OpenIsServed'
    BY <1>7 DEF EnterPolicy, Goto, OpenIsServed, TypeOK
  <2>2. DoneIsJoined'
    BY <1>7 DEF EnterPolicy, Goto, DoneIsJoined, TypeOK
  <2> QED  BY <2>1, <2>2
<1>8. ASSUME NEW w \in Workers, RunBegin(w) PROVE QueriesRight'
  <2>1. OpenIsServed'
    BY <1>8 DEF RunBegin, Goto, OpenIsServed, TypeOK
  <2>2. DoneIsJoined'
    BY <1>8 DEF RunBegin, Goto, DoneIsJoined, TypeOK
  <2> QED  BY <2>1, <2>2
<1>9. ASSUME NEW w \in Workers, RunEnd(w) PROVE QueriesRight'
  <2>1. OpenIsServed'
    BY <1>9 DEF RunEnd, Goto, OpenIsServed, TypeOK
  <2>2. DoneIsJoined'
    BY <1>9 DEF RunEnd, Goto, DoneIsJoined, TypeOK
  <2> QED  BY <2>1, <2>2
<1>10. ASSUME NEW w \in Workers, ReleaseClear(w) PROVE QueriesRight'
  <2>1. OpenIsServed'
    BY <1>10 DEF ReleaseClear, Goto, OpenIsServed, TypeOK, DrainState
  <2>2. DoneIsJoined'
    BY <1>10 DEF ReleaseClear, Goto, DoneIsJoined, TypeOK, DrainState
  <2> QED  BY <2>1, <2>2
<1>11. ASSUME NEW w \in Workers, ReleaseReturn(w) PROVE QueriesRight'
  <2>1. OpenIsServed'
    BY <1>11 DEF ReleaseReturn, Goto, OpenIsServed, TypeOK
  <2>2. DoneIsJoined'
    BY <1>11 DEF ReleaseReturn, Goto, DoneIsJoined, TypeOK
  <2> QED  BY <2>1, <2>2
<1>12. ASSUME NEW w \in Workers, SendReply(w) PROVE QueriesRight'
  <2>1. OpenIsServed'
    BY <1>12 DEF SendReply, Goto, OpenIsServed, TypeOK, LoopTop
  <2>2. DoneIsJoined'
    BY <1>12 DEF SendReply, Goto, DoneIsJoined, TypeOK, LoopTop
  <2> QED  BY <2>1, <2>2
<1>13. CASE ShutdownSignal
  BY <1>13, Zenon DEF ShutdownSignal, NoWorkerVars, workerVars, OpenIsServed, DoneIsJoined,
     TypeOK, DrainState
<1>14. CASE DrainDeadline
  BY <1>14 DEF DrainDeadline, NoWorkerVars, workerVars, OpenIsServed, DoneIsJoined, TypeOK,
     DrainState
<1>15. CASE SecondSignal
  BY <1>15 DEF SecondSignal, NoWorkerVars, workerVars, OpenIsServed, DoneIsJoined, TypeOK,
     DrainState
<1>16. CASE DrainCopy
  BY <1>16 DEF DrainCopy, NoWorkerVars, workerVars, OpenIsServed, DoneIsJoined, TypeOK,
     DrainState
<1>17. CASE DrainScan
  <2>1. OpenIsServed'
    BY <1>17 DEF DrainScan, NoWorkerVars, workerVars, OpenIsServed
  <2>2. drain'.at \in {"scan", "decide"}
    BY <1>17, Zenon DEF DrainScan, TypeOK, DrainState
  <2> QED  BY <2>1, <2>2 DEF DoneIsJoined
<1>18. CASE DrainDecide
  BY <1>18 DEF DrainDecide, NoWorkerVars, workerVars, OpenIsServed, DoneIsJoined, TypeOK,
     DrainState
<1>19. CASE Teardown
  BY <1>19 DEF Teardown, NoWorkerVars, workerVars, OpenIsServed, DoneIsJoined, TypeOK,
     DrainState
<1>20. CASE Join
  BY <1>20 DEF Join, NoWorkerVars, workerVars, OpenIsServed, DoneIsJoined, TypeOK, DrainState
<1>21. CASE UNCHANGED vars
  BY <1>21 DEF vars, OpenIsServed, DoneIsJoined
<1> QED
  BY <1>1, <1>2, <1>3, <1>4, <1>5, <1>6, <1>7, <1>8, <1>9, <1>10, <1>11,
     <1>12, <1>13, <1>14, <1>15, <1>16, <1>17, <1>18, <1>19, <1>20,
     <1>21
     DEF Next, WorkerStep, DrainStep
-----------------------------------------------------------------------------
(***************************************************************************)
(* The invariant and what follows from it.                                 *)
(***************************************************************************)
\* The state `start' builds satisfies the invariant.
LEMMA InitEstablishesIInv == Init => IInv
<1> SUFFICES ASSUME Init PROVE IInv
  OBVIOUS
<1> USE DEF Init, StoreInit
<1>1. TypeOK
  <2>1. StoreTypeOK
    BY TxnStoreAssumption DEF StoreTypeOK, SlotState
  <2>2. drain \in DrainState
    BY TxnStoreAssumption DEF DrainState
  <2> QED  BY <2>1, <2>2, Zenon DEF TypeOK, Wire, Outcome
<1>2. FreeAllocated /\ SlotsPartitioned
  BY TxnStoreAssumption DEF FreeAllocated, SlotsPartitioned, InUse, FreeSet, HoldsSlot, SlotId
<1>3. UnheldIsFree /\ LockedByRunner /\ StateFollowsHolder
  BY NoOneAssumption DEF UnheldIsFree, LockedByRunner, StateFollowsHolder
<1>4. DrainKnows /\ DrainedWaitedForActive
  BY DEF DrainKnows, DrainedWaitedForActive
<1>5. OpenIsServed /\ DoneIsJoined
  BY DEF OpenIsServed, DoneIsJoined
<1> QED  BY <1>1, <1>2, <1>3, <1>4, <1>5 DEF IInv

\* Every step of a worker or of the main task preserves the invariant.
LEMMA StepPreservesIInv == IInv /\ [Next]_vars => IInv'
  BY TypeStep, PartitionStep, StateStep, DrainRightStep, QueriesStep
     DEF IInv, SlotStatesRight, DrainRight, QueriesRight

\* IInv holds in every reachable state.
THEOREM Inductive == Spec => []IInv
  BY InitEstablishesIInv, StepPreservesIInv, PTL DEF Spec

(***************************************************************************)
(* Type correctness: in particular the scan of drain_slots never leaves    *)
(* the arena and never counts more slots than the arena has.               *)
(***************************************************************************)
THEOREM TypeCorrect == Spec => []TypeOK
<1>1. IInv => TypeOK
  BY DEF IInv
<1> QED  BY <1>1, Inductive, PTL

(***************************************************************************)
(* acquire and release_active of SharedTxnStore neither lose a slot, nor   *)
(* hand one to two workers, nor put one on the free list twice.            *)
(***************************************************************************)
THEOREM SlotsAreNeverSharedOrLost == Spec => []SlotsPartitioned
<1>1. IInv => SlotsPartitioned
  BY DEF IInv
<1> QED  BY <1>1, Inductive, PTL

(***************************************************************************)
(* run_in_slot finds its slot in the state it left it in, so its error     *)
(* paths are dead code in the sync runtime.                                *)
(***************************************************************************)
THEOREM SlotStateIsTheHolders == Spec => []StateFollowsHolder
<1>1. IInv => StateFollowsHolder
  BY DEF IInv
<1> QED  BY <1>1, Inductive, PTL

(***************************************************************************)
(* DrainOutcome::Drained is never reported before every slot that was      *)
(* active at the signal has been cleared.                                  *)
(***************************************************************************)
THEOREM DrainedIsTruthful == Spec => []DrainedWaitedForActive
<1>1. IInv => DrainedWaitedForActive
  BY DEF IInv
<1> QED  BY <1>1, Inductive, PTL

(***************************************************************************)
(* DataplaneHandle::shutdown returns only when every query a worker took   *)
(* has its outcome, drained, timed out, aborted or skipped alike.          *)
(***************************************************************************)
THEOREM ShutdownAbandonsNothing == Spec => []JoinedAbandonsNothing
<1>1. IInv => JoinedAbandonsNothing
  BY DEF IInv, OpenIsServed, DoneIsJoined, JoinedAbandonsNothing
<1> QED  BY <1>1, Inductive, PTL
-----------------------------------------------------------------------------
(***************************************************************************)
(* The refinement of SlotPool.                                             *)
(***************************************************************************)
Waiting == {w \in Workers : pc[w] = "acquire"}
Held == [w \in Workers |-> IF HoldsSlot(w) THEN slotOf[w] ELSE NoOne]

\* Receiving a query asks for a slot; only acquire ends the wait.
LEMMA WaitingStep ==
    ASSUME IInv, [Next]_vars
    PROVE  \/ Waiting' = Waiting
           \/ \E w \in Workers : \/ Acquire(w) \/ AcquireExhausted(w)
                                 \/ pc[w] = "recv" /\ Waiting' = Waiting \cup {w}
<1> USE DEF IInv
<1> DEFINE Goal == \/ Waiting' = Waiting
                   \/ \E w \in Workers : \/ Acquire(w) \/ AcquireExhausted(w)
                                         \/ pc[w] = "recv" /\ Waiting' = Waiting \cup {w}
<1>1. ASSUME NEW w \in Workers, NEW q \in Queries, Receive(w, q) PROVE Goal
  <2>1. pc[w] = "recv" /\ (pc' = [pc EXCEPT ![w] = "acquire"] \/ pc' = [pc EXCEPT ![w] = LoopTop])
    BY <1>1 DEF Receive, Goto
  <2>2. CASE pc' = [pc EXCEPT ![w] = "acquire"]
    BY <2>1, <2>2 DEF TypeOK, Waiting
  <2>3. CASE pc' = [pc EXCEPT ![w] = LoopTop]
    BY <2>1, <2>3 DEF TypeOK, Waiting, LoopTop
  <2> QED  BY <2>1, <2>2, <2>3
<1>2. ASSUME NEW w \in Workers, ReceiveError(w) PROVE Goal
  BY <1>2 DEF ReceiveError, Goto, TypeOK, Waiting
<1>3. ASSUME NEW w \in Workers, ObserveShutdown(w) PROVE Goal
  BY <1>3 DEF ObserveShutdown, Goto, TypeOK, Waiting
<1>4. ASSUME NEW w \in Workers, Acquire(w) PROVE Goal
  BY <1>4
<1>5. ASSUME NEW w \in Workers, AcquireExhausted(w) PROVE Goal
  BY <1>5
<1>6. ASSUME NEW w \in Workers, AcquirePublish(w) PROVE Goal
  BY <1>6 DEF AcquirePublish, Goto, TypeOK, Waiting
<1>7. ASSUME NEW w \in Workers, EnterPolicy(w) PROVE Goal
  BY <1>7 DEF EnterPolicy, Goto, TypeOK, Waiting
<1>8. ASSUME NEW w \in Workers, RunBegin(w) PROVE Goal
  BY <1>8 DEF RunBegin, Goto, TypeOK, Waiting
<1>9. ASSUME NEW w \in Workers, RunEnd(w) PROVE Goal
  BY <1>9 DEF RunEnd, Goto, TypeOK, Waiting
<1>10. ASSUME NEW w \in Workers, ReleaseClear(w) PROVE Goal
  BY <1>10 DEF ReleaseClear, Goto, TypeOK, Waiting
<1>11. ASSUME NEW w \in Workers, ReleaseReturn(w) PROVE Goal
  BY <1>11 DEF ReleaseReturn, Goto, TypeOK, Waiting
<1>12. ASSUME NEW w \in Workers, SendReply(w) PROVE Goal
  BY <1>12 DEF SendReply, Goto, TypeOK, Waiting, LoopTop
<1>13. CASE ShutdownSignal
  BY <1>13 DEF ShutdownSignal, NoWorkerVars, workerVars, Waiting
<1>14. CASE DrainDeadline
  BY <1>14 DEF DrainDeadline, NoWorkerVars, workerVars, Waiting
<1>15. CASE SecondSignal
  BY <1>15 DEF SecondSignal, NoWorkerVars, workerVars, Waiting
<1>16. CASE DrainCopy
  BY <1>16 DEF DrainCopy, NoWorkerVars, workerVars, Waiting
<1>17. CASE DrainScan
  BY <1>17 DEF DrainScan, NoWorkerVars, workerVars, Waiting
<1>18. CASE DrainDecide
  BY <1>18 DEF DrainDecide, NoWorkerVars, workerVars, Waiting
<1>19. CASE Teardown
  BY <1>19 DEF Teardown, NoWorkerVars, workerVars, Waiting
<1>20. CASE Join
  BY <1>20 DEF Join, NoWorkerVars, workerVars, Waiting
<1>21. CASE UNCHANGED vars
  BY <1>21 DEF vars, Waiting
<1> QED
  BY <1>1, <1>2, <1>3, <1>4, <1>5, <1>6, <1>7, <1>8, <1>9, <1>10, <1>11,
     <1>12, <1>13, <1>14, <1>15, <1>16, <1>17, <1>18, <1>19, <1>20,
     <1>21
     DEF Next, WorkerStep, DrainStep

\* A step of the runtime is a step of the pool or leaves the pool alone.
LEMMA PoolStep ==
    ASSUME IInv, [Next]_vars
    PROVE  [Pool!Next]_<<Waiting, Held>>
<1> USE DEF IInv
<1>1. ASSUME NEW w \in Workers, Acquire(w) PROVE \E s \in SlotId : Pool!Grant(w, s)
  <2>1. PICK id \in SlotId : PopFree(id) /\ slotOf' = [slotOf EXCEPT ![w] = id]
    BY <1>1, Zenon DEF Acquire
  <2>2. id \notin InUse
    BY <2>1, PopMovesOne DEF SlotsPartitioned, FreeDistinct, TypeOK
  <2>3. \A d \in Workers : Held[d] # id
    BY <2>2, NoOneAssumption DEF SlotsPartitioned, Held
  <2>4. w \in Waiting /\ Waiting' = Waiting \ {w}
    BY <1>1 DEF Acquire, Goto, Waiting, TypeOK
  <2>5. Held' = [Held EXCEPT ![w] = id]
    BY <1>1, <2>1, Zenon DEF Acquire, Goto, Held, HoldsSlot, TypeOK
  <2> QED  BY <2>3, <2>4, <2>5, Zenon DEF Pool!Grant, Waiting, Held
<1>2. ASSUME NEW w \in Workers, AcquireExhausted(w) PROVE Pool!Refuse(w)
  <2>1. \A s \in SlotId : s \in InUse
    BY <1>2, TxnStoreAssumption
       DEF AcquireExhausted, Exhausted, InUse, FreeSet, SlotId, TypeOK, StoreTypeOK
  <2>2. \A s \in SlotId : \E d \in Workers : Held[d] = s
    BY <2>1 DEF SlotsPartitioned, Held
  <2>3. w \in Waiting /\ Waiting' = Waiting \ {w}
    BY <1>2 DEF AcquireExhausted, Goto, LoopTop, Waiting, TypeOK
  <2>4. Held' = Held
    BY <1>2 DEF AcquireExhausted, Goto, LoopTop, Held, HoldsSlot, TypeOK
  <2> QED  BY <2>2, <2>3, <2>4 DEF Pool!Refuse, Waiting, Held
<1>3. ASSUME NEW w \in Workers, ReleaseReturn(w) PROVE Pool!Release(w)
  <2>1. Held[w] # NoOne
    BY <1>3, NoOneAssumption DEF ReleaseReturn, Held, HoldsSlot, SlotsPartitioned, InUse
  <2>2. Held' = [Held EXCEPT ![w] = NoOne]
    BY <1>3, Zenon DEF ReleaseReturn, Goto, Held, HoldsSlot, TypeOK
  <2>3. Waiting' = Waiting
    BY <1>3 DEF ReleaseReturn, Goto, Waiting, TypeOK
  <2> QED  BY <2>1, <2>2, <2>3 DEF Pool!Release, Waiting, Held
<1>4. CASE HoldingUnchanged
  <2>1. Held' = Held
    BY <1>4 DEF HoldingUnchanged, Held
  <2>2. CASE Waiting' = Waiting
    BY <2>1, <2>2
  <2>3. ASSUME NEW w \in Workers, pc[w] = "recv", Waiting' = Waiting \cup {w}
        PROVE  Pool!Request(w)
    <3>1. w \notin Waiting /\ Held[w] = NoOne
      BY <2>3 DEF Waiting, Held, HoldsSlot
    <3> QED  BY <2>1, <2>3, <3>1 DEF Pool!Request, Waiting, Held
  <2> QED  BY <1>1, <1>2, <2>1, <2>2, <2>3, WaitingStep DEF Pool!Next
<1> QED  BY <1>1, <1>3, <1>4, HoldingStep DEF Pool!Next

(***************************************************************************)
(* The two-section acquire and release_active implement the atomic pool: a *)
(* slot is granted to one worker at a time and a query is shed only while  *)
(* every slot of the capacity is held.                                     *)
(***************************************************************************)
THEOREM RefinesSlotPool == Spec => ImplementsSlotPool
<1>1. Init => Pool!Init
  BY DEF Init, Pool!Init, HoldsSlot
<1>2. IInv /\ [Next]_vars => [Pool!Next]_<<Waiting, Held>>
  BY PoolStep
<1> QED  BY <1>1, <1>2, Inductive, PTL DEF Spec, ImplementsSlotPool, Pool!Spec, Waiting, Held
=============================================================================
