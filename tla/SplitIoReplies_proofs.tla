------------------------ MODULE SplitIoReplies_proofs -----------------------
(***************************************************************************)
(* The wakes and the replies of the split_io runtime, for any number of    *)
(* slots, threads, queries and attempts: a parked slot is woken once, an   *)
(* answer on its way to a slot is for the query in that slot, and a client *)
(* gets one reply at most, its own (with FreshIds).                        *)
(***************************************************************************)
EXTENDS SplitIo_proofs

\* The steps are first-order; a step that needs arithmetic or sequences cites SMT.
USE ZenonT(30)

-----------------------------------------------------------------------------
(***************************************************************************)
(* Layer 3 is preserved.                                                   *)
(***************************************************************************)
\* A worker's step on a slot it owns and is not about to park.
LEMMA Layer3Works ==
    ASSUME TypeOK, References, Layer1, Layer3, NEW w \in PolicyWorkers,
           pw[w].at \in Holding \ Parking, OthersKept(w), pw'[w].at \notin {"park", "Resume"},
           UNCHANGED <<pending, io, resumeCh, queue>>,
           \A s \in SlotId : s # pw[w].slot => slotState'[s] = slotState[s] /\ lock'[s] = lock[s],
           slotState'[pw[w].slot] # "IoWait"
    PROVE  Layer3'
<1>1. PICK t \in SlotId : t = pw[w].slot
  BY DEF References
<1>2. ~Woken(t)
  BY <1>1, OwnedIsNotWoken
<1>3. pw[w].at # "Resume"
  BY DEF Holding, Running, Registering
<1>4. SameTokens
  BY <1>3 DEF SameTokens, OthersKept
<1>5. \A v \in PolicyWorkers :
          pw'[v] = pw[v] \/ (pw'[v].at # "park" /\ pw[v].at \notin Parking)
  BY DEF OthersKept
<1> QED
  BY <1>1, <1>2, <1>4, <1>5, Layer3Elsewhere

\* ... that leaves the slot's state alone.
LEMMA Layer3Runs ==
    ASSUME TypeOK, References, Layer1, Layer3, NEW w \in PolicyWorkers,
           pw[w].at \in Holding \ Parking, OthersKept(w), pw'[w].at \notin {"park", "Resume"},
           UNCHANGED <<pending, io, resumeCh, queue, slotState>>,
           \A s \in SlotId : s # pw[w].slot => lock'[s] = lock[s]
    PROVE  Layer3'
<1>1. pw[w].slot \in SlotId
  BY DEF References
<1>2. slotState[pw[w].slot] # "IoWait"
  BY <1>1, ParkedHasNoOwner
<1> QED
  BY <1>2, Layer3Works

\* Between track_pending and park the pending entry is the wake.
LEMMA Layer3Sending ==
    ASSUME TypeOK, References, Layer1, Layer2, Layer3, NEW w \in PolicyWorkers,
           pw[w].at \in {"send", "unregister"}, OthersKept(w), pw'[w].at \in Parking,
           pw'[w].slot = pw[w].slot, UNCHANGED <<pending, io, resumeCh, queue, slotState, lock>>
    PROVE  Layer3'
<1>1. pw[w].slot \in SlotId /\ pw[w].key \in DnsId /\ pw[w].at \in Sending
  BY DEF References, Holding, Running, Registering, Sending
<1>2. PICK t \in SlotId : t = pw[w].slot
  BY <1>1
<1>3. Woken(t)
  BY <1>1, <1>2 DEF Layer2, TableFollowsWorker, Woken, Pending
<1>4. SameTokens
  BY DEF SameTokens, OthersKept, Parking, Sending
<1>5. /\ EachPlaceOnce' /\ OnePlace'
      /\ \A s \in SlotId : SameWakes(s) /\ (Woken(s)' <=> Woken(s))
  BY <1>4, TokensStay
<1>6. Woken(t)' /\ InOnePlace(t)' /\ MayBeWoken(t)'
  BY <1>2, <1>3, <1>5 DEF OnePlace, MayBeWoken
<1>7. \A v \in PolicyWorkers : pw'[v] = pw[v] \/ (pw[v].slot = t /\ pw'[v].slot = t)
  BY <1>2 DEF OthersKept
<1> QED
  BY <1>5, <1>6, <1>7, Layer3Frame

LEMMA Layer3Step ==
    ASSUME TypeOK, References, Layer1, Layer2, Layer3, [Next]_vars
    PROVE  Layer3'
<1> USE DEF ioVars
<1>1. ASSUME NEW i \in Ingress, IngressPublish(i) PROVE Layer3'
  <2>1. PICK t \in SlotId : t = ing[i].slot
    BY <1>1 DEF IngressPublish, References, IngressHolds
  <2>2. ~Woken(t)
    BY <1>1, <2>1, OwnedIsNotWoken DEF IngressPublish, IngressHolds
  <2>3. SameTokens /\ UNCHANGED <<lock, pw>>
    BY <1>1 DEF IngressPublish, SameTokens
  <2>4. slotState'[t] # "IoWait" /\ \A s \in SlotId : s # t => slotState'[s] = slotState[s]
    BY <1>1, <2>1 DEF IngressPublish, PublishIngress, TypeOK, StoreTypeOK
  <2> QED  BY <2>2, <2>3, <2>4, Layer3Elsewhere
<1>2. ASSUME NEW i \in Ingress, IngressSetup(i) PROVE Layer3'
  <2>1. SameTokens /\ UNCHANGED <<slotState, lock, pw>>
    BY <1>2 DEF IngressSetup, SameTokens, threadVars, storeVars
  <2> QED  BY <2>1, Layer3Same
<1>3. ASSUME NEW i \in Ingress, IngressRoute(i) PROVE Layer3'
  <2>1. SameTokens /\ UNCHANGED <<slotState, lock, pw>>
    BY <1>3 DEF IngressRoute, SameTokens, threadVars, storeVars
  <2> QED  BY <2>1, Layer3Same
<1>4. ASSUME NEW i \in Ingress, IngressPush(i) PROVE Layer3'
  BY <1>4, Layer3Push
<1>5. ASSUME NEW i \in Ingress, IngressAwait(i) PROVE Layer3'
  <2>1. SameTokens /\ UNCHANGED <<slotState, lock, pw>>
    BY <1>5 DEF IngressAwait, SameTokens, threadVars, storeVars
  <2> QED  BY <2>1, Layer3Same
<1>6. ASSUME NEW i \in Ingress, NEW q \in Queries, IngressAcquire(i, q) PROVE Layer3'
  <2>1. UNCHANGED slotState
    BY <1>6 DEF IngressAcquire, PopFree, storeVars
  <2>2. SameTokens /\ UNCHANGED <<lock, pw>>
    BY <1>6 DEF IngressAcquire, SameTokens
  <2> QED  BY <2>1, <2>2, Layer3Same
<1>7. ASSUME NEW w \in PolicyWorkers, NEW s \in SlotId, Pop(w, s) PROVE Layer3'
  BY <1>7, Layer3Pop
<1>8. ASSUME NEW w \in PolicyWorkers, ProcessNew(w) PROVE Layer3'
  <2>1. /\ pw[w].at = "New" /\ pw[w].at \in Holding \ Parking
        /\ UNCHANGED <<pending, io, resumeCh, queue, lock>>
    BY <1>8 DEF ProcessNew, Holding, Parking, Sending
  <2>2. pw[w].slot \in SlotId
    BY <2>1 DEF References
  <2>3. slotState[pw[w].slot] = "Ingress"
    BY <2>1 DEF Layer1, StateIsTheOwners
  <2>4. Step(w, "New", "first") /\ slotState' = [slotState EXCEPT ![pw[w].slot] = "Policy"]
    BY <1>8, <2>3 DEF ProcessNew, SetState
  <2>5. OthersKept(w) /\ pw'[w].at = "first"
    BY <2>4, StepEffect, ConstantTypes
  <2>6. /\ slotState'[pw[w].slot] # "IoWait"
        /\ \A s \in SlotId : s # pw[w].slot => slotState'[s] = slotState[s]
    BY <2>2, <2>4 DEF TypeOK, StoreTypeOK
  <2> QED  BY <2>1, <2>5, <2>6, Layer3Works
<1>9. ASSUME NEW w \in PolicyWorkers, ProcessResume(w) PROVE Layer3'
  BY <1>9, Layer3Resume
<1>10. ASSUME NEW w \in PolicyWorkers, RunBegin(w) PROVE Layer3'
  <2>1. /\ pw[w].at \in Holding \ Parking
        /\ UNCHANGED <<pending, io, resumeCh, queue, slotState>>
    BY <1>10 DEF RunBegin, Holding, Parking, Sending, storeVars
  <2>2. PICK to \in {"request", "response", "readpool"} : pw' = [pw EXCEPT ![w].at = to]
    BY <1>10 DEF RunBegin
  <2>3. OthersKept(w) /\ pw'[w].at = to
    BY <2>2 DEF TypeOK, WorkerRec, OthersKept
  <2>4. \A s \in SlotId : s # pw[w].slot => lock'[s] = lock[s]
    BY <1>10 DEF RunBegin, TypeOK
  <2> QED  BY <2>1, <2>3, <2>4, Layer3Runs
<1>11. ASSUME NEW w \in PolicyWorkers, RunRequest(w) PROVE Layer3'
  <2>1. pw[w].slot \in SlotId /\ pw[w].at \in Holding \ Parking
    BY <1>11 DEF RunRequest, References, Holding, Running, Registering, Parking, Sending
  <2>2. NoOne \in QueryOrNone /\ SendWire(w) \in QueryOrNone
    BY <2>1, SendWireType, ConstantTypes
  <2>3. ASSUME NEW out \in QueryOrNone, Finish(w, out)
        PROVE  /\ OthersKept(w) /\ pw'[w].at \in {"readpool", "deliver"}
               /\ \A s \in SlotId : s # pw[w].slot => lock'[s] = lock[s]
    BY <2>1, <2>3, FinishEffect
  <2>4. UNCHANGED <<pending, io, resumeCh, queue, slotState>>
    BY <1>11 DEF RunRequest, storeVars
  <2>5. CASE Step(w, "request", "forward") /\ UNCHANGED lock
    <3>1. OthersKept(w) /\ pw'[w].at = "forward"
      BY <2>5, StepEffect, ConstantTypes
    <3> QED  BY <2>1, <2>4, <2>5, <3>1, Layer3Runs
  <2>6. ASSUME NEW out \in QueryOrNone, Finish(w, out) PROVE Layer3'
    BY <2>1, <2>3, <2>4, <2>6, Layer3Runs
  <2> QED  BY <1>11, <2>2, <2>5, <2>6 DEF RunRequest
<1>12. ASSUME NEW w \in PolicyWorkers, RunResponse(w) PROVE Layer3'
  <2>1. pw[w].slot \in SlotId /\ pw[w].at \in Holding \ Parking
    BY <1>12 DEF RunResponse, References, Holding, Running, Registering, Parking, Sending
  <2>2. NoOne \in QueryOrNone /\ SendWire(w) \in QueryOrNone
    BY <2>1, SendWireType, ConstantTypes
  <2>3. ASSUME NEW out \in QueryOrNone, Finish(w, out)
        PROVE  /\ OthersKept(w) /\ pw'[w].at \in {"readpool", "deliver"}
               /\ \A s \in SlotId : s # pw[w].slot => lock'[s] = lock[s]
    BY <2>1, <2>3, FinishEffect
  <2>4. UNCHANGED <<pending, io, resumeCh, queue, slotState>>
    BY <1>12 DEF RunResponse, storeVars
  <2>5. CASE Step(w, "response", "forward") /\ UNCHANGED lock
    <3>1. OthersKept(w) /\ pw'[w].at = "forward"
      BY <2>5, StepEffect, ConstantTypes
    <3> QED  BY <2>1, <2>4, <2>5, <3>1, Layer3Runs
  <2>6. ASSUME NEW out \in QueryOrNone, Finish(w, out) PROVE Layer3'
    BY <2>1, <2>3, <2>4, <2>6, Layer3Runs
  <2> QED  BY <1>12, <2>2, <2>5, <2>6 DEF RunResponse
<1>13. ASSUME NEW w \in PolicyWorkers, RegisterKey(w) PROVE Layer3'
  <2>1. pw[w].slot \in SlotId /\ pw[w].at \in Holding \ Parking
    BY <1>13 DEF RegisterKey, References, Holding, Running, Registering, Parking, Sending
  <2>2. NoOne \in QueryOrNone /\ SendWire(w) \in QueryOrNone
    BY <2>1, SendWireType, ConstantTypes
  <2>3. ASSUME NEW out \in QueryOrNone, Finish(w, out)
        PROVE  /\ OthersKept(w) /\ pw'[w].at \in {"readpool", "deliver"}
               /\ \A s \in SlotId : s # pw[w].slot => lock'[s] = lock[s]
    BY <2>1, <2>3, FinishEffect
  <2>4. UNCHANGED <<pending, io, resumeCh, queue, slotState>>
    BY <1>13 DEF RegisterKey, storeVars
  <2>5. CASE Finish(w, SendWire(w))
    BY <2>1, <2>2, <2>3, <2>4, <2>5, Layer3Runs
  <2>6. ASSUME NEW k \in DnsId, pw' = [pw EXCEPT ![w].at = "reserve", ![w].key = k], UNCHANGED lock
        PROVE  Layer3'
    <3>1. OthersKept(w) /\ pw'[w].at = "reserve"
      BY <2>6 DEF TypeOK, WorkerRec, OthersKept
    <3> QED  BY <2>1, <2>4, <2>6, <3>1, Layer3Runs
  <2> QED  BY <1>13, <2>5, <2>6 DEF RegisterKey
<1>14. ASSUME NEW w \in PolicyWorkers, TryAcquire(w) PROVE Layer3'
  <2>1. UNCHANGED <<pending, io, resumeCh, queue, slotState, lock>>
    BY <1>14 DEF TryAcquire, storeVars
  <2>2. CASE Step(w, "reserve", "track")
    <3>1. OthersKept(w) /\ pw[w].at = "reserve" /\ pw'[w].at = "track"
      BY <2>2, StepEffect, ConstantTypes
    <3>2. pw[w].at \in Holding \ Parking
      BY <3>1 DEF Holding, Running, Registering, Parking, Sending
    <3> QED  BY <2>1, <3>1, <3>2, Layer3Runs
  <2>3. CASE Step(w, "reserve", "refuse")
    <3>1. OthersKept(w) /\ pw[w].at = "reserve" /\ pw'[w].at = "refuse"
      BY <2>3, StepEffect, ConstantTypes
    <3>2. pw[w].at \in Holding \ Parking
      BY <3>1 DEF Holding, Running, Registering, Parking, Sending
    <3> QED  BY <2>1, <3>1, <3>2, Layer3Runs
  <2> QED  BY <1>14, <2>2, <2>3 DEF TryAcquire
<1>15. ASSUME NEW w \in PolicyWorkers, RefuseAtCap(w) PROVE Layer3'
  <2>1. pw[w].slot \in SlotId /\ pw[w].at \in Holding \ Parking
    BY <1>15 DEF RefuseAtCap, References, Holding, Running, Registering, Parking, Sending
  <2>2. NoOne \in QueryOrNone /\ SendWire(w) \in QueryOrNone
    BY <2>1, SendWireType, ConstantTypes
  <2>3. ASSUME NEW out \in QueryOrNone, Finish(w, out)
        PROVE  /\ OthersKept(w) /\ pw'[w].at \in {"readpool", "deliver"}
               /\ \A s \in SlotId : s # pw[w].slot => lock'[s] = lock[s]
    BY <2>1, <2>3, FinishEffect
  <2>4. UNCHANGED <<pending, io, resumeCh, queue, slotState>>
    BY <1>15 DEF RefuseAtCap, storeVars
  <2> QED  BY <1>15, <2>1, <2>2, <2>3, <2>4, Layer3Runs DEF RefuseAtCap
<1>16. ASSUME NEW w \in PolicyWorkers, TrackPending(w) PROVE Layer3'
  <2>1. pw[w].slot \in SlotId /\ pw[w].at \in Holding \ Parking
    BY <1>16 DEF TrackPending, References, Holding, Running, Registering, Parking, Sending
  <2>2. NoOne \in QueryOrNone /\ SendWire(w) \in QueryOrNone
    BY <2>1, SendWireType, ConstantTypes
  <2>3. ASSUME NEW out \in QueryOrNone, Finish(w, out)
        PROVE  /\ OthersKept(w) /\ pw'[w].at \in {"readpool", "deliver"}
               /\ \A s \in SlotId : s # pw[w].slot => lock'[s] = lock[s]
    BY <2>1, <2>3, FinishEffect
  <2>4. UNCHANGED <<io, resumeCh, queue, slotState>>
    BY <1>16 DEF TrackPending, storeVars
  <2>5. CASE Step(w, "track", "send") /\ UNCHANGED lock
             /\ pending' = [pending EXCEPT ![pw[w].key] = pw[w].slot]
    BY <2>4, <2>5, Layer3Track
  <2>6. CASE Finish(w, SendWire(w)) /\ UNCHANGED pending
    BY <2>1, <2>2, <2>3, <2>4, <2>6, Layer3Runs
  <2> QED  BY <1>16, <2>5, <2>6 DEF TrackPending
<1>17. ASSUME NEW w \in PolicyWorkers, SendUpstream(w) PROVE Layer3'
  <2>1. UNCHANGED <<pending, io, resumeCh, queue, slotState, lock>>
    BY <1>17 DEF SendUpstream, storeVars
  <2>2. CASE Step(w, "send", "park")
    <3>1. /\ OthersKept(w) /\ pw[w].at = "send" /\ pw'[w].at = "park"
          /\ pw'[w].slot = pw[w].slot
      BY <2>2, StepEffect, ConstantTypes
    <3> QED  BY <2>1, <3>1, Layer3Sending DEF Parking, Sending
  <2>3. CASE Step(w, "send", "unregister")
    <3>1. /\ OthersKept(w) /\ pw[w].at = "send" /\ pw'[w].at = "unregister"
          /\ pw'[w].slot = pw[w].slot
      BY <2>3, StepEffect, ConstantTypes
    <3> QED  BY <2>1, <3>1, Layer3Sending DEF Parking, Sending
  <2> QED  BY <1>17, <2>2, <2>3 DEF SendUpstream
<1>18. ASSUME NEW w \in PolicyWorkers, Unregister(w) PROVE Layer3'
  <2>1. UNCHANGED <<pending, io, resumeCh, queue, slotState, lock>>
    BY <1>18 DEF Unregister, storeVars
  <2>2. CASE Step(w, "unregister", "cancel")
    <3>1. /\ OthersKept(w) /\ pw[w].at = "unregister" /\ pw'[w].at = "cancel"
          /\ pw'[w].slot = pw[w].slot
      BY <2>2, StepEffect, ConstantTypes
    <3> QED  BY <2>1, <3>1, Layer3Sending DEF Parking, Sending
  <2> QED  BY <1>18, <2>2 DEF Unregister
<1>19. ASSUME NEW w \in PolicyWorkers, CancelPending(w) PROVE Layer3'
  <2>1. pw[w].slot \in SlotId
    BY <1>19 DEF CancelPending, References, Holding, Running, Registering
  <2>2. NoOne \in QueryOrNone /\ SendWire(w) \in QueryOrNone
    BY <2>1, SendWireType, ConstantTypes
  <2>3. ASSUME NEW out \in QueryOrNone, Finish(w, out)
        PROVE  /\ OthersKept(w) /\ pw'[w].at \in {"readpool", "deliver"}
               /\ \A s \in SlotId : s # pw[w].slot => lock'[s] = lock[s]
    BY <2>1, <2>3, FinishEffect
  <2>4. UNCHANGED <<io, resumeCh, queue, slotState>>
    BY <1>19 DEF CancelPending, storeVars
  <2> QED  BY <1>19, <2>2, <2>3, <2>4, Layer3Cancel DEF CancelPending
<1>20. ASSUME NEW w \in PolicyWorkers, Park(w) PROVE Layer3'
  BY <1>20, Layer3Park
<1>21. ASSUME NEW w \in PolicyWorkers, DeliverReply(w) PROVE Layer3'
  <2>1. OthersKept(w) /\ pw[w].at = "deliver" /\ pw'[w].at = "readpool"
    BY <1>21, DeliverEffect
  <2>2. pw[w].at \in Holding \ Parking /\ UNCHANGED <<pending, io, resumeCh, queue, slotState, lock>>
    BY <1>21, <2>1 DEF DeliverReply, storeVars, Holding, Parking, Sending
  <2> QED  BY <2>1, <2>2, Layer3Runs
<1>22. ASSUME NEW w \in PolicyWorkers, ReadPool(w) PROVE Layer3'
  <2>1. /\ pw[w].at \in Holding \ Parking
        /\ UNCHANGED <<pending, io, resumeCh, queue, slotState, lock>>
    BY <1>22 DEF ReadPool, Holding, Parking, Sending, storeVars
  <2>2. PICK held \in BOOLEAN : pw' = [pw EXCEPT ![w].at = "clear", ![w].pool = held]
    BY <1>22 DEF ReadPool
  <2>3. OthersKept(w) /\ pw'[w].at = "clear"
    BY <2>2 DEF TypeOK, WorkerRec, OthersKept
  <2> QED  BY <2>1, <2>3, Layer3Runs
<1>23. ASSUME NEW w \in PolicyWorkers, ReleaseClear(w) PROVE Layer3'
  <2>1. /\ pw[w].at \in Holding \ Parking
        /\ UNCHANGED <<pending, io, resumeCh, queue, lock>>
    BY <1>23 DEF ReleaseClear, Holding, Parking, Sending
  <2>2. pw[w].slot \in SlotId
    BY <2>1 DEF References
  <2>3. PICK to \in {"return", "unreserve"} : pw' = [pw EXCEPT ![w].at = to]
    BY <1>23 DEF ReleaseClear
  <2>4. OthersKept(w) /\ pw'[w].at = to
    BY <2>3 DEF TypeOK, WorkerRec, OthersKept
  <2>5. /\ slotState'[pw[w].slot] # "IoWait"
        /\ \A s \in SlotId : s # pw[w].slot => slotState'[s] = slotState[s]
    BY <1>23, <2>2 DEF ReleaseClear, ClearSlot, TypeOK, StoreTypeOK
  <2> QED  BY <2>1, <2>4, <2>5, Layer3Works
<1>24. ASSUME NEW w \in PolicyWorkers, ReleaseReturn(w) PROVE Layer3'
  <2>1. UNCHANGED <<pending, io, resumeCh, queue, slotState, lock>>
    BY <1>24 DEF ReleaseReturn, storeVars, ReturnToFree
  <2>2. CASE Step(w, "return", "unreserve")
    <3>1. OthersKept(w) /\ pw[w].at = "return" /\ pw'[w].at = "unreserve"
      BY <2>2, StepEffect, ConstantTypes
    <3>2. pw[w].at \in Holding \ Parking
      BY <3>1 DEF Holding, Running, Registering, Parking, Sending
    <3> QED  BY <2>1, <3>1, <3>2, Layer3Runs
  <2> QED  BY <1>24, <2>2 DEF ReleaseReturn
<1>25. ASSUME NEW w \in PolicyWorkers, ReleasePool(w) PROVE Layer3'
  <2>1. OthersKept(w) /\ pw[w].at = "unreserve" /\ pw'[w].at = "idle"
    BY <1>25, IdleEffect DEF ReleasePool
  <2>2. SameTokens /\ UNCHANGED <<slotState, lock>>
    BY <1>25, <2>1 DEF ReleasePool, SameTokens, OthersKept, storeVars
  <2> QED  BY <2>1, <2>2, Layer3Same DEF OthersKept, Parking, Sending
<1>26. ASSUME NEW m \in sent, HandleReply(m) PROVE Layer3'
  <2>1. m.id \in DnsId
    BY DEF TypeOK
  <2> QED  BY <1>26, <2>1, Layer3Complete DEF HandleReply
<1>27. ASSUME NEW m \in sent, UpstreamDone(m) PROVE Layer3'
  <2>1. SameTokens /\ UNCHANGED <<slotState, lock, pw>>
    BY <1>27 DEF UpstreamDone, SameTokens, threadVars, storeVars
  <2> QED  BY <2>1, Layer3Same
<1>28. ASSUME NEW k \in DnsId, PollTimeouts(k) PROVE Layer3'
  BY <1>28, Layer3Complete DEF PollTimeouts
<1>29. CASE IoTableRemove
  <2>1. /\ UNCHANGED <<slotState, lock, pw, pending, resumeCh, queue>>
        /\ io.at # "idle" /\ io'.at # "idle" /\ io'.slot = io.slot
    BY <1>29 DEF IoTableRemove, storeVars, threadVars, TypeOK, IoRec
  <2>2. \A s \in SlotId : SameWakes(s)
    BY <2>1 DEF SameWakes, Pending, Completing, InChannel, Queued, Popped
  <2>3. EachPlaceOnce'
    BY <2>1 DEF Layer3, EachPlaceOnce
  <2>4. PICK t \in SlotId : t = io.slot
    BY <2>1 DEF References
  <2>5. Woken(t) /\ Woken(t)' /\ InOnePlace(t)'
    BY <2>1, <2>2, <2>4 DEF SameWakes, Woken, Completing, InOnePlace, Layer3, OnePlace
  <2> QED  BY <2>1, <2>2, <2>3, <2>5, Layer3Passed
<1>30. CASE IoSendResume
  BY <1>30, Layer3SendResume
<1>31. CASE ForwardResume
  BY <1>31, Layer3Forward
<1>32. CASE Reload
  <2>1. SameTokens /\ UNCHANGED <<slotState, lock, pw>>
    BY <1>32 DEF Reload, SameTokens, threadVars, storeVars
  <2> QED  BY <2>1, Layer3Same
<1>33. CASE UNCHANGED vars
  <2>1. SameTokens /\ UNCHANGED <<slotState, lock, pw>>
    BY <1>33 DEF vars, SameTokens, storeVars, threadVars
  <2> QED  BY <2>1, Layer3Same
<1> QED
  BY <1>1, <1>2, <1>3, <1>4, <1>5, <1>6, <1>7, <1>8, <1>9, <1>10, <1>11, <1>12,
     <1>13, <1>14, <1>15, <1>16, <1>17, <1>18, <1>19, <1>20, <1>21, <1>22,
     <1>23, <1>24, <1>25, <1>26, <1>27, <1>28, <1>29, <1>30, <1>31, <1>32, <1>33
     DEF Next, IngressStep, PolicyStep, IoStep

-----------------------------------------------------------------------------
LEMMA InitWakes ==
    ASSUME Init
    PROVE  Layer2 /\ Layer3
<1>1. Layer2
  <2>1. \A w \in PolicyWorkers : pw[w].at \notin Registering
    BY InitIsIdle DEF Registering
  <2> QED
    BY InitIsIdle, <2>1 DEF Layer2, KeysAreSeparate, KeyIsNotSent, TableFollowsWorker,
       TableFollowsIo, PendingIsInTable, NoTableLeak, Sending, Registering
<1>2. Layer3
  <2>1. \A s \in SlotId : ~Pending(s) /\ ~Completing(s) /\ ~InChannel(s) /\ ~Queued(s) /\ ~Popped(s)
    <3>1. \A s \in SlotId : ~Pending(s) /\ ~Completing(s) /\ ~Popped(s)
      BY InitIsIdle, NoOneIsNoSlot DEF Pending, Completing, Popped
    <3>2. \A s \in SlotId : ~InChannel(s) /\ ~Queued(s)
      BY InitIsIdle, Positions DEF InChannel, Queued
    <3> QED  BY <3>1, <3>2
  <2>2. EachPlaceOnce
    BY InitIsIdle, Positions DEF EachPlaceOnce
  <2> QED
    BY InitIsIdle, <2>1, <2>2 DEF Layer3, OnePlace, InOnePlace, WokenIsParked, ParkedIsWoken, Woken
<1> QED
  BY <1>1, <1>2

\* FreshIds holds of a stuttering step too.
LEMMA FreshAlways ==
    ASSUME [FreshIds]_vars
    PROVE  FreshIds
<1>1. CASE UNCHANGED vars
  BY <1>1 DEF vars, ioVars, FreshIds
<1> QED  BY <1>1

(***************************************************************************)
(* The inductive invariant of this module: the owners of the slots, who    *)
(* removes a registered id, and where the wake of a slot is.               *)
(***************************************************************************)
THEOREM Wakes == Spec /\ [][FreshIds]_vars => [](Owned /\ Layer2 /\ Layer3)
<1>1. Init => Layer2 /\ Layer3
  BY InitWakes
<1>2. Owned /\ Layer2 /\ Layer3 /\ [Next]_vars /\ [FreshIds]_vars => (Layer2 /\ Layer3)'
  BY Layer2Step, Layer3Step, FreshAlways DEF Owned
<1> QED
  BY <1>1, <1>2, SlotsHaveOneOwner, PTL DEF Spec

\* There is one wake source while something wakes the slot, else none.
LEMMA WakesCount ==
    ASSUME TypeOK, Layer3, NEW s \in SlotId
    PROVE  /\ WakeSources(s) # {} <=> Woken(s)
           /\ \A x, y \in WakeSources(s) : x = y
<1> DEFINE P == {<<"pending", k>> : k \in {j \in DnsId : pending[j] = s}}
           K == {<<"complete", k>> : k \in {j \in {io.key} : io.at # "idle" /\ io.slot = s}}
           C == {<<"channel", n>> : n \in {m \in 1 .. Len(resumeCh) : resumeCh[m].slot = s}}
           Q == {<<"queue", n>> : n \in {m \in 1 .. Len(queue[s]) : queue[s][m].kind = "Resume"}}
           W == {<<"worker", w>> : w \in {v \in PolicyWorkers : pw[v].at = "Resume" /\ pw[v].slot = s}}
<1>1. (P # {} <=> Pending(s)) /\ \A x, y \in P : x = y
  <2>1. \A j, k \in DnsId : pending[j] = s /\ pending[k] = s => j = k
    BY NoOneIsNoSlot DEF Layer3, EachPlaceOnce
  <2> QED  BY <2>1 DEF Pending
<1>2. (K # {} <=> Completing(s)) /\ \A x, y \in K : x = y
  BY DEF Completing
<1>3. (C # {} <=> InChannel(s)) /\ \A x, y \in C : x = y
  <2>1. \A m, n \in 1 .. Len(resumeCh) : resumeCh[m].slot = s /\ resumeCh[n].slot = s => m = n
    BY DEF Layer3, EachPlaceOnce
  <2> QED  BY <2>1 DEF InChannel
<1>4. (Q # {} <=> Queued(s)) /\ \A x, y \in Q : x = y
  <2>1. Len(queue[s]) \in Nat /\ Len(queue[s]) <= 1
    BY SMT DEF Layer3, EachPlaceOnce, TypeOK
  <2>2. \A n \in Nat : n <= 1 => \A x, y \in 1 .. n : x = y
    BY SMT
  <2>3. \A m, n \in 1 .. Len(queue[s]) : m = n
    BY <2>1, <2>2
  <2> QED  BY <2>3 DEF Queued
<1>5. (W # {} <=> Popped(s)) /\ \A x, y \in W : x = y
  <2>1. \A v, w \in PolicyWorkers :
           (pw[v].at = "Resume" /\ pw[v].slot = s) /\ (pw[w].at = "Resume" /\ pw[w].slot = s)
               => v = w
    BY DEF Layer3, EachPlaceOnce
  <2> QED  BY <2>1 DEF Popped
<1>6. WakeSources(s) = P \cup K \cup C \cup Q \cup W
  BY DEF WakeSources
<1>7. InOnePlace(s)
  BY DEF Layer3, OnePlace
<1> HIDE DEF P, K, C, Q, W
<1> QED
  BY <1>1, <1>2, <1>3, <1>4, <1>5, <1>6, <1>7 DEF InOnePlace, Woken

(***************************************************************************)
(* For any number of slots, threads, queries and retries: a parked slot is *)
(* woken exactly once, and no wake is left over for the slot's next query, *)
(* as long as ids are not reused too early.                                *)
(***************************************************************************)
THEOREM ParkedSlotsWakeOnce == Spec /\ [][FreshIds]_vars => []OneWakePerPark
<1>1. Owned /\ Layer2 /\ Layer3 => OneWakePerPark
  <2>1. SUFFICES ASSUME Owned /\ Layer2 /\ Layer3, NEW s \in SlotId
        PROVE  /\ slotState[s] = "IoWait" => \E x \in WakeSources(s) : WakeSources(s) = {x}
               /\ WakeSources(s) # {} =>
                     \/ slotState[s] = "IoWait" /\ lock[s] = NoOne
                     \/ \E w \in PolicyWorkers :
                           /\ pw[w].slot = s /\ lock[s] = w
                           /\ pw[w].at \in {"send", "park", "unregister", "cancel"}
    BY DEF OneWakePerPark
  <2>2. (WakeSources(s) # {} <=> Woken(s)) /\ \A x, y \in WakeSources(s) : x = y
    BY <2>1, WakesCount DEF Owned
  <2>3. slotState[s] = "IoWait" => Woken(s)
    BY <2>1 DEF Layer3, ParkedIsWoken
  <2>4. Woken(s) => MayBeWoken(s)
    BY <2>1 DEF Layer3, WokenIsParked
  <2>5. \A w \in PolicyWorkers : pw[w].at \in Parking /\ pw[w].slot = s =>
           lock[s] = w /\ pw[w].at \in {"send", "park", "unregister", "cancel"}
    <3>1. ASSUME NEW w \in PolicyWorkers, pw[w].at \in Parking
          PROVE  pw[w].at \in Running /\ pw[w].at \in {"send", "park", "unregister", "cancel"}
      BY <3>1 DEF Parking, Sending, Running, Registering
    <3> QED  BY <2>1, <3>1 DEF Owned, Layer1, LockIsTheRunners
  <2> QED  BY <2>2, <2>3, <2>4, <2>5 DEF MayBeWoken
<1> QED
  BY <1>1, Wakes, PTL

(***************************************************************************)
(* process_resume drops a resume whose slot is not in IoWait.  That never  *)
(* happens: a worker that has popped a resume and gets the slot's mutex    *)
(* finds the slot parked.                                                  *)
(***************************************************************************)
NoResumeIsDropped ==
    \A w \in PolicyWorkers : pw[w].at = "Resume" /\ Unlocked(w) => slotState[pw[w].slot] = "IoWait"

THEOREM ResumesAreNeverDropped == Spec /\ [][FreshIds]_vars => []NoResumeIsDropped
<1>1. Owned /\ Layer2 /\ Layer3 => NoResumeIsDropped
  BY ResumeFindsParked DEF Owned, NoResumeIsDropped
<1> QED
  BY <1>1, Wakes, PTL

(***************************************************************************)
(* For any number of ids and threads: every entry of the transaction table *)
(* has somebody who will remove it.                                        *)
(***************************************************************************)
THEOREM TableNeverLeaks == Spec /\ [][FreshIds]_vars => []NoTableLeak
<1>1. Owned /\ Layer2 /\ Layer3 => NoTableLeak
  BY DEF Layer2
<1> QED
  BY <1>1, Wakes, PTL

-----------------------------------------------------------------------------
(***************************************************************************)
(* Layer 4: whose answer it is.                                            *)
(***************************************************************************)
\* Slots with a transaction that is under way, past the ingress thread
Started(s) ==
    \/ HasNew(s) \/ slotState[s] = "IoWait"
    \/ \E w \in PolicyWorkers : pw[w].at \in Holding \ {"return"} /\ pw[w].slot = s

TxnIsTheQuerys ==
    /\ \A i \in Ingress, s \in SlotId : ing[i].at \in {"route", "push"} /\ ing[i].slot = s =>
          /\ txn[s].q = ing[i].q
          /\ ing[i].at = "push" => route[s] = [q |-> ing[i].q, via |-> i]
    /\ \A s \in SlotId : Started(s) =>
          txn[s].q \in Queries /\ (route[s] # NoOne => route[s].q = txn[s].q)
    /\ \A s \in SlotId : txn[s].resp \in {NoOne, txn[s].q}

SentIsRight(s) == \A m \in sent : pending[m.id] = s => m.q = txn[s].q
IoIsRight(s) == io.at # "idle" /\ io.slot = s => io.done \in {NoOne, txn[s].q}
ChannelIsRight(s) ==
    \A n \in 1 .. Len(resumeCh) :
        resumeCh[n].slot = s => resumeCh[n].done \in {NoOne, txn[s].q}
QueueIsRight(s) ==
    \A n \in 1 .. Len(queue[s]) :
        queue[s][n].kind = "Resume" => queue[s][n].done \in {NoOne, txn[s].q}
WorkersAreRight(s) ==
    \A w \in PolicyWorkers : pw[w].slot = s =>
        /\ pw[w].at = "Resume" => pw[w].done \in {NoOne, txn[s].q}
        /\ pw[w].at = "deliver" => pw[w].out = txn[s].q

AnswersAreTheQuerys ==
    \A s \in SlotId : /\ SentIsRight(s) /\ IoIsRight(s) /\ ChannelIsRight(s)
                      /\ QueueIsRight(s) /\ WorkersAreRight(s)

Layer4 == TxnIsTheQuerys /\ AnswersAreTheQuerys

-----------------------------------------------------------------------------
(***************************************************************************)
(* Layer 5: the right to a reply is with the ingress thread, then a route, *)
(* then the inbox of a TCP thread or the client.                           *)
(***************************************************************************)
Claims(i, q) == ing[i].at \in {"publish", "setup", "route"} /\ ing[i].q = q
Routed(s, q) == route[s] # NoOne /\ route[s].q = q
Delivered(i, q) == ing[i].inbox # NoOne /\ ing[i].q = q

InboxIsRight ==
    \A i \in Ingress :
        /\ ing[i].inbox # NoOne => ing[i].inbox = ing[i].q /\ ing[i].at = "await"
        /\ ing[i].at = "recv" => ing[i].q = NoOne

AtMostOneReply(q) ==
    /\ \A i, j \in Ingress : ing[i].q = q /\ ing[j].q = q => i = j
    /\ \A s, t \in SlotId : Routed(s, q) /\ Routed(t, q) => s = t
    /\ \A i \in Ingress, s \in SlotId :
          ~(Claims(i, q) /\ Routed(s, q)) /\ ~(Delivered(i, q) /\ Routed(s, q))
    /\ life[q] = "new" =>
          /\ \A i \in Ingress : ing[i].q # q
          /\ \A s \in SlotId : ~Routed(s, q)
          /\ got[q] = << >>
    /\ got[q] # << >> =>
          /\ \A i \in Ingress : ~Claims(i, q) /\ ~Delivered(i, q)
          /\ \A s \in SlotId : ~Routed(s, q)

OneReply == \A q \in Queries : AtMostOneReply(q)

Layer5 == InboxIsRight /\ OneReply /\ RepliesAreRight

IInv == Owned /\ Layer2 /\ Layer3 /\ Layer4 /\ Layer5

-----------------------------------------------------------------------------
(***************************************************************************)
(* Layer 4.  A step that leaves the query and the answer of every          *)
(* transaction alone, starts none and moves no answer.                     *)
(***************************************************************************)
SameTxns == \A s \in SlotId : txn'[s].q = txn[s].q /\ txn'[s].resp = txn[s].resp

FewerRoutes == \A s \in SlotId : route'[s] = route[s] \/ route'[s] = NoOne

NoneStarts == \A s \in SlotId : Started(s)' => Started(s)

\* What a route says.
LEMMA RouteFields ==
    ASSUME NEW q, NEW i, NEW r, r = [q |-> q, via |-> i]
    PROVE  r.q = q /\ r.via = i
BY SMT

LEMMA TxnQuiet ==
    ASSUME TxnIsTheQuerys, SameTxns, FewerRoutes, NoneStarts,
           \A i \in Ingress : ing'[i].at \in {"route", "push"} =>
              /\ ing'[i].at = ing[i].at /\ ing'[i].q = ing[i].q /\ ing'[i].slot = ing[i].slot
              /\ \A s \in SlotId : ing[i].slot = s => route'[s] = route[s]
    PROVE  TxnIsTheQuerys'
<1>1. ASSUME NEW i \in Ingress, NEW s \in SlotId, ing'[i].at \in {"route", "push"}, ing'[i].slot = s
      PROVE  /\ txn'[s].q = ing'[i].q
             /\ ing'[i].at = "push" => route'[s] = [q |-> ing'[i].q, via |-> i]
  BY <1>1, SMT DEF TxnIsTheQuerys, SameTxns
<1>2. ASSUME NEW s \in SlotId, Started(s)'
      PROVE  txn'[s].q \in Queries /\ (route'[s] # NoOne => route'[s].q = txn'[s].q)
  BY <1>2, SMT DEF TxnIsTheQuerys, SameTxns, FewerRoutes, NoneStarts
<1>3. \A s \in SlotId : txn'[s].resp \in {NoOne, txn'[s].q}
  BY DEF TxnIsTheQuerys, SameTxns
<1> QED
  BY <1>1, <1>2, <1>3 DEF TxnIsTheQuerys

\* Answers keep their place; a worker that goes to deliver has the query's own.
LEMMA AnswersQuiet ==
    ASSUME Layer3, AnswersAreTheQuerys, UNCHANGED <<io, resumeCh, queue>>, sent' \subseteq sent,
           \A s \in SlotId : Woken(s) => txn'[s].q = txn[s].q,
           \A k \in DnsId : pending'[k] = pending[k] \/ pending'[k] = NoOne,
           sent \subseteq [id : DnsId, q : QueryOrNone],
           \A v \in PolicyWorkers, s \in SlotId : pw'[v].slot = s =>
              /\ pw'[v].at = "Resume" => pw'[v] = pw[v]
              /\ pw'[v].at = "deliver" =>
                    \/ pw'[v] = pw[v] /\ txn'[s].q = txn[s].q
                    \/ pw'[v].out = txn'[s].q
    PROVE  AnswersAreTheQuerys'
<1>1. SUFFICES ASSUME NEW s \in SlotId
      PROVE  /\ SentIsRight(s)' /\ IoIsRight(s)' /\ ChannelIsRight(s)'
             /\ QueueIsRight(s)' /\ WorkersAreRight(s)'
  BY DEF AnswersAreTheQuerys
<1>2. SentIsRight(s)'
  <2>1. ASSUME NEW m \in sent', pending'[m.id] = s PROVE m.q = txn'[s].q
    <3>1. m \in sent /\ m.id \in DnsId /\ pending[m.id] = s
      BY <2>1, NoOneIsNoSlot
    <3>2. Woken(s)
      BY <3>1 DEF Woken, Pending
    <3> QED  BY <3>1, <3>2 DEF AnswersAreTheQuerys, SentIsRight
  <2> QED  BY <2>1 DEF SentIsRight
<1>3. IoIsRight(s)'
  BY DEF AnswersAreTheQuerys, IoIsRight, Woken, Completing
<1>4. ChannelIsRight(s)'
  BY DEF AnswersAreTheQuerys, ChannelIsRight, Woken, InChannel
<1>5. QueueIsRight(s)'
  BY DEF AnswersAreTheQuerys, QueueIsRight, Woken, Queued
<1>6. WorkersAreRight(s)'
  <2>1. ASSUME NEW w \in PolicyWorkers, pw'[w].slot = s
        PROVE  /\ pw'[w].at = "Resume" => pw'[w].done \in {NoOne, txn'[s].q}
               /\ pw'[w].at = "deliver" => pw'[w].out = txn'[s].q
    BY <2>1, SMT DEF AnswersAreTheQuerys, WorkersAreRight, Woken, Popped
  <2> QED  BY <2>1 DEF WorkersAreRight
<1> QED
  BY <1>2, <1>3, <1>4, <1>5, <1>6

\* A worker's step on a transaction that is under way, or after its end.
LEMMA Layer4Works ==
    ASSUME TypeOK, Layer3, Layer4, NEW w \in PolicyWorkers, OthersKept(w), SameTxns,
           UNCHANGED <<ing, route, io, resumeCh, queue>>, sent' \subseteq sent,
           \A k \in DnsId : pending'[k] = pending[k] \/ pending'[k] = NoOne,
           pw'[w].at \in Holding => pw[w].at \in Holding \ {"return"} /\ pw'[w].slot = pw[w].slot,
           pw'[w].at # "Resume", pw'[w].at = "deliver" => pw'[w].out = txn[pw'[w].slot].q,
           \A s \in SlotId : slotState'[s] = "IoWait" =>
              slotState[s] = "IoWait" \/ (pw[w].slot = s /\ pw[w].at \in Holding \ {"return"})
    PROVE  Layer4'
<1>1. NoneStarts
  BY DEF NoneStarts, Started, HasNew, OthersKept
<1>2. TxnIsTheQuerys'
  BY <1>1, TxnQuiet DEF Layer4, FewerRoutes
<1>3. AnswersAreTheQuerys'
  <2>1. sent \subseteq [id : DnsId, q : QueryOrNone]
    BY DEF TypeOK
  <2>2. \A v \in PolicyWorkers, s \in SlotId : pw'[v].slot = s =>
              /\ pw'[v].at = "Resume" => pw'[v] = pw[v]
              /\ pw'[v].at = "deliver" =>
                    \/ pw'[v] = pw[v] /\ txn'[s].q = txn[s].q
                    \/ pw'[v].out = txn'[s].q
    BY SMT DEF OthersKept, SameTxns
  <2>3. \A s \in SlotId : txn'[s].q = txn[s].q
    BY DEF SameTxns
  <2> QED  BY <2>1, <2>2, <2>3, AnswersQuiet DEF Layer4
<1> QED
  BY <1>2, <1>3 DEF Layer4


\* Slots of an ingress thread, and slots being cleared, are in nobody else's hands.
LEMMA IngressSlotNotStarted ==
    ASSUME References, Layer1, NEW i \in Ingress, NEW t \in SlotId,
           ing[i].at \in IngressHolds, ing[i].slot = t
    PROVE  ~Started(t)
<1>1. ~HasNew(t) /\ \A w \in PolicyWorkers : pw[w].at \in Holding => pw[w].slot # t
  BY DEF Layer1, OneOwner
<1>2. slotState[t] # "IoWait"
  <2>1. SUFFICES ASSUME slotState[t] = "IoWait" PROVE FALSE
    OBVIOUS
  <2> QED  BY <2>1, ParkedHasNoOwner
<1> QED
  BY <1>1, <1>2 DEF Started

LEMMA TxnOfIngress ==
    ASSUME Layer4, NEW j \in Ingress, NEW s \in SlotId, ing[j].at \in {"route", "push"},
           ing[j].slot = s
    PROVE  /\ txn[s].q = ing[j].q
           /\ ing[j].at = "push" => route[s] = [q |-> ing[j].q, via |-> j]
  BY DEF Layer4, TxnIsTheQuerys

\* Another ingress thread's slot is another slot.
LEMMA IngressApart ==
    ASSUME Layer1, NEW i \in Ingress, NEW j \in Ingress, j # i, ing[i].at \in IngressHolds,
           ing[j].at \in {"route", "push"}
    PROVE  ing[j].slot # ing[i].slot
<1>1. ing[j].at \in IngressHolds
  BY DEF IngressHolds
<1> QED
  BY <1>1 DEF Layer1, OneOwner

LEMMA Layer4Setup ==
    ASSUME TypeOK, References, Layer1, Layer3, Layer4, NEW i \in Ingress, IngressSetup(i)
    PROVE  Layer4'
<1>1. ing[i].at \in IngressHolds /\ ing[i].slot \in SlotId
  BY DEF IngressSetup, IngressHolds, References
<1>2. PICK t \in SlotId : t = ing[i].slot
  BY <1>1
<1>3. /\ OtherIngressKept(i) /\ ing'[i].at = "route" /\ ing'[i].slot = t /\ ing'[i].q = ing[i].q
  BY <1>2, IngressEffect, ConstantTypes DEF IngressSetup
<1>4. UNCHANGED <<slotState, route, queue, pw, pending, io, resumeCh, sent>>
  BY DEF IngressSetup, storeVars, ioVars
<1>5. /\ txn'[t].q = ing[i].q /\ txn'[t].resp = NoOne
      /\ \A s \in SlotId : s # t => txn'[s] = txn[s]
  BY <1>2 DEF IngressSetup, TypeOK, NoTxn
<1>6. ~Woken(t) /\ ~Started(t)
  BY <1>1, <1>2, OwnedIsNotWoken, IngressSlotNotStarted
<1>7. \A s \in SlotId : Started(s)' <=> Started(s)
  BY <1>4 DEF Started, HasNew
<1>8. TxnIsTheQuerys'
  <2>1. ASSUME NEW j \in Ingress, NEW s \in SlotId, ing'[j].at \in {"route", "push"}, ing'[j].slot = s
        PROVE  /\ txn'[s].q = ing'[j].q
               /\ ing'[j].at = "push" => route'[s] = [q |-> ing'[j].q, via |-> j]
    <3>1. CASE j = i
      BY <1>3, <1>5, <2>1, <3>1
    <3>2. CASE j # i
      <4>1. ing'[j] = ing[j] /\ s # t
        <5>1. ing'[j] = ing[j]
          BY <1>3, <3>2 DEF OtherIngressKept
        <5>2. ing[j].slot # ing[i].slot
          BY <1>1, <2>1, <3>2, <5>1, IngressApart
        <5> QED  BY <1>2, <2>1, <5>1, <5>2
      <4>2. /\ txn[s].q = ing[j].q
            /\ ing[j].at = "push" => route[s] = [q |-> ing[j].q, via |-> j]
        BY <2>1, <4>1, TxnOfIngress
      <4> QED  BY <1>4, <1>5, <4>1, <4>2
    <3> QED  BY <3>1, <3>2
  <2>2. ASSUME NEW s \in SlotId, Started(s)'
        PROVE  txn'[s].q \in Queries /\ (route'[s] # NoOne => route'[s].q = txn'[s].q)
    BY <1>4, <1>5, <1>6, <1>7, <2>2 DEF Layer4, TxnIsTheQuerys
  <2>3. \A s \in SlotId : txn'[s].resp \in {NoOne, txn'[s].q}
    BY <1>5 DEF Layer4, TxnIsTheQuerys
  <2> QED  BY <2>1, <2>2, <2>3 DEF TxnIsTheQuerys
<1>9. AnswersAreTheQuerys'
  <2>1. sent \subseteq [id : DnsId, q : QueryOrNone]
    BY DEF TypeOK
  <2>2. \A v \in PolicyWorkers : pw[v].at = "deliver" => pw[v].slot # t
    BY <1>1, <1>2 DEF Layer1, OneOwner, Holding
  <2>3. \A s \in SlotId : Woken(s) => txn'[s].q = txn[s].q
    BY <1>5, <1>6
  <2> QED  BY <1>4, <1>5, <2>1, <2>2, <2>3, AnswersQuiet DEF Layer4
<1> QED
  BY <1>8, <1>9 DEF Layer4

LEMMA Layer4Route ==
    ASSUME TypeOK, References, Layer1, Layer3, Layer4, NEW i \in Ingress, IngressRoute(i)
    PROVE  Layer4'
<1>1. ing[i].at \in IngressHolds /\ ing[i].slot \in SlotId
  BY DEF IngressRoute, IngressHolds, References
<1>2. PICK t \in SlotId : t = ing[i].slot
  BY <1>1
<1>3. /\ OtherIngressKept(i) /\ ing[i].at = "route" /\ ing'[i].at = "push"
      /\ ing'[i].slot = t /\ ing'[i].q = ing[i].q
  BY <1>2, IngressEffect, ConstantTypes DEF IngressRoute
<1>4. UNCHANGED <<slotState, txn, queue, pw, pending, io, resumeCh, sent>>
  BY DEF IngressRoute, storeVars, ioVars
<1>5. /\ route'[t] = [q |-> ing[i].q, via |-> i]
      /\ \A s \in SlotId : s # t => route'[s] = route[s]
  BY <1>2 DEF IngressRoute, TypeOK
<1>6. ~Started(t)
  BY <1>1, <1>2, IngressSlotNotStarted
<1>7. \A s \in SlotId : Started(s)' <=> Started(s)
  BY <1>4 DEF Started, HasNew
<1>8. TxnIsTheQuerys'
  <2>1. ASSUME NEW j \in Ingress, NEW s \in SlotId, ing'[j].at \in {"route", "push"}, ing'[j].slot = s
        PROVE  /\ txn'[s].q = ing'[j].q
               /\ ing'[j].at = "push" => route'[s] = [q |-> ing'[j].q, via |-> j]
    <3>1. CASE j = i
      <4>1. txn[t].q = ing[i].q
        BY <1>2, <1>3, TxnOfIngress
      <4>2. s = t
        BY <1>3, <2>1, <3>1
      <4> QED  BY <1>3, <1>4, <1>5, <3>1, <4>1, <4>2
    <3>2. CASE j # i
      <4>1. ing'[j] = ing[j] /\ s # t
        <5>1. ing'[j] = ing[j]
          BY <1>3, <3>2 DEF OtherIngressKept
        <5>2. ing[j].slot # ing[i].slot
          BY <1>1, <2>1, <3>2, <5>1, IngressApart
        <5> QED  BY <1>2, <2>1, <5>1, <5>2
      <4>2. /\ txn[s].q = ing[j].q
            /\ ing[j].at = "push" => route[s] = [q |-> ing[j].q, via |-> j]
        BY <2>1, <4>1, TxnOfIngress
      <4> QED  BY <1>4, <1>5, <4>1, <4>2
    <3> QED  BY <3>1, <3>2
  <2>2. ASSUME NEW s \in SlotId, Started(s)'
        PROVE  txn'[s].q \in Queries /\ (route'[s] # NoOne => route'[s].q = txn'[s].q)
    BY <1>4, <1>5, <1>6, <1>7, <2>2 DEF Layer4, TxnIsTheQuerys
  <2>3. \A s \in SlotId : txn'[s].resp \in {NoOne, txn'[s].q}
    BY <1>4 DEF Layer4, TxnIsTheQuerys
  <2> QED  BY <2>1, <2>2, <2>3 DEF TxnIsTheQuerys
<1>9. AnswersAreTheQuerys'
  <2>1. sent \subseteq [id : DnsId, q : QueryOrNone]
    BY DEF TypeOK
  <2> QED  BY <1>4, <2>1, AnswersQuiet DEF Layer4
<1> QED
  BY <1>8, <1>9 DEF Layer4

LEMMA Layer4Push ==
    ASSUME TypeOK, References, Layer1, Layer4, NEW i \in Ingress, IngressPush(i)
    PROVE  Layer4'
<1>1. ing[i].at \in IngressHolds /\ ing[i].slot \in SlotId /\ ing[i].q \in Queries /\ New \in Item
  BY ConstantTypes DEF IngressPush, IngressHolds, References
<1>2. PICK t \in SlotId : t = ing[i].slot
  BY <1>1
<1>3. OtherIngressKept(i) /\ ing[i].at = "push" /\ ing'[i].at \notin {"route", "push"}
  BY DEF IngressPush, OtherIngressKept, TypeOK, IngressRec, IdleIngress
<1>4. UNCHANGED <<slotState, txn, route, pw, pending, io, resumeCh, sent>>
  BY DEF IngressPush, storeVars, ioVars
<1>5. /\ \A s \in SlotId : s # t => queue'[s] = queue[s]
      /\ Len(queue[t]) \in Nat /\ Len(queue'[t]) = Len(queue[t]) + 1
      /\ queue'[t][Len(queue[t]) + 1] = New
      /\ \A n \in 1 .. Len(queue[t]) : queue'[t][n] = queue[t][n]
  BY <1>1, <1>2, PushItem DEF IngressPush
<1>6. \A s \in SlotId : Started(s)' => Started(s) \/ s = t
  BY <1>4, <1>5 DEF Started, HasNew
<1>7. txn[t].q = ing[i].q /\ route[t] = [q |-> ing[i].q, via |-> i]
  BY <1>2, <1>3 DEF Layer4, TxnIsTheQuerys
<1>8. TxnIsTheQuerys'
  <2>1. ASSUME NEW j \in Ingress, NEW s \in SlotId, ing'[j].at \in {"route", "push"}, ing'[j].slot = s
        PROVE  /\ txn'[s].q = ing'[j].q
               /\ ing'[j].at = "push" => route'[s] = [q |-> ing'[j].q, via |-> j]
    <3>1. ing'[j] = ing[j]
      BY <1>3, <2>1 DEF OtherIngressKept
    <3>2. /\ txn[s].q = ing[j].q
          /\ ing[j].at = "push" => route[s] = [q |-> ing[j].q, via |-> j]
      BY <2>1, <3>1, TxnOfIngress
    <3> QED  BY <1>4, <3>1, <3>2
  <2>2. ASSUME NEW s \in SlotId, Started(s)'
        PROVE  txn'[s].q \in Queries /\ (route'[s] # NoOne => route'[s].q = txn'[s].q)
    <3>1. CASE s = t
      <4>1. route[t].q = ing[i].q
        <5>1. [q |-> ing[i].q, via |-> i].q = ing[i].q
          OBVIOUS
        <5> QED  BY <1>7, <5>1
      <4> QED  BY <1>1, <1>4, <1>7, <3>1, <4>1
    <3>2. CASE Started(s)
      BY <1>4, <3>2 DEF Layer4, TxnIsTheQuerys
    <3> QED  BY <1>6, <2>2, <3>1, <3>2
  <2>3. \A s \in SlotId : txn'[s].resp \in {NoOne, txn'[s].q}
    BY <1>4 DEF Layer4, TxnIsTheQuerys
  <2> QED  BY <2>1, <2>2, <2>3 DEF TxnIsTheQuerys
<1>9. \A s \in SlotId : SentIsRight(s)' /\ IoIsRight(s)' /\ ChannelIsRight(s)' /\ WorkersAreRight(s)'
  BY <1>4 DEF Layer4, AnswersAreTheQuerys, SentIsRight, IoIsRight, ChannelIsRight, WorkersAreRight
<1>10. QueueIsRight(t)'
  <2>1. ASSUME NEW n \in 1 .. Len(queue'[t]), queue'[t][n].kind = "Resume"
        PROVE  queue'[t][n].done \in {NoOne, txn'[t].q}
    <3>1. n \in 1 .. Len(queue[t])
      <4>1. New.kind # "Resume"
        BY DEF New
      <4>2. n \in 1 .. Len(queue[t]) \/ n = Len(queue[t]) + 1
        BY <1>5, PositionsPlus
      <4> QED  BY <1>5, <2>1, <4>1, <4>2
    <3> QED  BY <1>4, <1>5, <2>1, <3>1 DEF Layer4, AnswersAreTheQuerys, QueueIsRight
  <2> QED  BY <2>1 DEF QueueIsRight
<1>11. \A s \in SlotId : QueueIsRight(s)'
  BY <1>4, <1>5, <1>10 DEF Layer4, AnswersAreTheQuerys, QueueIsRight
<1> QED
  BY <1>8, <1>9, <1>11 DEF Layer4, AnswersAreTheQuerys


LEMMA Layer4Pop ==
    ASSUME TypeOK, Layer4, NEW w \in PolicyWorkers, NEW t \in SlotId, Pop(w, t)
    PROVE  Layer4'
<1>1. /\ OthersKept(w) /\ queue[t] # << >> /\ pw'[w].at = Head(queue[t]).kind
      /\ pw'[w].slot = t /\ pw'[w].done = Head(queue[t]).done
      /\ Head(queue[t]).kind \in {"New", "Resume"}
  BY PopEffect
<1>2. /\ UNCHANGED <<slotState, txn, route, ing, pending, io, resumeCh, sent>>
      /\ queue' = [queue EXCEPT ![t] = Tail(@)]
  BY DEF Pop, ioVars, storeVars
<1>3. /\ \A s \in SlotId : s # t => queue'[s] = queue[s]
      /\ Len(queue[t]) \in Nat \ {0} /\ Len(queue'[t]) = Len(queue[t]) - 1
      /\ Head(queue[t]) = queue[t][1]
      /\ \A n \in 1 .. Len(queue'[t]) : queue'[t][n] = queue[t][n + 1]
  BY <1>1, <1>2, PopItem
<1>4. 1 \in 1 .. Len(queue[t]) /\ \A n \in 1 .. Len(queue'[t]) : n + 1 \in 1 .. Len(queue[t])
  BY <1>3, PositionsMinus
<1>5. \A s \in SlotId : HasNew(s)' => HasNew(s)
  <2>1. ASSUME NEW n \in 1 .. Len(queue'[t]), queue'[t][n].kind = "New" PROVE HasNew(t)
    <3>1. n + 1 \in 1 .. Len(queue[t]) /\ queue[t][n + 1].kind = "New"
      BY <1>3, <1>4, <2>1
    <3> QED  BY <3>1 DEF HasNew
  <2>2. ASSUME NEW s \in SlotId, s # t PROVE HasNew(s)' => HasNew(s)
    BY <1>3, <2>2 DEF HasNew
  <2> QED  BY <2>1, <2>2 DEF HasNew
<1>6. pw'[w].at \in Holding => HasNew(t)
  BY <1>1, <1>3, <1>4 DEF HasNew, Holding, Running, Registering
<1>7. NoneStarts
  BY <1>1, <1>2, <1>5, <1>6 DEF NoneStarts, Started, OthersKept
<1>8. TxnIsTheQuerys'
  BY <1>2, <1>7, TxnQuiet DEF Layer4, SameTxns, FewerRoutes
<1>9. \A s \in SlotId : SentIsRight(s)' /\ IoIsRight(s)' /\ ChannelIsRight(s)'
  BY <1>2 DEF Layer4, AnswersAreTheQuerys, SentIsRight, IoIsRight, ChannelIsRight
<1>10. \A s \in SlotId : QueueIsRight(s)'
  <2>1. \A s \in SlotId : QueueIsRight(s)
    BY DEF Layer4, AnswersAreTheQuerys
  <2>2. ASSUME NEW s \in SlotId, s # t PROVE QueueIsRight(s)'
    BY <1>2, <1>3, <2>1, <2>2 DEF QueueIsRight
  <2>3. ASSUME NEW n \in 1 .. Len(queue'[t]), queue'[t][n].kind = "Resume"
        PROVE  queue'[t][n].done \in {NoOne, txn'[t].q}
    <3>1. n + 1 \in 1 .. Len(queue[t]) /\ queue'[t][n] = queue[t][n + 1]
      BY <1>3, <1>4
    <3>2. queue[t][n + 1].done \in {NoOne, txn[t].q}
      BY <2>1, <2>3, <3>1 DEF QueueIsRight
    <3> QED  BY <1>2, <3>1, <3>2
  <2> QED  BY <2>2, <2>3 DEF QueueIsRight
<1>11. QueueIsRight(t) /\ \A s \in SlotId : WorkersAreRight(s)
  BY DEF Layer4, AnswersAreTheQuerys
<1>12. pw'[w].at = "Resume" => pw'[w].done \in {NoOne, txn[t].q}
  <2>1. queue[t][1].kind = "Resume" => queue[t][1].done \in {NoOne, txn[t].q}
    BY <1>4, <1>11 DEF QueueIsRight
  <2> QED  BY <1>1, <1>3, <2>1
<1>13. pw'[w].at # "deliver"
  BY <1>1
<1>14. \A s \in SlotId : WorkersAreRight(s)'
  <2>1. ASSUME NEW s \in SlotId, NEW v \in PolicyWorkers, pw'[v].slot = s
        PROVE  /\ pw'[v].at = "Resume" => pw'[v].done \in {NoOne, txn'[s].q}
               /\ pw'[v].at = "deliver" => pw'[v].out = txn'[s].q
    <3>1. CASE v = w
      BY <1>1, <1>2, <1>12, <1>13, <2>1, <3>1
    <3>2. CASE v # w
      <4>1. pw'[v] = pw[v]
        BY <1>1, <3>2 DEF OthersKept
      <4>2. /\ pw[v].at = "Resume" => pw[v].done \in {NoOne, txn[s].q}
            /\ pw[v].at = "deliver" => pw[v].out = txn[s].q
        BY <1>11, <2>1, <4>1 DEF WorkersAreRight
      <4> QED  BY <1>2, <4>1, <4>2
    <3> QED  BY <3>1, <3>2
  <2> QED  BY <2>1 DEF WorkersAreRight
<1> QED
  BY <1>8, <1>9, <1>10, <1>14 DEF Layer4, AnswersAreTheQuerys

LEMMA Layer4Resume ==
    ASSUME TypeOK, References, Layer1, Layer3, Layer4, NEW w \in PolicyWorkers, ProcessResume(w)
    PROVE  Layer4'
<1>1. PICK t \in SlotId : t = pw[w].slot
  BY DEF References, ProcessResume
<1>2. slotState[t] = "IoWait" /\ pw[w].at = "Resume"
  BY <1>1, ResumeFindsParked DEF ProcessResume
<1>3. /\ slotState' = [slotState EXCEPT ![t] = "Policy"] /\ Step(w, "Resume", "again")
      /\ UNCHANGED <<ing, route, pending, io, resumeCh, queue, sent>>
      /\ txn' = IF pw[w].done = NoOne THEN txn ELSE [txn EXCEPT ![t].resp = pw[w].done]
  BY <1>1, <1>2 DEF ProcessResume, SetState, ioVars
<1>4. OthersKept(w) /\ pw'[w].at = "again" /\ pw'[w].slot = t
  BY <1>1, <1>3, StepEffect, ConstantTypes
<1>5. \A s \in SlotId : slotState'[s] = "IoWait" => slotState[s] = "IoWait"
  BY <1>3 DEF TypeOK, StoreTypeOK
<1>6. /\ \A s \in SlotId : txn'[s].q = txn[s].q
      /\ \A s \in SlotId : s # t => txn'[s].resp = txn[s].resp
      /\ txn'[t].resp \in {txn[t].resp, pw[w].done}
  BY <1>3 DEF TypeOK, TxnRec
<1>7. pw[w].done \in {NoOne, txn[t].q}
  BY <1>1, <1>2 DEF Layer4, AnswersAreTheQuerys, WorkersAreRight
<1>8. \A s \in SlotId : Started(s)' => Started(s)
  BY <1>1, <1>2, <1>3, <1>4, <1>5 DEF Started, HasNew, OthersKept
<1>9. TxnIsTheQuerys'
  <2>1. ASSUME NEW j \in Ingress, NEW s \in SlotId, ing'[j].at \in {"route", "push"}, ing'[j].slot = s
        PROVE  /\ txn'[s].q = ing'[j].q
               /\ ing'[j].at = "push" => route'[s] = [q |-> ing'[j].q, via |-> j]
    <3>1. /\ txn[s].q = ing[j].q
          /\ ing[j].at = "push" => route[s] = [q |-> ing[j].q, via |-> j]
      BY <1>3, <2>1, TxnOfIngress
    <3> QED  BY <1>3, <1>6, <3>1
  <2>2. ASSUME NEW s \in SlotId, Started(s)'
        PROVE  txn'[s].q \in Queries /\ (route'[s] # NoOne => route'[s].q = txn'[s].q)
    BY <1>3, <1>6, <1>8, <2>2 DEF Layer4, TxnIsTheQuerys
  <2>3. \A s \in SlotId : txn'[s].resp \in {NoOne, txn'[s].q}
    <3>1. ASSUME NEW s \in SlotId PROVE txn[s].resp \in {NoOne, txn[s].q}
      BY DEF Layer4, TxnIsTheQuerys
    <3>2. txn'[t].resp \in {NoOne, txn'[t].q}
      BY <1>6, <1>7, <3>1
    <3> QED  BY <1>6, <3>1, <3>2
  <2> QED  BY <2>1, <2>2, <2>3 DEF TxnIsTheQuerys
<1>10. AnswersAreTheQuerys'
  <2>1. sent \subseteq [id : DnsId, q : QueryOrNone]
    BY DEF TypeOK
  <2>2. \A v \in PolicyWorkers, s \in SlotId : pw'[v].slot = s =>
              /\ pw'[v].at = "Resume" => pw'[v] = pw[v]
              /\ pw'[v].at = "deliver" => pw'[v] = pw[v] /\ txn'[s].q = txn[s].q
    BY <1>4, <1>6 DEF OthersKept
  <2> QED  BY <1>3, <1>6, <2>1, <2>2, AnswersQuiet DEF Layer4
<1> QED
  BY <1>9, <1>10 DEF Layer4

\* release_active: the slot's transaction is gone, and nobody refers to it.
LEMMA Layer4Clear ==
    ASSUME TypeOK, References, Layer1, Layer3, Layer4, NEW w \in PolicyWorkers, ReleaseClear(w)
    PROVE  Layer4'
<1>1. pw[w].at = "clear" /\ pw[w].slot \in SlotId /\ pw[w].at \in Holding \ Parking
  BY DEF ReleaseClear, References, Holding, Parking, Sending
<1>2. PICK t \in SlotId : t = pw[w].slot
  BY <1>1
<1>3. ~Woken(t) /\ ~HasNew(t)
  BY <1>1, <1>2, OwnedIsNotWoken DEF Layer1, OneOwner
<1>4. PICK to \in {"return", "unreserve"} : pw' = [pw EXCEPT ![w].at = to]
  BY DEF ReleaseClear
<1>5. OthersKept(w) /\ pw'[w].at = to /\ pw'[w].slot = t
  BY <1>2, <1>4 DEF TypeOK, WorkerRec, OthersKept
<1>6. UNCHANGED <<ing, route, queue, pending, io, resumeCh, sent>>
  BY DEF ReleaseClear, ioVars
<1>7. /\ txn'[t].q = NoOne /\ txn'[t].resp = NoOne /\ slotState'[t] # "IoWait"
      /\ \A s \in SlotId : s # t => txn'[s] = txn[s] /\ slotState'[s] = slotState[s]
  BY <1>2 DEF ReleaseClear, ClearSlot, TypeOK, StoreTypeOK, NoTxn
<1>8. \A v \in PolicyWorkers : v # w /\ pw[v].at \in Holding => pw[v].slot # t
  BY <1>1, <1>2 DEF Layer1, OneOwner
<1>9. pw'[w].at \notin Holding \ {"return"} /\ pw'[w].at \notin {"deliver", "Resume"}
  BY <1>5 DEF Holding, Running, Registering
<1>10. ~Started(t)'
  BY <1>3, <1>5, <1>6, <1>7, <1>8, <1>9 DEF Started, HasNew, OthersKept
<1>11. \A s \in SlotId : s # t => (Started(s)' => Started(s))
  BY <1>5, <1>6, <1>7, <1>9 DEF Started, HasNew, OthersKept
<1>12. \A i \in Ingress : ing[i].at \in IngressHolds => ing[i].slot # t
  BY <1>1, <1>2 DEF Layer1, OneOwner
<1>13. TxnIsTheQuerys'
  <2>1. ASSUME NEW j \in Ingress, NEW s \in SlotId, ing'[j].at \in {"route", "push"}, ing'[j].slot = s
        PROVE  /\ txn'[s].q = ing'[j].q
               /\ ing'[j].at = "push" => route'[s] = [q |-> ing'[j].q, via |-> j]
    <3>1. s # t
      BY <1>6, <1>12, <2>1 DEF IngressHolds
    <3>2. /\ txn[s].q = ing[j].q
          /\ ing[j].at = "push" => route[s] = [q |-> ing[j].q, via |-> j]
      BY <1>6, <2>1, TxnOfIngress
    <3> QED  BY <1>6, <1>7, <3>1, <3>2
  <2>2. ASSUME NEW s \in SlotId, Started(s)'
        PROVE  txn'[s].q \in Queries /\ (route'[s] # NoOne => route'[s].q = txn'[s].q)
    BY <1>6, <1>7, <1>10, <1>11, <2>2 DEF Layer4, TxnIsTheQuerys
  <2>3. \A s \in SlotId : txn'[s].resp \in {NoOne, txn'[s].q}
    BY <1>7 DEF Layer4, TxnIsTheQuerys
  <2> QED  BY <2>1, <2>2, <2>3 DEF TxnIsTheQuerys
<1>14. AnswersAreTheQuerys'
  <2>1. sent \subseteq [id : DnsId, q : QueryOrNone]
    BY DEF TypeOK
  <2>2. \A v \in PolicyWorkers, s \in SlotId : pw'[v].slot = s =>
              /\ pw'[v].at = "Resume" => pw'[v] = pw[v]
              /\ pw'[v].at = "deliver" => pw'[v] = pw[v] /\ txn'[s].q = txn[s].q
    BY <1>5, <1>7, <1>8, <1>9 DEF OthersKept, Holding
  <2>3. \A s \in SlotId : Woken(s) => txn'[s].q = txn[s].q
    BY <1>3, <1>7
  <2> QED  BY <1>6, <2>1, <2>2, <2>3, AnswersQuiet DEF Layer4
<1> QED
  BY <1>13, <1>14 DEF Layer4

LEMMA Layer4Deliver ==
    ASSUME TypeOK, References, Layer1, Layer3, Layer4, NEW w \in PolicyWorkers, DeliverReply(w)
    PROVE  Layer4'
<1>1. OthersKept(w) /\ pw[w].at = "deliver" /\ pw'[w].at = "readpool" /\ pw'[w].slot = pw[w].slot
  BY DeliverEffect
<1>2. PICK t \in SlotId : t = pw[w].slot
  BY <1>1 DEF References, Holding
<1>3. UNCHANGED <<slotState, txn, queue, pending, io, resumeCh, sent>>
  BY DEF DeliverReply, storeVars, ioVars
<1>4. route'[t] = NoOne /\ \A s \in SlotId : s # t => route'[s] = route[s]
  BY <1>2 DEF DeliverReply, TypeOK
<1>5. \A i \in Ingress : ing'[i].at = ing[i].at /\ ing'[i].q = ing[i].q /\ ing'[i].slot = ing[i].slot
  BY DeliverEffect DEF SameIngress
<1>6. \A i \in Ingress : ing[i].at \in IngressHolds => ing[i].slot # t
  BY <1>1, <1>2 DEF Layer1, OneOwner, Holding
<1>7. NoneStarts
  BY <1>1, <1>2, <1>3 DEF NoneStarts, Started, HasNew, OthersKept, Holding
<1>8. TxnIsTheQuerys'
  <2>1. \A i \in Ingress : ing'[i].at \in {"route", "push"} =>
              \A s \in SlotId : ing[i].slot = s => route'[s] = route[s]
    BY <1>4, <1>5, <1>6 DEF IngressHolds
  <2> QED  BY <1>3, <1>4, <1>5, <1>7, <2>1, TxnQuiet DEF Layer4, SameTxns, FewerRoutes
<1>9. AnswersAreTheQuerys'
  <2>1. sent \subseteq [id : DnsId, q : QueryOrNone]
    BY DEF TypeOK
  <2>2. \A v \in PolicyWorkers, s \in SlotId : pw'[v].slot = s =>
              /\ pw'[v].at = "Resume" => pw'[v] = pw[v]
              /\ pw'[v].at = "deliver" => pw'[v] = pw[v] /\ txn'[s].q = txn[s].q
    BY <1>1, <1>3 DEF OthersKept
  <2> QED  BY <1>3, <2>1, <2>2, AnswersQuiet DEF Layer4
<1> QED
  BY <1>8, <1>9 DEF Layer4


LEMMA Layer4Track ==
    ASSUME TypeOK, References, Layer2, Layer4, NEW w \in PolicyWorkers, Step(w, "track", "send"),
           pending' = [pending EXCEPT ![pw[w].key] = pw[w].slot],
           UNCHANGED <<ing, txn, route, io, resumeCh, queue, sent, slotState>>
    PROVE  Layer4'
<1>1. /\ OthersKept(w) /\ pw[w].at = "track" /\ pw'[w].at = "send" /\ pw'[w].slot = pw[w].slot
  BY StepEffect, ConstantTypes
<1>2. pw[w].key \in DnsId /\ pw[w].at \in Registering
  BY <1>1 DEF References, Registering
<1>3. \A k \in DnsId : k # pw[w].key => pending'[k] = pending[k]
  BY <1>2 DEF TypeOK
<1>4. NoneStarts
  BY <1>1 DEF NoneStarts, Started, HasNew, OthersKept, Holding, Running, Registering
<1>5. TxnIsTheQuerys'
  BY <1>4, TxnQuiet DEF Layer4, SameTxns, FewerRoutes
<1>6. \A m \in sent : m.id # pw[w].key /\ m.id \in DnsId
  BY <1>2 DEF Layer2, KeyIsNotSent, TypeOK
<1>7. \A s \in SlotId : SentIsRight(s)'
  BY <1>3, <1>6 DEF Layer4, AnswersAreTheQuerys, SentIsRight
<1>8. \A s \in SlotId : IoIsRight(s)' /\ ChannelIsRight(s)' /\ QueueIsRight(s)'
  BY DEF Layer4, AnswersAreTheQuerys, IoIsRight, ChannelIsRight, QueueIsRight
<1>9. \A s \in SlotId : WorkersAreRight(s)'
  BY <1>1, SMT DEF Layer4, AnswersAreTheQuerys, WorkersAreRight, OthersKept
<1> QED
  BY <1>5, <1>7, <1>8, <1>9 DEF Layer4, AnswersAreTheQuerys

LEMMA Layer4Send ==
    ASSUME TypeOK, References, Layer2, Layer4, NEW w \in PolicyWorkers, Step(w, "send", "park"),
           sent' = sent \cup {[id |-> pw[w].key, q |-> Txn(w).q]},
           UNCHANGED <<ing, txn, route, io, resumeCh, queue, pending, slotState>>
    PROVE  Layer4'
<1>1. /\ OthersKept(w) /\ pw[w].at = "send" /\ pw'[w].at = "park" /\ pw'[w].slot = pw[w].slot
  BY StepEffect, ConstantTypes
<1>2. pw[w].at \in Sending
  BY <1>1 DEF Sending
<1>3. pending[pw[w].key] = pw[w].slot
  BY <1>2 DEF Layer2, TableFollowsWorker
<1>4. NoneStarts
  BY <1>1 DEF NoneStarts, Started, HasNew, OthersKept, Holding, Running, Registering
<1>5. TxnIsTheQuerys'
  BY <1>4, TxnQuiet DEF Layer4, SameTxns, FewerRoutes
<1>6. \A s \in SlotId : SentIsRight(s)'
  BY <1>3, SMT DEF Layer4, AnswersAreTheQuerys, SentIsRight, Txn
<1>7. \A s \in SlotId : IoIsRight(s)' /\ ChannelIsRight(s)' /\ QueueIsRight(s)'
  BY DEF Layer4, AnswersAreTheQuerys, IoIsRight, ChannelIsRight, QueueIsRight
<1>8. \A s \in SlotId : WorkersAreRight(s)'
  BY <1>1, SMT DEF Layer4, AnswersAreTheQuerys, WorkersAreRight, OthersKept
<1> QED
  BY <1>5, <1>6, <1>7, <1>8 DEF Layer4, AnswersAreTheQuerys

LEMMA Layer4Complete ==
    ASSUME TypeOK, Layer4, NEW k \in DnsId, NEW done, IoComplete(k, done),
           done = NoOne \/ \E m \in sent : m.id = k /\ m.q = done
    PROVE  Layer4'
<1>1. PICK t \in SlotId : t = pending[k]
  BY DEF IoComplete, TypeOK, SlotOrNone
<1>2. /\ UNCHANGED <<ing, txn, route, pw, resumeCh, queue, sent, slotState>>
      /\ io'.slot = t /\ io'.done = done
  BY <1>1 DEF IoComplete, storeVars, threadVars
<1>3. pending'[k] = NoOne /\ \A j \in DnsId : j # k => pending'[j] = pending[j]
  BY DEF IoComplete, TypeOK
<1>4. NoneStarts
  BY <1>2 DEF NoneStarts, Started, HasNew
<1>5. TxnIsTheQuerys'
  BY <1>2, <1>4, TxnQuiet DEF Layer4, SameTxns, FewerRoutes
<1>6. done \in {NoOne, txn[t].q}
  BY <1>1 DEF Layer4, AnswersAreTheQuerys, SentIsRight
<1>7. \A s \in SlotId : IoIsRight(s)'
  BY <1>2, <1>6 DEF IoIsRight
<1>8. \A s \in SlotId : SentIsRight(s)'
  <2>1. \A m \in sent : m.id \in DnsId
    BY DEF TypeOK
  <2>2. ASSUME NEW s \in SlotId, NEW m \in sent, pending'[m.id] = s PROVE m.q = txn[s].q
    <3>1. m.id # k
      BY <1>3, <2>2, NoOneIsNoSlot
    <3>2. pending[m.id] = s
      BY <1>3, <2>1, <2>2, <3>1
    <3> QED  BY <3>2 DEF Layer4, AnswersAreTheQuerys, SentIsRight
  <2> QED  BY <1>2, <2>2 DEF SentIsRight
<1>9. \A s \in SlotId : ChannelIsRight(s)' /\ QueueIsRight(s)' /\ WorkersAreRight(s)'
  BY <1>2 DEF Layer4, AnswersAreTheQuerys, ChannelIsRight, QueueIsRight, WorkersAreRight
<1> QED
  BY <1>5, <1>7, <1>8, <1>9 DEF Layer4, AnswersAreTheQuerys

LEMMA Layer4SendResume ==
    ASSUME TypeOK, References, Layer4, IoSendResume
    PROVE  Layer4'
<1>1. PICK t \in SlotId : t = io.slot
  BY DEF References, IoSendResume
<1>2. PICK e \in ResumeRec : e = [slot |-> io.slot, done |-> io.done]
  BY <1>1 DEF TypeOK, IoRec, ResumeRec
<1>3. /\ UNCHANGED <<ing, txn, route, pw, pending, queue, sent, slotState>>
      /\ io.at # "idle" /\ io'.at = "idle" /\ resumeCh' = Append(resumeCh, e)
  BY <1>2 DEF IoSendResume, storeVars, threadVars, IdleIo
<1>4. /\ Len(resumeCh) \in Nat /\ Len(resumeCh') = Len(resumeCh) + 1
      /\ resumeCh'[Len(resumeCh) + 1] = e
      /\ \A n \in 1 .. Len(resumeCh) : resumeCh'[n] = resumeCh[n]
  <2>1. resumeCh \in Seq(ResumeRec) /\ e \in ResumeRec
    BY <1>2 DEF TypeOK
  <2>2. /\ Len(resumeCh) \in Nat /\ Len(Append(resumeCh, e)) = Len(resumeCh) + 1
        /\ Append(resumeCh, e)[Len(resumeCh) + 1] = e
        /\ \A n \in 1 .. Len(resumeCh) : Append(resumeCh, e)[n] = resumeCh[n]
    BY <2>1, AppendToSeq, SMT
  <2> QED  BY <1>3, <2>2
<1>5. \A n \in 1 .. Len(resumeCh') : n \in 1 .. Len(resumeCh) \/ n = Len(resumeCh) + 1
  BY <1>4, PositionsPlus
<1>6. NoneStarts
  BY <1>3 DEF NoneStarts, Started, HasNew
<1>7. TxnIsTheQuerys'
  BY <1>3, <1>6, TxnQuiet DEF Layer4, SameTxns, FewerRoutes
<1>8. e.slot = t /\ e.done \in {NoOne, txn[t].q}
  BY <1>1, <1>2, <1>3 DEF Layer4, AnswersAreTheQuerys, IoIsRight
<1>9. \A s \in SlotId : ChannelIsRight(s)'
  <2>1. \A s \in SlotId : ChannelIsRight(s)
    BY DEF Layer4, AnswersAreTheQuerys
  <2>2. ASSUME NEW s \in SlotId, NEW n \in 1 .. Len(resumeCh'), resumeCh'[n].slot = s
        PROVE  resumeCh'[n].done \in {NoOne, txn[s].q}
    <3>1. CASE n = Len(resumeCh) + 1
      BY <1>4, <1>8, <2>2, <3>1
    <3>2. CASE n \in 1 .. Len(resumeCh)
      BY <1>4, <2>1, <2>2, <3>2 DEF ChannelIsRight
    <3> QED  BY <1>5, <3>1, <3>2
  <2> QED  BY <1>3, <2>2 DEF ChannelIsRight
<1>10. \A s \in SlotId : SentIsRight(s)' /\ IoIsRight(s)' /\ QueueIsRight(s)' /\ WorkersAreRight(s)'
  BY <1>3 DEF Layer4, AnswersAreTheQuerys, SentIsRight, IoIsRight, QueueIsRight, WorkersAreRight
<1> QED
  BY <1>7, <1>9, <1>10 DEF Layer4, AnswersAreTheQuerys

LEMMA Layer4Forward ==
    ASSUME TypeOK, Layer1, Layer4, ForwardResume
    PROVE  Layer4'
<1>1. /\ Head(resumeCh) \in ResumeRec /\ Head(resumeCh) = resumeCh[1]
      /\ Len(resumeCh) \in Nat \ {0} /\ Len(resumeCh') = Len(resumeCh) - 1
      /\ \A n \in 1 .. Len(resumeCh') : resumeCh'[n] = resumeCh[n + 1]
  BY TailOfSeq DEF TypeOK, ForwardResume
<1>2. PICK t \in SlotId : t = Head(resumeCh).slot
  BY <1>1 DEF ResumeRec
<1>3. PICK e \in Item : e = Resume(Head(resumeCh).done)
  BY <1>1 DEF ResumeRec, Item, Resume
<1>4. e.kind # "New" /\ e.done = Head(resumeCh).done
  BY <1>3 DEF Resume
<1>5. /\ UNCHANGED <<ing, txn, route, pw, pending, io, sent, slotState>>
      /\ queue' = [queue EXCEPT ![t] = Append(@, e)]
  BY <1>2, <1>3 DEF ForwardResume, storeVars, threadVars
<1>6. /\ \A s \in SlotId : s # t => queue'[s] = queue[s]
      /\ Len(queue[t]) \in Nat /\ Len(queue'[t]) = Len(queue[t]) + 1
      /\ queue'[t][Len(queue[t]) + 1] = e
      /\ \A n \in 1 .. Len(queue[t]) : queue'[t][n] = queue[t][n]
  BY <1>5, PushItem
<1>7. 1 \in 1 .. Len(resumeCh) /\ \A n \in 1 .. Len(resumeCh') : n + 1 \in 1 .. Len(resumeCh)
  BY <1>1, PositionsMinus
<1>8. \A n \in 1 .. Len(queue'[t]) : n \in 1 .. Len(queue[t]) \/ n = Len(queue[t]) + 1
  BY <1>6, PositionsPlus
<1>9. NoneStarts
  <2>1. SameNews
    BY <1>4, <1>5, PushResumeNews DEF Layer1
  <2> QED  BY <1>5, <2>1 DEF NoneStarts, Started, SameNews
<1>10. TxnIsTheQuerys'
  BY <1>5, <1>9, TxnQuiet DEF Layer4, SameTxns, FewerRoutes
<1>11. \A s \in SlotId : ChannelIsRight(s) /\ QueueIsRight(s)
  BY DEF Layer4, AnswersAreTheQuerys
<1>12. e.done \in {NoOne, txn[t].q}
  <2>1. resumeCh[1].slot = t => resumeCh[1].done \in {NoOne, txn[t].q}
    BY <1>7, <1>11 DEF ChannelIsRight
  <2> QED  BY <1>1, <1>2, <1>4, <2>1
<1>13. QueueIsRight(t)'
  BY <1>5, <1>6, <1>8, <1>11, <1>12 DEF QueueIsRight
<1>14. \A s \in SlotId : QueueIsRight(s)'
  BY <1>5, <1>6, <1>11, <1>13 DEF QueueIsRight
<1>15. \A s \in SlotId : ChannelIsRight(s)'
  BY <1>1, <1>5, <1>7, <1>11 DEF ChannelIsRight
<1>16. \A s \in SlotId : SentIsRight(s)' /\ IoIsRight(s)' /\ WorkersAreRight(s)'
  BY <1>5 DEF Layer4, AnswersAreTheQuerys, SentIsRight, IoIsRight, WorkersAreRight
<1> QED
  BY <1>10, <1>14, <1>15, <1>16 DEF Layer4, AnswersAreTheQuerys

\* Finished: what a worker delivers is the answer to the slot's own query.
LEMMA SendWireIsRight ==
    ASSUME Layer4, NEW w \in PolicyWorkers, pw[w].slot \in SlotId
    PROVE  SendWire(w) = txn[pw[w].slot].q
  BY DEF Layer4, TxnIsTheQuerys, SendWire, Txn


\* A step that touches no transaction, no worker and no answer.
LEMMA Layer4Same ==
    ASSUME TypeOK, Layer3, Layer4, UNCHANGED <<txn, route, queue, pw, pending, io, resumeCh>>,
           sent' \subseteq sent, \A s \in SlotId : slotState'[s] = "IoWait" => slotState[s] = "IoWait",
           \A i \in Ingress : ing'[i].at \in {"route", "push"} => ing'[i] = ing[i]
    PROVE  Layer4'
<1>1. NoneStarts
  BY DEF NoneStarts, Started, HasNew
<1>2. TxnIsTheQuerys'
  BY <1>1, TxnQuiet DEF Layer4, SameTxns, FewerRoutes
<1>3. sent \subseteq [id : DnsId, q : QueryOrNone]
  BY DEF TypeOK
<1>4. AnswersAreTheQuerys'
  BY <1>3, AnswersQuiet DEF Layer4
<1> QED
  BY <1>2, <1>4 DEF Layer4

LEMMA Layer4Step ==
    ASSUME TypeOK, References, Layer1, Layer2, Layer3, Layer4, [Next]_vars
    PROVE  Layer4'
<1> USE DEF ioVars
<1>1. ASSUME NEW i \in Ingress, IngressPublish(i) PROVE Layer4'
  <2>1. UNCHANGED <<txn, route, queue, pw, pending, io, resumeCh, sent>>
    BY <1>1 DEF IngressPublish
  <2>2. OtherIngressKept(i) /\ ing'[i].at = "setup"
    BY <1>1, IngressEffect, ConstantTypes DEF IngressPublish
  <2>3. \A s \in SlotId : slotState'[s] = "IoWait" => slotState[s] = "IoWait"
    BY <1>1 DEF IngressPublish, PublishIngress, TypeOK, StoreTypeOK
  <2> QED  BY <2>1, <2>2, <2>3, Layer4Same DEF OtherIngressKept
<1>2. ASSUME NEW i \in Ingress, IngressSetup(i) PROVE Layer4'
  BY <1>2, Layer4Setup
<1>3. ASSUME NEW i \in Ingress, IngressRoute(i) PROVE Layer4'
  BY <1>3, Layer4Route
<1>4. ASSUME NEW i \in Ingress, IngressPush(i) PROVE Layer4'
  BY <1>4, Layer4Push
<1>5. ASSUME NEW i \in Ingress, IngressAwait(i) PROVE Layer4'
  <2>1. OtherIngressKept(i) /\ ing'[i].at = "recv"
    BY <1>5, IdleIngressEffect DEF IngressAwait
  <2> QED  BY <1>5, <2>1, Layer4Same DEF IngressAwait, storeVars, OtherIngressKept
<1>6. ASSUME NEW i \in Ingress, NEW q \in Queries, IngressAcquire(i, q) PROVE Layer4'
  <2>1. UNCHANGED <<slotState, txn, route, queue, pw, pending, io, resumeCh, sent>>
    BY <1>6 DEF IngressAcquire, PopFree, storeVars
  <2>2. \A j \in Ingress : ing'[j].at \in {"route", "push"} => ing'[j] = ing[j]
    BY <1>6, SMT DEF IngressAcquire, TypeOK
  <2> QED  BY <2>1, <2>2, Layer4Same
<1>7. ASSUME NEW w \in PolicyWorkers, NEW s \in SlotId, Pop(w, s) PROVE Layer4'
  BY <1>7, Layer4Pop
<1>8. ASSUME NEW w \in PolicyWorkers, ProcessNew(w) PROVE Layer4'
  <2>1. pw[w].at = "New" /\ UNCHANGED <<ing, txn, route, pending, io, resumeCh, queue, sent>>
    BY <1>8 DEF ProcessNew
  <2>2. slotState[pw[w].slot] = "Ingress"
    BY <2>1 DEF Layer1, StateIsTheOwners
  <2>3. Step(w, "New", "first") /\ slotState' = [slotState EXCEPT ![pw[w].slot] = "Policy"]
    BY <1>8, <2>2 DEF ProcessNew, SetState
  <2>4. OthersKept(w) /\ pw'[w].at = "first" /\ pw'[w].slot = pw[w].slot
    BY <2>3, StepEffect, ConstantTypes
  <2>5. \A s \in SlotId : slotState'[s] = "IoWait" => slotState[s] = "IoWait"
    BY <2>3 DEF TypeOK, StoreTypeOK
  <2> QED  BY <2>1, <2>4, <2>5, Layer4Works DEF SameTxns, Holding, Running, Registering
<1>9. ASSUME NEW w \in PolicyWorkers, ProcessResume(w) PROVE Layer4'
  BY <1>9, Layer4Resume
<1>10. ASSUME NEW w \in PolicyWorkers, RunBegin(w) PROVE Layer4'
  <2>1. /\ pw[w].at \in Holding \ {"return"}
        /\ UNCHANGED <<ing, route, pending, io, resumeCh, queue, sent, slotState>>
    BY <1>10 DEF RunBegin, Holding, storeVars
  <2>2. PICK to \in {"request", "response", "readpool"} : pw' = [pw EXCEPT ![w].at = to]
    BY <1>10 DEF RunBegin
  <2>3. OthersKept(w) /\ pw'[w].at = to /\ pw'[w].slot = pw[w].slot
    BY <2>2 DEF TypeOK, WorkerRec, OthersKept
  <2>4. SameTxns
    <3>1. PICK t \in SlotId : t = pw[w].slot
      BY <2>1 DEF References
    <3>2. \/ UNCHANGED txn
          \/ txn' = [txn EXCEPT ![t] = [@ EXCEPT !.gen = gen]]
          \/ txn' = [txn EXCEPT ![t] = [@ EXCEPT !.mixed = Txn(w).mixed \/ gen # Txn(w).gen]]
      BY <1>10, <3>1 DEF RunBegin
    <3>3. CASE UNCHANGED txn
      BY <3>3 DEF SameTxns
    <3>4. ASSUME NEW g, txn' = [txn EXCEPT ![t] = [@ EXCEPT !.gen = g]] PROVE SameTxns
      BY <3>4 DEF SameTxns, TypeOK, TxnRec
    <3>5. ASSUME NEW b, txn' = [txn EXCEPT ![t] = [@ EXCEPT !.mixed = b]] PROVE SameTxns
      BY <3>5 DEF SameTxns, TypeOK, TxnRec
    <3> QED  BY <3>2, <3>3, <3>4, <3>5
  <2> QED  BY <2>1, <2>3, <2>4, Layer4Works
<1>11. ASSUME NEW w \in PolicyWorkers, RunRequest(w) PROVE Layer4'
  <2>1. pw[w].slot \in SlotId /\ pw[w].at \in Holding \ {"return"}
    BY <1>11 DEF RunRequest, References, Holding, Running, Registering
  <2>2. SendWire(w) \in QueryOrNone /\ SendWire(w) = txn[pw[w].slot].q /\ NoOne \in QueryOrNone
    BY <2>1, SendWireType, SendWireIsRight, ConstantTypes
  <2>3. ASSUME NEW out \in {NoOne, SendWire(w)}, Finish(w, out)
        PROVE  /\ OthersKept(w) /\ pw'[w].at \in {"readpool", "deliver"}
               /\ pw'[w].slot = pw[w].slot
               /\ pw'[w].at = "deliver" => pw'[w].out = txn[pw[w].slot].q
    <3>1. /\ OthersKept(w) /\ pw'[w].at \in {"readpool", "deliver"}
          /\ pw'[w].slot = pw[w].slot /\ pw'[w].out = out /\ (out = NoOne => pw'[w].at = "readpool")
      BY <2>1, <2>2, <2>3, FinishEffect
    <3> QED  BY <2>2, <2>3, <3>1
  <2>4. SameTxns /\ UNCHANGED <<ing, route, pending, io, resumeCh, queue, sent, slotState>>
    <3>1. UNCHANGED <<ing, route, pending, io, resumeCh, queue, sent, slotState>>
      BY <1>11 DEF RunRequest, storeVars
    <3>2. PICK t \in SlotId : t = pw[w].slot
      BY <2>1
    <3>3. PICK p \in BOOLEAN : txn' = [txn EXCEPT ![t].pool = p]
      BY <1>11, <3>2 DEF RunRequest
    <3> QED  BY <3>1, <3>3 DEF SameTxns, TypeOK, TxnRec
  <2>5. CASE Step(w, "request", "forward")
    <3>1. OthersKept(w) /\ pw'[w].at = "forward" /\ pw'[w].slot = pw[w].slot
      BY <2>5, StepEffect, ConstantTypes
    <3> QED  BY <2>1, <2>4, <3>1, Layer4Works
  <2>6. ASSUME NEW out \in {NoOne, SendWire(w)}, Finish(w, out) PROVE Layer4'
    BY <2>1, <2>3, <2>4, <2>6, Layer4Works
  <2> QED  BY <1>11, <2>5, <2>6 DEF RunRequest
<1>12. ASSUME NEW w \in PolicyWorkers, RunResponse(w) PROVE Layer4'
  <2>1. pw[w].slot \in SlotId /\ pw[w].at \in Holding \ {"return"}
    BY <1>12 DEF RunResponse, References, Holding, Running, Registering
  <2>2. SendWire(w) \in QueryOrNone /\ SendWire(w) = txn[pw[w].slot].q /\ NoOne \in QueryOrNone
    BY <2>1, SendWireType, SendWireIsRight, ConstantTypes
  <2>3. ASSUME NEW out \in {NoOne, SendWire(w)}, Finish(w, out)
        PROVE  /\ OthersKept(w) /\ pw'[w].at \in {"readpool", "deliver"}
               /\ pw'[w].slot = pw[w].slot
               /\ pw'[w].at = "deliver" => pw'[w].out = txn[pw[w].slot].q
    <3>1. /\ OthersKept(w) /\ pw'[w].at \in {"readpool", "deliver"}
          /\ pw'[w].slot = pw[w].slot /\ pw'[w].out = out /\ (out = NoOne => pw'[w].at = "readpool")
      BY <2>1, <2>2, <2>3, FinishEffect
    <3> QED  BY <2>2, <2>3, <3>1
  <2>4. SameTxns /\ UNCHANGED <<ing, route, pending, io, resumeCh, queue, sent, slotState>>
    BY <1>12 DEF RunResponse, storeVars, SameTxns
  <2>5. CASE Step(w, "response", "forward")
    <3>1. OthersKept(w) /\ pw'[w].at = "forward" /\ pw'[w].slot = pw[w].slot
      BY <2>5, StepEffect, ConstantTypes
    <3> QED  BY <2>1, <2>4, <3>1, Layer4Works
  <2>6. ASSUME NEW out \in {NoOne, SendWire(w)}, Finish(w, out) PROVE Layer4'
    BY <2>1, <2>3, <2>4, <2>6, Layer4Works
  <2> QED  BY <1>12, <2>5, <2>6 DEF RunResponse
<1>13. ASSUME NEW w \in PolicyWorkers, RegisterKey(w) PROVE Layer4'
  <2>1. pw[w].slot \in SlotId /\ pw[w].at \in Holding \ {"return"}
    BY <1>13 DEF RegisterKey, References, Holding, Running, Registering
  <2>2. SendWire(w) \in QueryOrNone /\ SendWire(w) = txn[pw[w].slot].q /\ NoOne \in QueryOrNone
    BY <2>1, SendWireType, SendWireIsRight, ConstantTypes
  <2>3. ASSUME NEW out \in {NoOne, SendWire(w)}, Finish(w, out)
        PROVE  /\ OthersKept(w) /\ pw'[w].at \in {"readpool", "deliver"}
               /\ pw'[w].slot = pw[w].slot
               /\ pw'[w].at = "deliver" => pw'[w].out = txn[pw[w].slot].q
    <3>1. /\ OthersKept(w) /\ pw'[w].at \in {"readpool", "deliver"}
          /\ pw'[w].slot = pw[w].slot /\ pw'[w].out = out /\ (out = NoOne => pw'[w].at = "readpool")
      BY <2>1, <2>2, <2>3, FinishEffect
    <3> QED  BY <2>2, <2>3, <3>1
  <2>4. SameTxns /\ UNCHANGED <<ing, route, pending, io, resumeCh, queue, sent, slotState>>
    <3>1. UNCHANGED <<ing, route, pending, io, resumeCh, queue, sent, slotState>>
      BY <1>13 DEF RegisterKey, storeVars
    <3>2. PICK t \in SlotId : t = pw[w].slot
      BY <2>1
    <3>3. \/ UNCHANGED txn
          \/ txn' = [txn EXCEPT ![t].tries = @ + 1, ![t].pool = TRUE]
      BY <1>13, <3>2 DEF RegisterKey
    <3>4. CASE UNCHANGED txn
      BY <3>1, <3>4 DEF SameTxns
    <3>5. CASE txn' = [txn EXCEPT ![t].tries = @ + 1, ![t].pool = TRUE]
      BY <3>1, <3>5 DEF SameTxns, TypeOK, TxnRec
    <3> QED  BY <3>3, <3>4, <3>5
  <2>5. CASE Finish(w, SendWire(w))
    BY <2>1, <2>3, <2>4, <2>5, Layer4Works
  <2>6. ASSUME NEW k \in DnsId, pw' = [pw EXCEPT ![w].at = "reserve", ![w].key = k]
        PROVE  Layer4'
    <3>1. OthersKept(w) /\ pw'[w].at = "reserve" /\ pw'[w].slot = pw[w].slot
      BY <2>6 DEF TypeOK, WorkerRec, OthersKept
    <3> QED  BY <2>1, <2>4, <3>1, Layer4Works
  <2> QED  BY <1>13, <2>5, <2>6 DEF RegisterKey
<1>14. ASSUME NEW w \in PolicyWorkers, TryAcquire(w) PROVE Layer4'
  <2>1. UNCHANGED <<ing, route, io, resumeCh, queue, sent, pending, slotState, txn>>
    BY <1>14 DEF TryAcquire, storeVars
  <2>2. CASE Step(w, "reserve", "track")
    <3>1. /\ OthersKept(w) /\ pw[w].at = "reserve" /\ pw'[w].at = "track"
          /\ pw'[w].slot = pw[w].slot
      BY <2>2, StepEffect, ConstantTypes
    <3> QED  BY <2>1, <3>1, Layer4Works DEF SameTxns, Holding, Running, Registering
  <2>3. CASE Step(w, "reserve", "refuse")
    <3>1. /\ OthersKept(w) /\ pw[w].at = "reserve" /\ pw'[w].at = "refuse"
          /\ pw'[w].slot = pw[w].slot
      BY <2>3, StepEffect, ConstantTypes
    <3> QED  BY <2>1, <3>1, Layer4Works DEF SameTxns, Holding, Running, Registering
  <2> QED  BY <1>14, <2>2, <2>3 DEF TryAcquire
<1>15. ASSUME NEW w \in PolicyWorkers, RefuseAtCap(w) PROVE Layer4'
  <2>1. pw[w].slot \in SlotId /\ pw[w].at \in Holding \ {"return"}
    BY <1>15 DEF RefuseAtCap, References, Holding, Running, Registering
  <2>2. SendWire(w) \in QueryOrNone /\ SendWire(w) = txn[pw[w].slot].q /\ NoOne \in QueryOrNone
    BY <2>1, SendWireType, SendWireIsRight, ConstantTypes
  <2>3. ASSUME NEW out \in {NoOne, SendWire(w)}, Finish(w, out)
        PROVE  /\ OthersKept(w) /\ pw'[w].at \in {"readpool", "deliver"}
               /\ pw'[w].slot = pw[w].slot
               /\ pw'[w].at = "deliver" => pw'[w].out = txn[pw[w].slot].q
    <3>1. /\ OthersKept(w) /\ pw'[w].at \in {"readpool", "deliver"}
          /\ pw'[w].slot = pw[w].slot /\ pw'[w].out = out /\ (out = NoOne => pw'[w].at = "readpool")
      BY <2>1, <2>2, <2>3, FinishEffect
    <3> QED  BY <2>2, <2>3, <3>1
  <2>4. UNCHANGED <<ing, txn, route, pending, io, resumeCh, queue, sent, slotState>>
    BY <1>15 DEF RefuseAtCap, storeVars
  <2>5. Finish(w, SendWire(w))
    BY <1>15 DEF RefuseAtCap
  <2> QED  BY <2>1, <2>3, <2>4, <2>5, Layer4Works DEF SameTxns
<1>16. ASSUME NEW w \in PolicyWorkers, TrackPending(w) PROVE Layer4'
  <2>1. pw[w].slot \in SlotId /\ pw[w].at \in Holding \ {"return"}
    BY <1>16 DEF TrackPending, References, Holding, Running, Registering
  <2>2. SendWire(w) \in QueryOrNone /\ SendWire(w) = txn[pw[w].slot].q /\ NoOne \in QueryOrNone
    BY <2>1, SendWireType, SendWireIsRight, ConstantTypes
  <2>3. ASSUME NEW out \in {NoOne, SendWire(w)}, Finish(w, out)
        PROVE  /\ OthersKept(w) /\ pw'[w].at \in {"readpool", "deliver"}
               /\ pw'[w].slot = pw[w].slot
               /\ pw'[w].at = "deliver" => pw'[w].out = txn[pw[w].slot].q
    <3>1. /\ OthersKept(w) /\ pw'[w].at \in {"readpool", "deliver"}
          /\ pw'[w].slot = pw[w].slot /\ pw'[w].out = out /\ (out = NoOne => pw'[w].at = "readpool")
      BY <2>1, <2>2, <2>3, FinishEffect
    <3> QED  BY <2>2, <2>3, <3>1
  <2>4. UNCHANGED <<ing, txn, route, io, resumeCh, queue, sent, slotState>>
    BY <1>16 DEF TrackPending, storeVars
  <2>5. CASE Step(w, "track", "send") /\ pending' = [pending EXCEPT ![pw[w].key] = pw[w].slot]
    BY <2>4, <2>5, Layer4Track
  <2>6. CASE Finish(w, SendWire(w)) /\ UNCHANGED pending
    BY <2>1, <2>3, <2>4, <2>6, Layer4Works DEF SameTxns
  <2> QED  BY <1>16, <2>5, <2>6 DEF TrackPending
<1>17. ASSUME NEW w \in PolicyWorkers, SendUpstream(w) PROVE Layer4'
  <2>1. UNCHANGED <<ing, txn, route, io, resumeCh, queue, pending, slotState>>
    BY <1>17 DEF SendUpstream, storeVars
  <2>2. CASE Step(w, "send", "park") /\ sent' = sent \cup {[id |-> pw[w].key, q |-> Txn(w).q]}
    BY <2>1, <2>2, Layer4Send
  <2>3. CASE Step(w, "send", "unregister") /\ UNCHANGED sent
    <3>1. /\ OthersKept(w) /\ pw[w].at = "send" /\ pw'[w].at = "unregister"
          /\ pw'[w].slot = pw[w].slot
      BY <2>3, StepEffect, ConstantTypes
    <3> QED  BY <2>1, <2>3, <3>1, Layer4Works DEF SameTxns, Holding, Running, Registering
  <2> QED  BY <1>17, <2>2, <2>3 DEF SendUpstream
<1>18. ASSUME NEW w \in PolicyWorkers, Unregister(w) PROVE Layer4'
  <2>1. UNCHANGED <<ing, route, io, resumeCh, queue, sent, pending, slotState, txn>>
    BY <1>18 DEF Unregister, storeVars
  <2>2. CASE Step(w, "unregister", "cancel")
    <3>1. /\ OthersKept(w) /\ pw[w].at = "unregister" /\ pw'[w].at = "cancel"
          /\ pw'[w].slot = pw[w].slot
      BY <2>2, StepEffect, ConstantTypes
    <3> QED  BY <2>1, <3>1, Layer4Works DEF SameTxns, Holding, Running, Registering
  <2> QED  BY <1>18, <2>2 DEF Unregister
<1>19. ASSUME NEW w \in PolicyWorkers, CancelPending(w) PROVE Layer4'
  <2>1. pw[w].slot \in SlotId /\ pw[w].at \in Holding \ {"return"}
    BY <1>19 DEF CancelPending, References, Holding, Running, Registering
  <2>2. SendWire(w) \in QueryOrNone /\ SendWire(w) = txn[pw[w].slot].q /\ NoOne \in QueryOrNone
    BY <2>1, SendWireType, SendWireIsRight, ConstantTypes
  <2>3. ASSUME NEW out \in {NoOne, SendWire(w)}, Finish(w, out)
        PROVE  /\ OthersKept(w) /\ pw'[w].at \in {"readpool", "deliver"}
               /\ pw'[w].slot = pw[w].slot
               /\ pw'[w].at = "deliver" => pw'[w].out = txn[pw[w].slot].q
    <3>1. /\ OthersKept(w) /\ pw'[w].at \in {"readpool", "deliver"}
          /\ pw'[w].slot = pw[w].slot /\ pw'[w].out = out /\ (out = NoOne => pw'[w].at = "readpool")
      BY <2>1, <2>2, <2>3, FinishEffect
    <3> QED  BY <2>2, <2>3, <3>1
  <2>4. UNCHANGED <<ing, txn, route, io, resumeCh, queue, sent, slotState>>
    BY <1>19 DEF CancelPending, storeVars
  <2>5. Finish(w, SendWire(w))
    BY <1>19 DEF CancelPending
  <2>6. \A k \in DnsId : pending'[k] = pending[k] \/ pending'[k] = NoOne
    BY <1>19 DEF CancelPending, TypeOK
  <2> QED  BY <2>1, <2>3, <2>4, <2>5, <2>6, Layer4Works DEF SameTxns
<1>20. ASSUME NEW w \in PolicyWorkers, Park(w) PROVE Layer4'
  <2>1. OthersKept(w) /\ pw'[w].at = "idle" /\ pw[w].at = "park"
    BY <1>20, IdleEffect DEF Park
  <2>2. UNCHANGED <<ing, route, txn, pending, io, resumeCh, queue, sent>>
    BY <1>20 DEF Park
  <2>3. \A s \in SlotId : slotState'[s] = "IoWait" => slotState[s] = "IoWait" \/ pw[w].slot = s
    BY <1>20 DEF Park, SetState, TypeOK, StoreTypeOK
  <2> QED  BY <2>1, <2>2, <2>3, Layer4Works DEF SameTxns, Holding, Running, Registering
<1>21. ASSUME NEW w \in PolicyWorkers, DeliverReply(w) PROVE Layer4'
  BY <1>21, Layer4Deliver
<1>22. ASSUME NEW w \in PolicyWorkers, ReadPool(w) PROVE Layer4'
  <2>1. /\ pw[w].at \in Holding \ {"return"}
        /\ UNCHANGED <<ing, route, txn, pending, io, resumeCh, queue, sent, slotState>>
    BY <1>22 DEF ReadPool, Holding, storeVars
  <2>2. PICK held \in BOOLEAN : pw' = [pw EXCEPT ![w].at = "clear", ![w].pool = held]
    BY <1>22 DEF ReadPool
  <2>3. OthersKept(w) /\ pw'[w].at = "clear" /\ pw'[w].slot = pw[w].slot
    BY <2>2 DEF TypeOK, WorkerRec, OthersKept
  <2> QED  BY <2>1, <2>3, Layer4Works DEF SameTxns
<1>23. ASSUME NEW w \in PolicyWorkers, ReleaseClear(w) PROVE Layer4'
  BY <1>23, Layer4Clear
<1>24. ASSUME NEW w \in PolicyWorkers, ReleaseReturn(w) PROVE Layer4'
  <2>1. UNCHANGED <<ing, route, io, resumeCh, queue, sent, pending, slotState, txn>>
    BY <1>24 DEF ReleaseReturn, storeVars, ReturnToFree
  <2>2. CASE Step(w, "return", "unreserve")
    <3>1. /\ OthersKept(w) /\ pw[w].at = "return" /\ pw'[w].at = "unreserve"
          /\ pw'[w].slot = pw[w].slot
      BY <2>2, StepEffect, ConstantTypes
    <3> QED  BY <2>1, <3>1, Layer4Works DEF SameTxns, Holding, Running, Registering
  <2> QED  BY <1>24, <2>2 DEF ReleaseReturn
<1>25. ASSUME NEW w \in PolicyWorkers, ReleasePool(w) PROVE Layer4'
  <2>1. OthersKept(w) /\ pw'[w].at = "idle"
    BY <1>25, IdleEffect DEF ReleasePool
  <2>2. UNCHANGED <<ing, route, txn, pending, io, resumeCh, queue, sent, slotState>>
    BY <1>25 DEF ReleasePool, storeVars
  <2> QED  BY <2>1, <2>2, Layer4Works DEF SameTxns, Holding, Running, Registering
<1>26. ASSUME NEW m \in sent, HandleReply(m) PROVE Layer4'
  <2>1. m.id \in DnsId
    BY DEF TypeOK
  <2> QED  BY <1>26, <2>1, Layer4Complete DEF HandleReply
<1>27. ASSUME NEW m \in sent, UpstreamDone(m) PROVE Layer4'
  BY <1>27, Layer4Same DEF UpstreamDone, threadVars, storeVars
<1>28. ASSUME NEW k \in DnsId, PollTimeouts(k) PROVE Layer4'
  BY <1>28, Layer4Complete DEF PollTimeouts
<1>29. CASE IoTableRemove
  <2>1. /\ UNCHANGED <<ing, txn, route, queue, pw, pending, resumeCh, sent, slotState>>
        /\ io.at # "idle" /\ io'.slot = io.slot /\ io'.done = io.done
    BY <1>29 DEF IoTableRemove, storeVars, threadVars, TypeOK, IoRec
  <2>2. NoneStarts
    BY <2>1 DEF NoneStarts, Started, HasNew
  <2>3. TxnIsTheQuerys'
    BY <2>1, <2>2, TxnQuiet DEF Layer4, SameTxns, FewerRoutes
  <2>4. \A s \in SlotId : IoIsRight(s)'
    BY <2>1 DEF Layer4, AnswersAreTheQuerys, IoIsRight
  <2>5. \A s \in SlotId : SentIsRight(s)' /\ ChannelIsRight(s)' /\ QueueIsRight(s)' /\ WorkersAreRight(s)'
    BY <2>1 DEF Layer4, AnswersAreTheQuerys, SentIsRight, ChannelIsRight, QueueIsRight,
       WorkersAreRight
  <2> QED  BY <2>3, <2>4, <2>5 DEF Layer4, AnswersAreTheQuerys
<1>30. CASE IoSendResume
  BY <1>30, Layer4SendResume
<1>31. CASE ForwardResume
  BY <1>31, Layer4Forward
<1>32. CASE Reload
  BY <1>32, Layer4Same DEF Reload, threadVars, storeVars
<1>33. CASE UNCHANGED vars
  BY <1>33, Layer4Same DEF vars, storeVars, threadVars
<1> QED
  BY <1>1, <1>2, <1>3, <1>4, <1>5, <1>6, <1>7, <1>8, <1>9, <1>10, <1>11, <1>12,
     <1>13, <1>14, <1>15, <1>16, <1>17, <1>18, <1>19, <1>20, <1>21, <1>22,
     <1>23, <1>24, <1>25, <1>26, <1>27, <1>28, <1>29, <1>30, <1>31, <1>32, <1>33
     DEF Next, IngressStep, PolicyStep, IoStep


\* A query that nobody gains a right to reply to keeps its one holder.
LEMMA ReplyKept ==
    ASSUME NEW q \in Queries, AtMostOneReply(q), got'[q] = got[q],
           life'[q] = "new" => life[q] = "new",
           \A i \in Ingress : /\ ing'[i].q = q => ing[i].q = q
                              /\ Claims(i, q)' => Claims(i, q)
                              /\ Delivered(i, q)' => Delivered(i, q),
           \A s \in SlotId : Routed(s, q)' => Routed(s, q)
    PROVE  AtMostOneReply(q)'
<1>1. \A i, j \in Ingress : ing'[i].q = q /\ ing'[j].q = q => i = j
  BY DEF AtMostOneReply
<1>2. \A s, t \in SlotId : Routed(s, q)' /\ Routed(t, q)' => s = t
  BY DEF AtMostOneReply
<1>3. \A i \in Ingress, s \in SlotId :
         ~(Claims(i, q)' /\ Routed(s, q)') /\ ~(Delivered(i, q)' /\ Routed(s, q)')
  BY DEF AtMostOneReply
<1>4. life'[q] = "new" =>
         /\ \A i \in Ingress : ing'[i].q # q
         /\ \A s \in SlotId : ~Routed(s, q)'
         /\ got'[q] = << >>
  BY DEF AtMostOneReply
<1>5. got'[q] # << >> =>
         /\ \A i \in Ingress : ~Claims(i, q)' /\ ~Delivered(i, q)'
         /\ \A s \in SlotId : ~Routed(s, q)'
  BY DEF AtMostOneReply
<1> QED
  BY <1>1, <1>2, <1>3, <1>4, <1>5 DEF AtMostOneReply

-----------------------------------------------------------------------------
(***************************************************************************)
(* Layer 5.  A step that takes rights to a reply away, or leaves them.     *)
(***************************************************************************)
LEMMA Layer5Quiet ==
    ASSUME Layer5, InboxIsRight', UNCHANGED got,
           \A q \in Queries : life'[q] = "new" => life[q] = "new",
           \A s \in SlotId, q \in Queries : Routed(s, q)' => Routed(s, q),
           \A i \in Ingress, q \in Queries :
              /\ ing'[i].q = q => ing[i].q = q
              /\ Claims(i, q)' => Claims(i, q)
              /\ Delivered(i, q)' => Delivered(i, q)
    PROVE  Layer5'
<1>1. OneReply'
  BY DEF Layer5, OneReply, AtMostOneReply
<1>2. RepliesAreRight'
  BY DEF Layer5, RepliesAreRight
<1> QED
  BY <1>1, <1>2 DEF Layer5

LEMMA Layer5Same ==
    ASSUME Layer5, UNCHANGED <<ing, route, got>>,
           \A q \in Queries : life'[q] = "new" => life[q] = "new"
    PROVE  Layer5'
<1>1. InboxIsRight'
  BY DEF Layer5, InboxIsRight
<1> QED
  BY <1>1, Layer5Quiet DEF Routed, Claims, Delivered

LEMMA Layer5Moves ==
    ASSUME Layer5, UNCHANGED <<route, got, life>>, NEW i \in Ingress, OtherIngressKept(i),
           ing[i].at \in {"publish", "setup"}, ing'[i].at \in {"setup", "route"},
           ing'[i].q = ing[i].q, ing'[i].inbox = ing[i].inbox
    PROVE  Layer5'
<1>1. InboxIsRight'
  BY DEF Layer5, InboxIsRight, OtherIngressKept
<1> QED
  BY <1>1, Layer5Quiet DEF Routed, Claims, Delivered, OtherIngressKept

LEMMA Layer5Push ==
    ASSUME TypeOK, Layer5, NEW i \in Ingress, IngressPush(i)
    PROVE  Layer5'
<1>1. UNCHANGED <<route, got, life>> /\ ing[i].at = "push"
  BY DEF IngressPush, clientVars
<1>2. ing[i].inbox = NoOne
  BY <1>1 DEF Layer5, InboxIsRight
<1>3. \/ ing' = [ing EXCEPT ![i].at = "await"]
      \/ ing' = [ing EXCEPT ![i] = IdleIngress]
  BY DEF IngressPush
<1>4. /\ OtherIngressKept(i) /\ ing'[i].inbox = NoOne
      /\ \/ ing'[i].at = "await" /\ ing'[i].q = ing[i].q
         \/ ing'[i].at = "recv" /\ ing'[i].q = NoOne
  <2>1. CASE ing' = [ing EXCEPT ![i].at = "await"]
    BY <1>2, <2>1, IngressEffect, ConstantTypes
  <2>2. CASE ing' = [ing EXCEPT ![i] = IdleIngress]
    BY <2>2, IdleIngressEffect
  <2> QED  BY <1>3, <2>1, <2>2
<1>5. InboxIsRight'
  BY <1>4 DEF Layer5, InboxIsRight, OtherIngressKept
<1>6. NoOne \notin Queries
  BY SplitIoAssumption
<1>7. \A j \in Ingress, q \in Queries :
         /\ ing'[j].q = q => ing[j].q = q
         /\ Claims(j, q)' => Claims(j, q)
         /\ Delivered(j, q)' => Delivered(j, q)
  BY <1>4, <1>6 DEF OtherIngressKept, Claims, Delivered
<1>8. \A s \in SlotId, q \in Queries : Routed(s, q)' => Routed(s, q)
  BY <1>1 DEF Routed
<1> QED
  BY <1>1, <1>5, <1>7, <1>8, Layer5Quiet

\* A new query has nobody else who could answer it.
LEMMA Layer5Acquire ==
    ASSUME TypeOK, Layer5, NEW i \in Ingress, NEW q \in Queries, IngressAcquire(i, q)
    PROVE  Layer5'
<1>1. UNCHANGED <<route, got>> /\ ing[i].at = "recv" /\ life[q] = "new"
  BY DEF IngressAcquire
<1>2. life'[q] # "new" /\ \A p \in Queries : p # q => life'[p] = life[p]
  BY DEF IngressAcquire, TypeOK
<1>3. CASE UNCHANGED ing
  <2>1. \A p \in Queries : life'[p] = "new" => life[p] = "new"
    BY <1>2
  <2> QED  BY <1>1, <1>3, <2>1, Layer5Same
<1>4. ASSUME NEW id \in SlotId,
             ing' = [ing EXCEPT ![i] = [at |-> "publish", q |-> q, slot |-> id, inbox |-> NoOne]]
      PROVE  Layer5'
  <2>1. /\ OtherIngressKept(i) /\ ing'[i].at = "publish" /\ ing'[i].q = q
        /\ ing'[i].inbox = NoOne
    BY <1>4 DEF TypeOK, OtherIngressKept
  <2>2. InboxIsRight'
    BY <2>1 DEF Layer5, InboxIsRight, OtherIngressKept
  <2>3. /\ \A j \in Ingress : ing[j].q # q
        /\ \A s \in SlotId : ~Routed(s, q)
        /\ got[q] = << >>
    BY <1>1 DEF Layer5, OneReply, AtMostOneReply
  <2>4. \A s \in SlotId, p \in Queries : Routed(s, p)' <=> Routed(s, p)
    BY <1>1 DEF Routed
  <2>5. \A j \in Ingress, p \in Queries : p # q =>
           /\ ing'[j].q = p => ing[j].q = p
           /\ Claims(j, p)' => Claims(j, p)
           /\ Delivered(j, p)' => Delivered(j, p)
    BY <2>1 DEF OtherIngressKept, Claims, Delivered
  <2>6. \A j \in Ingress : ing'[j].q = q => j = i
    BY <2>1, <2>3 DEF OtherIngressKept
  <2>7. OneReply'
    <3>1. SUFFICES ASSUME NEW p \in Queries PROVE AtMostOneReply(p)'
      BY DEF OneReply
    <3>2. CASE p = q
      BY <1>1, <1>2, <2>3, <2>4, <2>6, <3>2 DEF AtMostOneReply
    <3>3. CASE p # q
      <4>1. AtMostOneReply(p)
        BY DEF Layer5, OneReply
      <4> QED  BY <1>1, <1>2, <2>4, <2>5, <3>3, <4>1, ReplyKept
    <3> QED  BY <3>2, <3>3
  <2>8. RepliesAreRight'
    BY <1>1 DEF Layer5, RepliesAreRight
  <2> QED  BY <2>2, <2>7, <2>8 DEF Layer5
<1> QED
  BY <1>3, <1>4 DEF IngressAcquire


\* The right goes from the ingress thread to the slot's route.
LEMMA Layer5Route ==
    ASSUME TypeOK, References, Layer5, NEW i \in Ingress, IngressRoute(i)
    PROVE  Layer5'
<1>1. /\ UNCHANGED <<got, life>> /\ ing[i].at = "route"
      /\ ing[i].slot \in SlotId /\ ing[i].q \in Queries
  BY DEF IngressRoute, clientVars, References, IngressHolds
<1>2. PICK t \in SlotId, q \in Queries : t = ing[i].slot /\ q = ing[i].q
  BY <1>1
<1>3. /\ OtherIngressKept(i) /\ ing'[i].at = "push" /\ ing'[i].q = q
      /\ ing'[i].inbox = ing[i].inbox
  BY <1>2, IngressEffect, ConstantTypes DEF IngressRoute
<1>4. /\ route'[t] = [q |-> q, via |-> i]
      /\ \A s \in SlotId : s # t => route'[s] = route[s]
  BY <1>2 DEF IngressRoute, TypeOK
<1>5. InboxIsRight' /\ ing[i].inbox = NoOne
  BY <1>1, <1>3 DEF Layer5, InboxIsRight, OtherIngressKept
<1>6. Claims(i, q) /\ AtMostOneReply(q)
  BY <1>1, <1>2 DEF Claims, Layer5, OneReply
<1>7. /\ \A s \in SlotId : ~Routed(s, q)
      /\ got[q] = << >> /\ life[q] # "new"
      /\ \A j \in Ingress : ing[j].q = q => j = i
  BY <1>2, <1>6 DEF AtMostOneReply
<1>8. \A s \in SlotId : Routed(s, q)' => s = t
  BY <1>4, <1>7 DEF Routed
<1>9. \A j \in Ingress : ing'[j].q = ing[j].q /\ ing'[j].inbox = ing[j].inbox
  BY <1>2, <1>3 DEF OtherIngressKept
<1>10. \A j \in Ingress, p \in Queries :
          /\ ing'[j].q = p => ing[j].q = p
          /\ Claims(j, p)' => Claims(j, p)
          /\ Delivered(j, p)' => Delivered(j, p)
  BY <1>3, <1>9 DEF OtherIngressKept, Claims, Delivered
<1>11. \A j \in Ingress : ~Claims(j, q)' /\ ~Delivered(j, q)'
  BY <1>3, <1>5, <1>7, <1>9 DEF Claims, Delivered
<1>12. \A s \in SlotId, p \in Queries : p # q => (Routed(s, p)' => Routed(s, p))
  <2>1. route'[t].q = q
    BY <1>4, RouteFields
  <2> QED  BY <1>4, <2>1 DEF Routed
<1>13. OneReply'
  <2>1. SUFFICES ASSUME NEW p \in Queries PROVE AtMostOneReply(p)'
    BY DEF OneReply
  <2>2. CASE p = q
    BY <1>1, <1>7, <1>8, <1>9, <1>11, <2>2 DEF AtMostOneReply
  <2>3. CASE p # q
    <3>1. AtMostOneReply(p)
      BY DEF Layer5, OneReply
    <3> QED  BY <1>1, <1>10, <1>12, <2>3, <3>1, ReplyKept
  <2> QED  BY <2>2, <2>3
<1>14. RepliesAreRight'
  BY <1>1 DEF Layer5, RepliesAreRight
<1> QED
  BY <1>5, <1>13, <1>14 DEF Layer5

\* The client's first reply, when it answers its query, is its only one.
LEMMA GotOne ==
    ASSUME TypeOK, RepliesAreRight, NEW q \in Queries, got[q] = << >>,
           got' = [got EXCEPT ![q] = Append(@, q)]
    PROVE  RepliesAreRight' /\ \A p \in Queries : p # q => got'[p] = got[p]
<1>1. \A p \in Queries : p # q => got'[p] = got[p]
  BY DEF TypeOK
<1>2. got[q] \in Seq(QueryOrNone) /\ q \in QueryOrNone /\ got'[q] = Append(got[q], q)
  BY DEF TypeOK, QueryOrNone
<1>3. Len(got[q]) = 0
  BY SMTT(30)
<1>4. Len(got'[q]) = 1 /\ got'[q][1] = q
  <2>1. /\ Len(Append(got[q], q)) = Len(got[q]) + 1
        /\ Append(got[q], q)[Len(got[q]) + 1] = q
    BY <1>2, AppendToSeq, SMTT(30)
  <2> QED  BY <1>2, <1>3, <2>1, SMTT(30)
<1>5. Len(got'[q]) <= 1 /\ \A n \in 1 .. Len(got'[q]) : got'[q][n] = q
  BY <1>4, SMTT(30)
<1>6. \A p \in Queries : p # q =>
         Len(got'[p]) <= 1 /\ \A n \in 1 .. Len(got'[p]) : got'[p][n] = p
  BY <1>1 DEF RepliesAreRight
<1> QED
  BY <1>1, <1>5, <1>6 DEF RepliesAreRight

\* recv_timeout: the inbox of a TCP thread goes to its client, or is dropped.
LEMMA Layer5Await ==
    ASSUME TypeOK, References, Layer5, NEW i \in Ingress, IngressAwait(i)
    PROVE  Layer5'
<1>1. UNCHANGED <<route, life>> /\ ing[i].at = "await" /\ ing[i].q \in Queries
  BY DEF IngressAwait, References
<1>2. PICK q \in Queries : q = ing[i].q
  BY <1>1
<1>3. OtherIngressKept(i) /\ ing'[i].at = "recv" /\ ing'[i].q = NoOne /\ ing'[i].inbox = NoOne
  BY IdleIngressEffect DEF IngressAwait
<1>4. NoOne \notin Queries
  BY SplitIoAssumption
<1>5. InboxIsRight'
  BY <1>3 DEF Layer5, InboxIsRight, OtherIngressKept
<1>6. \A j \in Ingress, p \in Queries :
         /\ ing'[j].q = p => ing[j].q = p /\ j # i
         /\ Claims(j, p)' => Claims(j, p)
         /\ Delivered(j, p)' => Delivered(j, p)
  BY <1>3, <1>4 DEF OtherIngressKept, Claims, Delivered
<1>7. \A s \in SlotId, p \in Queries : Routed(s, p)' => Routed(s, p)
  BY <1>1 DEF Routed
<1>8. CASE ing[i].inbox = NoOne
  <2>1. UNCHANGED got
    BY <1>8 DEF IngressAwait
  <2> QED  BY <1>1, <1>5, <1>6, <1>7, <2>1, Layer5Quiet
<1>9. CASE ing[i].inbox # NoOne
  <2>1. got' = [got EXCEPT ![q] = Append(@, q)]
    BY <1>2, <1>9 DEF IngressAwait, Layer5, InboxIsRight
  <2>2. Delivered(i, q) /\ AtMostOneReply(q)
    BY <1>2, <1>9 DEF Delivered, Layer5, OneReply
  <2>3. /\ got[q] = << >> /\ life[q] # "new"
        /\ \A s \in SlotId : ~Routed(s, q)
        /\ \A j \in Ingress : ing[j].q = q => j = i
    BY <1>2, <2>2 DEF AtMostOneReply
  <2>4. RepliesAreRight' /\ \A p \in Queries : p # q => got'[p] = got[p]
    BY <2>1, <2>3, GotOne DEF Layer5
  <2>5. \A j \in Ingress : ing'[j].q # q
    BY <1>6, <2>3
  <2>6. \A j \in Ingress : ~Claims(j, q)' /\ ~Delivered(j, q)'
    BY <2>5 DEF Claims, Delivered
  <2>7. OneReply'
    <3>1. SUFFICES ASSUME NEW p \in Queries PROVE AtMostOneReply(p)'
      BY DEF OneReply
    <3>2. CASE p = q
      BY <1>1, <1>7, <2>3, <2>5, <2>6, <3>2 DEF AtMostOneReply
    <3>3. CASE p # q
      <4>1. AtMostOneReply(p)
        BY DEF Layer5, OneReply
      <4> QED  BY <1>1, <1>6, <1>7, <2>4, <3>3, <4>1, ReplyKept
    <3> QED  BY <3>2, <3>3
  <2> QED  BY <1>5, <2>4, <2>7 DEF Layer5
<1> QED
  BY <1>8, <1>9


(***************************************************************************)
(* deliver_reply takes the route, so only one worker ever acts on it, and  *)
(* a TCP thread it still finds is waiting for this very query.             *)
(***************************************************************************)
LEMMA Layer5Deliver ==
    ASSUME TypeOK, References, Layer1, Layer4, Layer5, NEW w \in PolicyWorkers, DeliverReply(w)
    PROVE  Layer5'
<1>1. pw[w].at = "deliver" /\ pw[w].slot \in SlotId /\ UNCHANGED life /\ pw[w].at \in Holding
  BY DEF DeliverReply, References, Holding
<1>2. PICK t \in SlotId : t = pw[w].slot
  BY <1>1
<1>3. route'[t] = NoOne /\ \A s \in SlotId : s # t => route'[s] = route[s]
  BY <1>2 DEF DeliverReply, TypeOK
<1>4. \A s \in SlotId, p \in Queries : Routed(s, p)' => Routed(s, p) /\ s # t
  BY <1>3 DEF Routed
<1>5. SameIngress
  BY DeliverEffect
<1>6. \A j \in Ingress, p \in Queries :
         /\ ing'[j].q = p => ing[j].q = p
         /\ Claims(j, p)' => Claims(j, p)
  BY <1>5 DEF SameIngress, Claims
<1>7. CASE UNCHANGED <<ing, got>>
  <2>1. InboxIsRight'
    BY <1>7 DEF Layer5, InboxIsRight
  <2>2. \A j \in Ingress, p \in Queries : Delivered(j, p)' => Delivered(j, p)
    BY <1>7 DEF Delivered
  <2> QED  BY <1>1, <1>4, <1>6, <1>7, <2>1, <2>2, Layer5Quiet
<1>8. CASE route[t] # NoOne
  <2>1. route[t] \in RouteRec
    BY <1>8 DEF TypeOK
  <2>2. PICK q \in Queries, i \in Ingress : route[t] = [q |-> q, via |-> i]
    BY <2>1 DEF RouteRec
  <2>3. Started(t)
    BY <1>1, <1>2 DEF Started
  <2>4. pw[w].out = q
    <3>1. route[t].q = txn[t].q
      BY <1>8, <2>3 DEF Layer4, TxnIsTheQuerys
    <3>2. pw[w].out = txn[t].q
      BY <1>1, <1>2 DEF Layer4, AnswersAreTheQuerys, WorkersAreRight
    <3> QED  BY <2>2, <3>1, <3>2, RouteFields
  <2>5. Routed(t, q) /\ AtMostOneReply(q) /\ q # NoOne
    BY <1>8, <2>2, SplitIoAssumption, RouteFields DEF Routed, Layer5, OneReply
  <2>6. /\ got[q] = << >> /\ life[q] # "new"
        /\ \A s \in SlotId : Routed(s, q) => s = t
        /\ \A j \in Ingress : ~Claims(j, q) /\ ~Delivered(j, q)
        /\ \A j, k \in Ingress : ing[j].q = q /\ ing[k].q = q => j = k
    BY <2>5 DEF AtMostOneReply
  <2>7. \A s \in SlotId : ~Routed(s, q)'
    BY <1>4, <2>6
  <2>8. CASE got' = [got EXCEPT ![q] = Append(@, q)] /\ UNCHANGED ing
    <3>1. RepliesAreRight' /\ \A p \in Queries : p # q => got'[p] = got[p]
      BY <2>6, <2>8, GotOne DEF Layer5
    <3>2. InboxIsRight'
      BY <2>8 DEF Layer5, InboxIsRight
    <3>3. \A j \in Ingress, p \in Queries : Delivered(j, p)' => Delivered(j, p)
      BY <2>8 DEF Delivered
    <3>4. OneReply'
      <4>1. SUFFICES ASSUME NEW p \in Queries PROVE AtMostOneReply(p)'
        BY DEF OneReply
      <4>2. CASE p = q
        BY <1>1, <1>6, <2>6, <2>7, <3>3, <4>2 DEF AtMostOneReply
      <4>3. CASE p # q
        <5>1. AtMostOneReply(p)
          BY DEF Layer5, OneReply
        <5> QED  BY <1>1, <1>4, <1>6, <3>1, <3>3, <4>3, <5>1, ReplyKept
      <4> QED  BY <4>2, <4>3
    <3> QED  BY <3>1, <3>2, <3>4 DEF Layer5
  <2>9. CASE ing' = [ing EXCEPT ![i].inbox = q] /\ ing[i].q = q /\ UNCHANGED got
    <3>1. OtherIngressKept(i) /\ ing'[i].inbox = q /\ ing'[i].at = ing[i].at /\ ing'[i].q = q
      BY <2>9 DEF TypeOK, IngressRec, OtherIngressKept
    <3>2. ing[i].at = "await"
      <4>1. ing[i].at \in IngressAt
        BY DEF TypeOK, IngressRec
      <4>2. ing[i].at \notin {"publish", "setup", "route"}
        BY <2>6, <2>9 DEF Claims
      <4>3. ing[i].at # "recv"
        BY <2>5, <2>9 DEF Layer5, InboxIsRight
      <4>4. ing[i].at # "push"
        <5>1. SUFFICES ASSUME ing[i].at = "push" PROVE FALSE
          OBVIOUS
        <5>2. ing[i].slot \in SlotId /\ ing[i].at \in IngressHolds
          BY <5>1 DEF References, IngressHolds
        <5>3. route[ing[i].slot] = [q |-> q, via |-> i]
          BY <2>9, <5>1, <5>2 DEF Layer4, TxnIsTheQuerys
        <5>4. ing[i].slot = t
          <6>1. route[ing[i].slot] # NoOne /\ route[ing[i].slot].q = q
            BY <1>8, <2>2, <5>3, RouteFields
          <6> QED  BY <2>6, <5>2, <6>1 DEF Routed
        <5> QED  BY <1>1, <1>2, <5>2, <5>4 DEF Layer1, OneOwner
      <4> QED  BY <4>1, <4>2, <4>3, <4>4 DEF IngressAt, IngressHolds
    <3>3. InboxIsRight'
      BY <3>1, <3>2 DEF Layer5, InboxIsRight, OtherIngressKept
    <3>4. \A j \in Ingress, p \in Queries : p # q => (Delivered(j, p)' => Delivered(j, p))
      BY <3>1 DEF Delivered, OtherIngressKept
    <3>5. OneReply'
      <4>1. SUFFICES ASSUME NEW p \in Queries PROVE AtMostOneReply(p)'
        BY DEF OneReply
      <4>2. CASE p = q
        BY <1>1, <1>6, <2>6, <2>7, <2>9, <4>2 DEF AtMostOneReply
      <4>3. CASE p # q
        <5>1. AtMostOneReply(p)
          BY DEF Layer5, OneReply
        <5> QED  BY <1>1, <1>4, <1>6, <2>9, <3>4, <4>3, <5>1, ReplyKept
      <4> QED  BY <4>2, <4>3
    <3>6. RepliesAreRight'
      BY <2>9 DEF Layer5, RepliesAreRight
    <3> QED  BY <3>3, <3>5, <3>6 DEF Layer5
  <2> QED
    <3>1. route[t].q = q /\ route[t].via = i
      <4>1. [q |-> q, via |-> i].q = q /\ [q |-> q, via |-> i].via = i
        OBVIOUS
      <4> QED  BY <2>2, <4>1
    <3> QED  BY <1>2, <1>7, <1>8, <2>4, <2>8, <2>9, <3>1 DEF DeliverReply
<1> QED
  BY <1>2, <1>7, <1>8 DEF DeliverReply

LEMMA Layer5Step ==
    ASSUME TypeOK, References, Layer1, Layer4, Layer5, [Next]_vars
    PROVE  Layer5'
<1> USE DEF clientVars, threadVars
<1>1. ASSUME NEW i \in Ingress, IngressPublish(i) PROVE Layer5'
  <2>1. /\ OtherIngressKept(i) /\ ing'[i].at = "setup"
        /\ ing'[i].q = ing[i].q /\ ing'[i].inbox = ing[i].inbox
    BY <1>1, IngressEffect, ConstantTypes DEF IngressPublish
  <2> QED  BY <1>1, <2>1, Layer5Moves DEF IngressPublish
<1>2. ASSUME NEW i \in Ingress, IngressSetup(i) PROVE Layer5'
  <2>1. /\ OtherIngressKept(i) /\ ing'[i].at = "route"
        /\ ing'[i].q = ing[i].q /\ ing'[i].inbox = ing[i].inbox
    BY <1>2, IngressEffect, ConstantTypes DEF IngressSetup
  <2> QED  BY <1>2, <2>1, Layer5Moves DEF IngressSetup
<1>3. ASSUME NEW i \in Ingress, IngressRoute(i) PROVE Layer5'
  BY <1>3, Layer5Route
<1>4. ASSUME NEW i \in Ingress, IngressPush(i) PROVE Layer5'
  BY <1>4, Layer5Push
<1>5. ASSUME NEW i \in Ingress, IngressAwait(i) PROVE Layer5'
  BY <1>5, Layer5Await
<1>6. ASSUME NEW i \in Ingress, NEW q \in Queries, IngressAcquire(i, q) PROVE Layer5'
  BY <1>6, Layer5Acquire
<1>7. ASSUME NEW w \in PolicyWorkers, NEW s \in SlotId, Pop(w, s) PROVE Layer5'
  BY <1>7, Layer5Same DEF Pop
<1>8. ASSUME NEW w \in PolicyWorkers, ProcessNew(w) PROVE Layer5'
  BY <1>8, Layer5Same DEF ProcessNew
<1>9. ASSUME NEW w \in PolicyWorkers, ProcessResume(w) PROVE Layer5'
  BY <1>9, Layer5Same DEF ProcessResume
<1>10. ASSUME NEW w \in PolicyWorkers, RunBegin(w) PROVE Layer5'
  BY <1>10, Layer5Same DEF RunBegin
<1>11. ASSUME NEW w \in PolicyWorkers, RunRequest(w) PROVE Layer5'
  BY <1>11, Layer5Same DEF RunRequest
<1>12. ASSUME NEW w \in PolicyWorkers, RunResponse(w) PROVE Layer5'
  BY <1>12, Layer5Same DEF RunResponse
<1>13. ASSUME NEW w \in PolicyWorkers, RegisterKey(w) PROVE Layer5'
  BY <1>13, Layer5Same DEF RegisterKey
<1>14. ASSUME NEW w \in PolicyWorkers, TryAcquire(w) PROVE Layer5'
  BY <1>14, Layer5Same DEF TryAcquire
<1>15. ASSUME NEW w \in PolicyWorkers, RefuseAtCap(w) PROVE Layer5'
  BY <1>15, Layer5Same DEF RefuseAtCap
<1>16. ASSUME NEW w \in PolicyWorkers, TrackPending(w) PROVE Layer5'
  BY <1>16, Layer5Same DEF TrackPending
<1>17. ASSUME NEW w \in PolicyWorkers, SendUpstream(w) PROVE Layer5'
  BY <1>17, Layer5Same DEF SendUpstream
<1>18. ASSUME NEW w \in PolicyWorkers, Unregister(w) PROVE Layer5'
  BY <1>18, Layer5Same DEF Unregister
<1>19. ASSUME NEW w \in PolicyWorkers, CancelPending(w) PROVE Layer5'
  BY <1>19, Layer5Same DEF CancelPending
<1>20. ASSUME NEW w \in PolicyWorkers, Park(w) PROVE Layer5'
  BY <1>20, Layer5Same DEF Park
<1>21. ASSUME NEW w \in PolicyWorkers, DeliverReply(w) PROVE Layer5'
  BY <1>21, Layer5Deliver
<1>22. ASSUME NEW w \in PolicyWorkers, ReadPool(w) PROVE Layer5'
  BY <1>22, Layer5Same DEF ReadPool
<1>23. ASSUME NEW w \in PolicyWorkers, ReleaseClear(w) PROVE Layer5'
  <2>1. \A q \in Queries : life'[q] = "new" => life[q] = "new"
    BY <1>23 DEF ReleaseClear, TypeOK
  <2> QED  BY <1>23, <2>1, Layer5Same DEF ReleaseClear
<1>24. ASSUME NEW w \in PolicyWorkers, ReleaseReturn(w) PROVE Layer5'
  BY <1>24, Layer5Same DEF ReleaseReturn
<1>25. ASSUME NEW w \in PolicyWorkers, ReleasePool(w) PROVE Layer5'
  BY <1>25, Layer5Same DEF ReleasePool
<1>26. ASSUME NEW m \in sent, HandleReply(m) PROVE Layer5'
  BY <1>26, Layer5Same DEF HandleReply, IoComplete
<1>27. ASSUME NEW m \in sent, UpstreamDone(m) PROVE Layer5'
  BY <1>27, Layer5Same DEF UpstreamDone
<1>28. ASSUME NEW k \in DnsId, PollTimeouts(k) PROVE Layer5'
  BY <1>28, Layer5Same DEF PollTimeouts, IoComplete
<1>29. CASE IoTableRemove
  BY <1>29, Layer5Same DEF IoTableRemove
<1>30. CASE IoSendResume
  BY <1>30, Layer5Same DEF IoSendResume
<1>31. CASE ForwardResume
  BY <1>31, Layer5Same DEF ForwardResume
<1>32. CASE Reload
  BY <1>32, Layer5Same DEF Reload
<1>33. CASE UNCHANGED vars
  BY <1>33, Layer5Same DEF vars
<1> QED
  BY <1>1, <1>2, <1>3, <1>4, <1>5, <1>6, <1>7, <1>8, <1>9, <1>10, <1>11, <1>12,
     <1>13, <1>14, <1>15, <1>16, <1>17, <1>18, <1>19, <1>20, <1>21, <1>22,
     <1>23, <1>24, <1>25, <1>26, <1>27, <1>28, <1>29, <1>30, <1>31, <1>32, <1>33
     DEF Next, IngressStep, PolicyStep, IoStep

-----------------------------------------------------------------------------
LEMMA InitReplies ==
    ASSUME Init
    PROVE  Layer4 /\ Layer5
<1>1. Layer4
  <2>1. \A s \in SlotId : ~Started(s)
    BY InitIsIdle DEF Started
  <2>2. TxnIsTheQuerys
    <3>1. \A i \in Ingress : ing[i].at \notin {"route", "push"}
      BY InitIsIdle
    <3>2. \A s \in SlotId : txn[s].resp \in {NoOne, txn[s].q}
      <4>1. NoTxn.resp = NoOne
        BY DEF NoTxn
      <4> QED  BY InitIsIdle, <4>1
    <3> QED  BY <2>1, <3>1, <3>2 DEF TxnIsTheQuerys
  <2>3. /\ sent = {} /\ io.at = "idle" /\ 1 .. Len(resumeCh) = {}
        /\ \A s \in SlotId : 1 .. Len(queue[s]) = {}
        /\ \A w \in PolicyWorkers : pw[w].at = "idle"
    BY InitIsIdle, SMTT(30)
  <2>4. AnswersAreTheQuerys
    BY <2>3 DEF AnswersAreTheQuerys, SentIsRight, IoIsRight, ChannelIsRight, QueueIsRight,
       WorkersAreRight
  <2> QED  BY <2>2, <2>4 DEF Layer4
<1>2. Layer5
  <2>1. InboxIsRight
    BY InitIsIdle DEF InboxIsRight
  <2>2. OneReply
    BY InitIsIdle, SplitIoAssumption DEF OneReply, AtMostOneReply, Routed, Claims, Delivered
  <2>3. RepliesAreRight
    BY InitIsIdle, SMT DEF RepliesAreRight
  <2> QED  BY <2>1, <2>2, <2>3 DEF Layer5
<1> QED
  BY <1>1, <1>2

(***************************************************************************)
(* The whole inductive invariant: slots, registered ids, wakes and replies *)
(* are in one pair of hands each, at every step of the split_io runtime.   *)
(***************************************************************************)
THEOREM Inductive == Spec /\ [][FreshIds]_vars => []IInv
<1>1. Init => Layer4 /\ Layer5
  BY InitReplies
<1>2. IInv /\ [Next]_vars => (Layer4 /\ Layer5)'
  BY Layer4Step, Layer5Step DEF IInv, Owned
<1>3. IInv <=> Owned /\ Layer2 /\ Layer3 /\ Layer4 /\ Layer5
  BY DEF IInv
<1> QED
  BY <1>1, <1>2, <1>3, Wakes, PTL DEF Spec

(***************************************************************************)
(* For any number of clients, late and duplicate replies included: a       *)
(* client gets one reply at most, and it answers the client's own query.   *)
(***************************************************************************)
THEOREM ClientsGetTheirOwnReply == Spec /\ [][FreshIds]_vars => []RepliesAreRight
<1>1. IInv => RepliesAreRight
  BY DEF IInv, Layer5
<1> QED
  BY <1>1, Inductive, PTL
=============================================================================
