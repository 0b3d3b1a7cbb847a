--------------------------- MODULE SplitIo_proofs ---------------------------
(***************************************************************************)
(* Slots, upstream ids and wakes of the split_io runtime, for any number   *)
(* of slots, threads, queries and attempts.  The inductive invariant comes *)
(* in layers, each preserved with the help of the ones before it: a slot   *)
(* has one owner; an id in the transaction table has one thread that will  *)
(* remove it; the wake of a parked slot is in one place.  The last two     *)
(* hold as long as an id is not given out again too early (FreshIds).      *)
(* SplitIoReplies_proofs puts the last layer together and draws the        *)
(* conclusions from it.                                                    *)
(***************************************************************************)
EXTENDS SplitIo, TLAPS

(***************************************************************************)
(* Sequences: what the free list's push and pop do to it.                  *)
(***************************************************************************)
\* A function on 1 .. n is a sequence of length n.
LEMMA FunctionIsSeq ==
    ASSUME NEW S, NEW n \in Nat, NEW f \in [1 .. n -> S]
    PROVE  f \in Seq(S) /\ Len(f) = n
  BY SMT

\* A non-empty sequence has a last element.
LEMMA LastOfSeq ==
    ASSUME NEW S, NEW f \in Seq(S), f # << >>
    PROVE  Len(f) \in Nat \ {0} /\ f[Len(f)] \in S
  BY SMT

\* SubSeq(f, 1, Len(f) - 1) is f without its last element.
LEMMA FrontOfSeq ==
    ASSUME NEW S, NEW f \in Seq(S), NEW n \in Nat, n = Len(f) - 1
    PROVE  /\ SubSeq(f, 1, n) \in Seq(S)
           /\ Len(SubSeq(f, 1, n)) = n
           /\ \A i \in 1 .. n : SubSeq(f, 1, n)[i] = f[i]
<1>1. SubSeq(f, 1, n) \in Seq(S)
  BY SMT
<1>2. Len(SubSeq(f, 1, n)) = n
  BY SMT
<1>3. \A i \in 1 .. n : SubSeq(f, 1, n)[i] = f[i]
  BY SMT
<1> QED
  BY <1>1, <1>2, <1>3

\* Append adds one element at the end.
LEMMA AppendToSeq ==
    ASSUME NEW S, NEW f \in Seq(S), NEW e \in S
    PROVE  /\ Append(f, e) \in Seq(S)
           /\ Len(f) \in Nat /\ Len(Append(f, e)) = Len(f) + 1
           /\ Append(f, e)[Len(f) + 1] = e
           /\ \A i \in 1 .. Len(f) : Append(f, e)[i] = f[i]
<1>1. Append(f, e) \in Seq(S) /\ Len(f) \in Nat /\ Len(Append(f, e)) = Len(f) + 1
  BY SMT
<1>2. Append(f, e)[Len(f) + 1] = e
  BY SMT
<1>3. \A i \in 1 .. Len(f) : Append(f, e)[i] = f[i]
  BY SMT
<1> QED
  BY <1>1, <1>2, <1>3

\* Tail removes the first element.
LEMMA TailOfSeq ==
    ASSUME NEW S, NEW f \in Seq(S), f # << >>
    PROVE  /\ Head(f) \in S /\ Head(f) = f[1]
           /\ Tail(f) \in Seq(S)
           /\ Len(f) \in Nat \ {0} /\ Len(Tail(f)) = Len(f) - 1
           /\ \A i \in 1 .. Len(Tail(f)) : Tail(f)[i] = f[i + 1]
<1>1. Head(f) \in S /\ Head(f) = f[1]
  BY SMT
<1>2. Tail(f) \in Seq(S) /\ Len(f) \in Nat \ {0} /\ Len(Tail(f)) = Len(f) - 1
  BY SMT
<1>3. \A i \in 1 .. Len(Tail(f)) : Tail(f)[i] = f[i + 1]
  BY <1>2, SMT
<1> QED
  BY <1>1, <1>2, <1>3

(***************************************************************************)
(* grow_chunk adds at least one slot and stays within the capacity.        *)
(***************************************************************************)
LEMMA GrowByBounds ==
    ASSUME StoreTypeOK, ~Exhausted
    PROVE  /\ GrowBy \in Nat /\ allocated + GrowBy \in 0 .. Capacity
           /\ freeList = << >> => GrowBy >= 1
  BY TxnStoreAssumption DEF StoreTypeOK, Exhausted, GrowBy

(***************************************************************************)
(* acquire with a non-empty list takes its last id and grows nothing.      *)
(***************************************************************************)
LEMMA PopFreeNonEmpty ==
    ASSUME StoreTypeOK, NEW id, PopFree(id), freeList # << >>
    PROVE  /\ Len(freeList) \in Nat \ {0}
           /\ id = freeList[Len(freeList)] /\ id \in SlotId
           /\ allocated' = allocated
           /\ freeList' \in Seq(SlotId) /\ Len(freeList') = Len(freeList) - 1
           /\ \A i \in 1 .. Len(freeList') : freeList'[i] = freeList[i]
<1>1. freeList \in Seq(SlotId) /\ Len(freeList) \in Nat \ {0} /\ freeList[Len(freeList)] \in SlotId
  BY LastOfSeq DEF StoreTypeOK
<1>2. /\ id = freeList[Len(freeList)] /\ allocated' = allocated
      /\ freeList' = SubSeq(freeList, 1, Len(freeList) - 1)
  BY DEF PopFree, FreeAfterGrow
<1>3. Len(freeList) - 1 \in Nat
  BY <1>1
<1>4. /\ freeList' \in Seq(SlotId) /\ Len(freeList') = Len(freeList) - 1
      /\ \A i \in 1 .. Len(freeList) - 1 : freeList'[i] = freeList[i]
  BY <1>1, <1>2, <1>3, FrontOfSeq, Zenon
<1> QED
  BY <1>1, <1>2, <1>4

(***************************************************************************)
(* acquire with an empty list grows the arena by one chunk, takes the      *)
(* highest new id and leaves the others on the list.                       *)
(***************************************************************************)
LEMMA PopFreeEmpty ==
    ASSUME StoreTypeOK, NEW id, PopFree(id), freeList = << >>
    PROVE  /\ GrowBy \in Nat \ {0}
           /\ id = allocated + GrowBy - 1 /\ id \in SlotId
           /\ allocated' = allocated + GrowBy /\ allocated' \in 0 .. Capacity
           /\ freeList' \in Seq(SlotId) /\ Len(freeList') = GrowBy - 1
           /\ \A i \in 1 .. Len(freeList') : freeList'[i] = allocated + i - 1
<1>1. /\ GrowBy \in Nat \ {0} /\ allocated + GrowBy \in 0 .. Capacity
      /\ Capacity \in Nat /\ allocated \in Nat
  BY GrowByBounds, TxnStoreAssumption DEF PopFree, StoreTypeOK
<1> DEFINE f == [i \in 1 .. GrowBy |-> allocated + i - 1]
<1>2. f \in [1 .. GrowBy -> SlotId]
  BY <1>1 DEF SlotId
<1>3. f \in Seq(SlotId) /\ Len(f) = GrowBy
  <2> HIDE DEF f
  <2> QED  BY <1>1, <1>2, FunctionIsSeq
<1>4. FreeAfterGrow = f
  BY DEF FreeAfterGrow
<1>5. /\ id = f[GrowBy] /\ freeList' = SubSeq(f, 1, GrowBy - 1)
      /\ allocated' = allocated + GrowBy
  BY <1>3, <1>4, Zenon DEF PopFree
<1>6. \A i \in 1 .. GrowBy : f[i] = allocated + i - 1
  OBVIOUS
<1> HIDE DEF f
<1>7. /\ freeList' \in Seq(SlotId) /\ Len(freeList') = GrowBy - 1
      /\ \A i \in 1 .. GrowBy - 1 : freeList'[i] = f[i]
  <2>1. GrowBy - 1 \in Nat
    BY <1>1
  <2> QED  BY <1>3, <1>5, <2>1, FrontOfSeq
<1>8. id = allocated + GrowBy - 1 /\ id \in SlotId
  BY <1>1, <1>2, <1>5, <1>6
<1> QED
  BY <1>1, <1>5, <1>6, <1>7, <1>8

-----------------------------------------------------------------------------
(***************************************************************************)
(* The free list names allocated slots, each once.                         *)
(***************************************************************************)
FreeListOk ==
    /\ \A m \in 1 .. Len(freeList) : freeList[m] < allocated
    /\ \A m, n \in 1 .. Len(freeList) : freeList[m] = freeList[n] => m = n

\* A slot is in use when it is allocated and not on the list.
LEMMA InUseMeans ==
    ASSUME NEW s
    PROVE  s \in InUse <=> s \in SlotId /\ s < allocated
                            /\ \A n \in 1 .. Len(freeList) : freeList[n] # s
  BY DEF InUse, FreeSet

\* acquire takes a slot nobody uses, and only that one.
LEMMA PopFreeTakes ==
    ASSUME StoreTypeOK, FreeListOk, NEW id, PopFree(id)
    PROVE  /\ StoreTypeOK' /\ FreeListOk' /\ id \in SlotId /\ id \notin InUse
           /\ \A s : s \in InUse' <=> s \in InUse \/ s = id
<1>1. slotState' = slotState /\ Capacity \in Nat /\ allocated \in Nat
  BY TxnStoreAssumption DEF PopFree, StoreTypeOK
<1>2. CASE freeList # << >>
  <2>1. /\ Len(freeList) \in Nat \ {0}
        /\ id = freeList[Len(freeList)] /\ id \in SlotId
        /\ allocated' = allocated
        /\ freeList' \in Seq(SlotId) /\ Len(freeList') = Len(freeList) - 1
        /\ \A i \in 1 .. Len(freeList') : freeList'[i] = freeList[i]
    BY <1>2, PopFreeNonEmpty
  <2>2. StoreTypeOK' /\ FreeListOk'
    BY <1>1, <2>1 DEF StoreTypeOK, FreeListOk
  <2>3. id < allocated /\ \A n \in 1 .. Len(freeList') : freeList'[n] # id
    BY <2>1 DEF FreeListOk
  <2>4. id \notin InUse
    BY <2>1, InUseMeans
  <2>5. ASSUME NEW s PROVE s \in InUse' <=> s \in InUse \/ s = id
    <3>1. s \in InUse' <=> s \in SlotId /\ s < allocated
                             /\ \A n \in 1 .. Len(freeList') : freeList'[n] # s
      BY <2>1 DEF InUse, FreeSet
    <3>2. (\A n \in 1 .. Len(freeList') : freeList'[n] # s)
             <=> (\A n \in 1 .. Len(freeList) : freeList[n] # s) \/ s = id
      BY <2>1, <2>3
    <3> QED  BY <2>1, <2>3, <3>1, <3>2, InUseMeans
  <2> QED  BY <2>1, <2>2, <2>4, <2>5
<1>3. CASE freeList = << >>
  <2>1. /\ GrowBy \in Nat \ {0}
        /\ id = allocated + GrowBy - 1 /\ id \in SlotId
        /\ allocated' = allocated + GrowBy /\ allocated' \in 0 .. Capacity
        /\ freeList' \in Seq(SlotId) /\ Len(freeList') = GrowBy - 1
        /\ \A i \in 1 .. Len(freeList') : freeList'[i] = allocated + i - 1
    BY <1>3, PopFreeEmpty
  <2>2. StoreTypeOK'
    BY <1>1, <2>1 DEF StoreTypeOK
  <2>3. FreeListOk'
    BY <1>1, <2>1 DEF FreeListOk
  <2>4. id \notin InUse
    BY <1>1, <2>1, InUseMeans
  <2>5. ASSUME NEW s PROVE s \in InUse' <=> s \in InUse \/ s = id
    <3>1. s \in InUse' <=> s \in SlotId /\ s < allocated'
                             /\ \A n \in 1 .. Len(freeList') : freeList'[n] # s
      BY DEF InUse, FreeSet
    <3>2. s \in InUse <=> s \in SlotId /\ s < allocated
      BY <1>3, InUseMeans
    <3>3. ASSUME s \in InUse' PROVE s \in InUse \/ s = id
      <4>1. SUFFICES ASSUME s >= allocated, s # id PROVE FALSE
        BY <1>1, <3>1, <3>2, <3>3 DEF SlotId
      <4>2. s \in Int /\ s < allocated + GrowBy
        BY <1>1, <2>1, <3>1, <3>3 DEF SlotId
      <4>3. PICK n \in Int : n = s - allocated + 1
        BY <1>1, <4>2
      <4>4. n \in 1 .. Len(freeList') /\ allocated + n - 1 = s
        BY <1>1, <2>1, <4>1, <4>2, <4>3
      <4> QED  BY <2>1, <3>1, <3>3, <4>4, Zenon
    <3>4. ASSUME s \in InUse \/ s = id PROVE s \in InUse'
      BY <1>1, <2>1, <3>1, <3>2, <3>4 DEF SlotId
    <3> QED  BY <3>3, <3>4
  <2> QED  BY <2>1, <2>2, <2>3, <2>4, <2>5
<1> QED
  BY <1>2, <1>3

\* return_to_free gives back a slot in use, and only that one.
LEMMA ReturnGives ==
    ASSUME StoreTypeOK, FreeListOk, NEW id \in InUse, ReturnToFree(id)
    PROVE  /\ StoreTypeOK' /\ FreeListOk'
           /\ \A s : s \in InUse' <=> s \in InUse /\ s # id
<1>1. /\ id \in SlotId /\ id < allocated
      /\ \A n \in 1 .. Len(freeList) : freeList[n] # id
  BY InUseMeans
<1>2. /\ freeList' \in Seq(SlotId) /\ Len(freeList) \in Nat /\ Len(freeList') = Len(freeList) + 1
      /\ freeList'[Len(freeList) + 1] = id
      /\ \A n \in 1 .. Len(freeList) : freeList'[n] = freeList[n]
  BY <1>1, AppendToSeq DEF ReturnToFree, StoreTypeOK
<1>3. allocated' = allocated /\ slotState' = slotState
  BY DEF ReturnToFree
<1>4. StoreTypeOK'
  BY <1>2, <1>3 DEF StoreTypeOK
<1>5. FreeListOk'
  BY <1>1, <1>2, <1>3 DEF FreeListOk
<1>6. ASSUME NEW s PROVE s \in InUse' <=> s \in InUse /\ s # id
  <2>1. s \in InUse' <=> s \in SlotId /\ s < allocated
                           /\ \A n \in 1 .. Len(freeList') : freeList'[n] # s
    BY <1>3 DEF InUse, FreeSet
  <2>2. (\A n \in 1 .. Len(freeList') : freeList'[n] # s)
           <=> (\A n \in 1 .. Len(freeList) : freeList[n] # s) /\ s # id
    BY <1>2
  <2> QED  BY <2>1, <2>2, InUseMeans
<1> QED
  BY <1>4, <1>5, <1>6

-----------------------------------------------------------------------------
\* The steps are first-order; a step that needs arithmetic or sequences cites SMT.
USE ZenonT(30)

\* Where a worker has registered an id and not handed it to the I/O thread
Registering == {"reserve", "refuse", "track", "send", "unregister", "cancel"}
\* ... where its pending entry is the only thing that could wake the slot
Sending == {"send", "unregister", "cancel"}
\* where it holds the slot's mutex
Running == Registering \cup {"request", "response", "forward", "park"}
\* where the slot is its own
Holding == Running \cup {"New", "first", "again", "deliver", "readpool", "clear", "return"}

WorkerAt == Holding \cup {"idle", "Resume", "unreserve"}

IngressHolds == {"publish", "setup", "route", "push"}
IngressAt == IngressHolds \cup {"recv", "await"}

QueryOrNone == Queries \cup {NoOne}
SlotOrNone == SlotId \cup {NoOne}
KeyOrNone == DnsId \cup {NoOne}
Item == [kind : {"New", "Resume"}, done : QueryOrNone]

IngressRec == [at : IngressAt, q : QueryOrNone, slot : SlotOrNone,
               inbox : QueryOrNone]
TxnRec == [q : QueryOrNone, pool : BOOLEAN, tries : Nat, resp : QueryOrNone, gen : Nat,
           mixed : BOOLEAN]
RouteRec == [q : Queries, via : Ingress]
WorkerRec == [at : WorkerAt, slot : SlotOrNone,
              done : QueryOrNone, key : KeyOrNone, out : QueryOrNone, pool : BOOLEAN]
IoRec == [at : {"idle", "table", "resume"}, key : KeyOrNone, slot : SlotOrNone,
          done : QueryOrNone]
ResumeRec == [slot : SlotId, done : QueryOrNone]

TypeOK ==
    /\ StoreTypeOK
    /\ ing \in [Ingress -> IngressRec]
    /\ txn \in [SlotId -> TxnRec]
    /\ route \in [SlotId -> RouteRec \cup {NoOne}]
    /\ queue \in [SlotId -> Seq(Item)]
    /\ pw \in [PolicyWorkers -> WorkerRec]
    /\ lock \in [SlotId -> PolicyWorkers \cup {NoOne}]
    /\ table \in [DnsId -> SlotOrNone] /\ nextId \in DnsId
    /\ pending \in [DnsId -> SlotOrNone]
    /\ inflight \in Nat
    /\ io \in IoRec
    /\ resumeCh \in Seq(ResumeRec)
    /\ sent \subseteq [id : DnsId, q : QueryOrNone]
    /\ got \in [Queries -> Seq(QueryOrNone)]
    /\ life \in [Queries -> {"new", "open", "shed", "rejected", "done"}]
    /\ gen \in Nat

\* What a thread refers to exists.
References ==
    /\ \A i \in Ingress : /\ ing[i].at \in IngressHolds => ing[i].slot \in SlotId
                          /\ ing[i].at # "recv" => ing[i].q \in Queries
    /\ \A w \in PolicyWorkers :
          /\ pw[w].at \in Holding \cup {"Resume"} => pw[w].slot \in SlotId
          /\ pw[w].at \in Registering \cup {"park"} => pw[w].key \in DnsId
    /\ io.at # "idle" => io.key \in DnsId /\ io.slot \in SlotId

-----------------------------------------------------------------------------
(***************************************************************************)
(* Layer 1: a slot that is out of the free list has one owner at most: the *)
(* ingress thread that acquired it, a New item in the queue, or a worker.  *)
(***************************************************************************)
HasNew(s) == \E n \in 1 .. Len(queue[s]) : queue[s][n].kind = "New"

OwnedIsInUse ==
    /\ \A i \in Ingress : ing[i].at \in IngressHolds => ing[i].slot \in InUse
    /\ \A w \in PolicyWorkers : pw[w].at \in Holding => pw[w].slot \in InUse
    /\ \A s \in SlotId : HasNew(s) \/ slotState[s] # "Free" => s \in InUse

OneOwner ==
    /\ \A i, j \in Ingress :
          ing[i].at \in IngressHolds /\ ing[j].at \in IngressHolds /\ ing[i].slot = ing[j].slot
              => i = j
    /\ \A v, w \in PolicyWorkers :
          pw[v].at \in Holding /\ pw[w].at \in Holding /\ pw[v].slot = pw[w].slot => v = w
    /\ \A i \in Ingress, w \in PolicyWorkers :
          ing[i].at \in IngressHolds /\ pw[w].at \in Holding => ing[i].slot # pw[w].slot
    /\ \A s \in SlotId : \A m, n \in 1 .. Len(queue[s]) :
          queue[s][m].kind = "New" /\ queue[s][n].kind = "New" => m = n
    /\ \A s \in SlotId : HasNew(s) =>
          /\ \A i \in Ingress : ing[i].at \in IngressHolds => ing[i].slot # s
          /\ \A w \in PolicyWorkers : pw[w].at \in Holding => pw[w].slot # s

\* The slot's state is the one its owner put it in.
StateIsTheOwners ==
    /\ \A i \in Ingress :
          /\ ing[i].at = "publish" => slotState[ing[i].slot] = "Free"
          /\ ing[i].at \in IngressHolds \ {"publish"} => slotState[ing[i].slot] = "Ingress"
    /\ \A s \in SlotId : HasNew(s) => slotState[s] = "Ingress"
    /\ \A w \in PolicyWorkers :
          /\ pw[w].at = "New" => slotState[pw[w].slot] = "Ingress"
          /\ pw[w].at \in Holding \ {"New", "return"} => slotState[pw[w].slot] = "Policy"
          /\ pw[w].at = "return" => slotState[pw[w].slot] = "Free"

LockIsTheRunners ==
    /\ \A w \in PolicyWorkers : pw[w].at \in Running => lock[pw[w].slot] = w
    /\ \A s \in SlotId : lock[s] # NoOne => pw[lock[s]].at \in Running /\ pw[lock[s]].slot = s

Layer1 == FreeListOk /\ OwnedIsInUse /\ OneOwner /\ StateIsTheOwners /\ LockIsTheRunners

Owned == TypeOK /\ References /\ Layer1

-----------------------------------------------------------------------------
(***************************************************************************)
(* What the steps of a thread do to its own record; every action of a      *)
(* policy worker or an ingress thread has one of these forms.              *)
(***************************************************************************)
OthersKept(w) == \A v \in PolicyWorkers : v # w => pw'[v] = pw[v]

OtherIngressKept(i) == \A j \in Ingress : j # i => ing'[j] = ing[j]

LEMMA StepEffect ==
    ASSUME TypeOK, NEW w \in PolicyWorkers, NEW from, NEW to \in WorkerAt, Step(w, from, to)
    PROVE  /\ pw' \in [PolicyWorkers -> WorkerRec] /\ OthersKept(w)
           /\ pw[w].at = from /\ pw'[w].at = to /\ pw'[w].slot = pw[w].slot
           /\ pw'[w].key = pw[w].key /\ pw'[w].done = pw[w].done /\ pw'[w].out = pw[w].out
  BY DEF TypeOK, WorkerRec, Step, OthersKept

LEMMA MoveType ==
    ASSUME TypeOK, NEW w \in PolicyWorkers, NEW to \in WorkerAt, pw' = [pw EXCEPT ![w].at = to]
    PROVE  pw' \in [PolicyWorkers -> WorkerRec]
<1>1. pw[w] \in WorkerRec
  BY DEF TypeOK
<1>2. [pw[w] EXCEPT !.at = to] \in WorkerRec
  BY <1>1 DEF WorkerRec
<1>3. pw' = [pw EXCEPT ![w] = [pw[w] EXCEPT !.at = to]]
  BY <1>1 DEF TypeOK, WorkerRec
<1> QED
  BY <1>2, <1>3 DEF TypeOK

LEMMA ReadPoolEffect ==
    ASSUME TypeOK, NEW w \in PolicyWorkers, NEW held \in BOOLEAN,
           pw' = [pw EXCEPT ![w].at = "clear", ![w].pool = held]
    PROVE  OthersKept(w) /\ pw'[w].at = "clear" /\ pw'[w].slot = pw[w].slot
<1>1. pw \in [PolicyWorkers -> WorkerRec]
  BY DEF TypeOK
<1>2. pw[w] \in WorkerRec
  BY <1>1
<1>3. pw'[w] = [pw[w] EXCEPT !.at = "clear", !.pool = held]
  BY <1>1
<1>4. OthersKept(w)
  BY <1>1 DEF OthersKept
<1> QED
  BY <1>2, <1>3, <1>4 DEF WorkerRec

LEMMA MoveEffect ==
    ASSUME TypeOK, NEW w \in PolicyWorkers, NEW to, pw' = [pw EXCEPT ![w].at = to]
    PROVE  OthersKept(w) /\ pw'[w].at = to /\ pw'[w].slot = pw[w].slot
<1>1. pw \in [PolicyWorkers -> WorkerRec]
  BY DEF TypeOK
<1>2. pw[w] \in WorkerRec
  BY <1>1
<1>3. pw'[w] = [pw[w] EXCEPT !.at = to]
  BY <1>1
<1>4. OthersKept(w)
  BY <1>1 DEF OthersKept
<1> QED
  BY <1>2, <1>3, <1>4 DEF WorkerRec

LEMMA IdleEffect ==
    ASSUME TypeOK, NEW w \in PolicyWorkers, pw' = [pw EXCEPT ![w] = IdleWorker]
    PROVE  /\ pw' \in [PolicyWorkers -> WorkerRec] /\ OthersKept(w)
           /\ pw'[w].at = "idle" /\ pw'[w].key = NoOne
<1>1. IdleWorker \in WorkerRec
  BY DEF IdleWorker, WorkerRec, WorkerAt, SlotOrNone, QueryOrNone, KeyOrNone
<1> QED
  BY <1>1 DEF TypeOK, OthersKept, IdleWorker

LEMMA FinishEffect ==
    ASSUME TypeOK, NEW w \in PolicyWorkers, NEW out \in QueryOrNone, Finish(w, out),
           pw[w].slot \in SlotId
    PROVE  /\ pw' \in [PolicyWorkers -> WorkerRec] /\ OthersKept(w)
           /\ pw'[w].at = IF out = NoOne THEN "readpool" ELSE "deliver"
           /\ pw'[w].slot = pw[w].slot /\ pw'[w].key = NoOne /\ pw'[w].out = out
           /\ lock' \in [SlotId -> PolicyWorkers \cup {NoOne}] /\ lock'[pw[w].slot] = NoOne
           /\ \A s \in SlotId : s # pw[w].slot => lock'[s] = lock[s]
<1>1. "readpool" \in WorkerAt /\ "deliver" \in WorkerAt
  BY DEF WorkerAt, Holding
<1>2. NoOne \in KeyOrNone
  BY DEF KeyOrNone
<1>3. PICK to \in WorkerAt :
         /\ to = IF out = NoOne THEN "readpool" ELSE "deliver"
         /\ pw' = [pw EXCEPT ![w].at = to, ![w].out = out, ![w].key = NoOne]
  BY <1>1 DEF Finish
<1>4. pw' \in [PolicyWorkers -> WorkerRec] /\ OthersKept(w)
  <2>1. pw[w] \in WorkerRec
    BY DEF TypeOK
  <2>2. [pw[w] EXCEPT !.at = to, !.out = out, !.key = NoOne] \in WorkerRec
    BY <1>2, <2>1 DEF WorkerRec
  <2>3. pw' = [pw EXCEPT ![w] = [pw[w] EXCEPT !.at = to, !.out = out, !.key = NoOne]]
    BY <1>3, <2>1 DEF TypeOK, WorkerRec
  <2> QED  BY <2>2, <2>3 DEF TypeOK, OthersKept
<1>5. pw'[w].at = to /\ pw'[w].slot = pw[w].slot /\ pw'[w].key = NoOne /\ pw'[w].out = out
  BY <1>3, SMT DEF TypeOK, WorkerRec
<1>6. /\ lock' \in [SlotId -> PolicyWorkers \cup {NoOne}] /\ lock'[pw[w].slot] = NoOne
      /\ \A s \in SlotId : s # pw[w].slot => lock'[s] = lock[s]
  BY DEF TypeOK, Finish
<1> QED
  BY <1>3, <1>4, <1>5, <1>6

LEMMA IngressEffect ==
    ASSUME TypeOK, NEW i \in Ingress, NEW to \in IngressAt, ing' = [ing EXCEPT ![i].at = to]
    PROVE  /\ ing' \in [Ingress -> IngressRec] /\ OtherIngressKept(i)
           /\ ing'[i].at = to /\ ing'[i].slot = ing[i].slot /\ ing'[i].q = ing[i].q
           /\ ing'[i].inbox = ing[i].inbox
  BY DEF TypeOK, IngressRec, OtherIngressKept

LEMMA IdleIngressEffect ==
    ASSUME TypeOK, NEW i \in Ingress, ing' = [ing EXCEPT ![i] = IdleIngress]
    PROVE  /\ ing' \in [Ingress -> IngressRec] /\ OtherIngressKept(i)
           /\ ing'[i].at = "recv" /\ ing'[i].q = NoOne /\ ing'[i].inbox = NoOne
<1>1. IdleIngress \in IngressRec
  BY DEF IdleIngress, IngressRec, IngressAt, SlotOrNone, QueryOrNone
<1> QED
  BY <1>1 DEF TypeOK, OtherIngressKept, IdleIngress

LEMMA SendWireType ==
    ASSUME TypeOK, NEW w \in PolicyWorkers, pw[w].slot \in SlotId
    PROVE  SendWire(w) \in QueryOrNone
  BY DEF TypeOK, SendWire, Txn, TxnRec

LEMMA ConstantTypes ==
    /\ "first" \in WorkerAt /\ "clear" \in WorkerAt /\ "again" \in WorkerAt
    /\ "request" \in WorkerAt /\ "response" \in WorkerAt /\ "readpool" \in WorkerAt
    /\ "forward" \in WorkerAt /\ "reserve" \in WorkerAt /\ "track" \in WorkerAt
    /\ "refuse" \in WorkerAt /\ "send" \in WorkerAt /\ "park" \in WorkerAt
    /\ "unregister" \in WorkerAt /\ "cancel" \in WorkerAt /\ "return" \in WorkerAt
    /\ "unreserve" \in WorkerAt /\ "New" \in WorkerAt /\ "Resume" \in WorkerAt
    /\ "publish" \in IngressAt /\ "setup" \in IngressAt /\ "route" \in IngressAt
    /\ "push" \in IngressAt /\ "await" \in IngressAt
    /\ NoOne \in QueryOrNone /\ NoOne \in SlotOrNone /\ NoOne \in KeyOrNone
    /\ NoTxn \in TxnRec /\ IdleIo \in IoRec /\ New \in Item
  BY DEF WorkerAt, Holding, Running, Registering, IngressAt, IngressHolds, QueryOrNone,
     SlotOrNone, KeyOrNone, NoTxn, TxnRec, IdleIo, IoRec, New, Item

\* IoShard::complete keeps the types.
LEMMA IoCompleteType ==
    ASSUME TypeOK, NEW k \in DnsId, NEW done \in QueryOrNone, IoComplete(k, done)
    PROVE  TypeOK'
<1>1. pending[k] \in SlotId
  BY DEF TypeOK, IoComplete, SlotOrNone
<1>2. io' \in IoRec
  BY <1>1 DEF IoComplete, IoRec, KeyOrNone, SlotOrNone
<1>3. pending' \in [DnsId -> SlotOrNone]
  BY ConstantTypes DEF TypeOK, IoComplete
<1> QED
  BY <1>2, <1>3 DEF TypeOK, StoreTypeOK, IoComplete, storeVars, threadVars, clientVars

(***************************************************************************)
(* Every step keeps the types.                                             *)
(***************************************************************************)
LEMMA TypeStep ==
    ASSUME TypeOK, References, FreeListOk, [Next]_vars
    PROVE  TypeOK'
<1>1. ASSUME NEW i \in Ingress, IngressPublish(i) PROVE TypeOK'
  <2>1. ing' \in [Ingress -> IngressRec]
    BY <1>1, IngressEffect, ConstantTypes DEF IngressPublish
  <2> QED  BY <1>1, <2>1 DEF TypeOK, StoreTypeOK, IngressPublish, PublishIngress, SlotState, storeVars, ioVars, clientVars
<1>2. ASSUME NEW i \in Ingress, IngressSetup(i) PROVE TypeOK'
  <2>1. ing' \in [Ingress -> IngressRec]
    BY <1>2, IngressEffect, ConstantTypes DEF IngressSetup
  <2>2. ing[i].q \in QueryOrNone
    BY DEF TypeOK, IngressRec
  <2>3. [NoTxn EXCEPT !.q = ing[i].q] \in TxnRec
    BY <2>2, ConstantTypes DEF TxnRec, NoTxn
  <2>4. txn' \in [SlotId -> TxnRec]
    BY <1>2, <2>3 DEF TypeOK, IngressSetup
  <2> QED  BY <1>2, <2>1, <2>4 DEF TypeOK, StoreTypeOK, IngressSetup, storeVars, ioVars, clientVars
<1>3. ASSUME NEW i \in Ingress, IngressRoute(i) PROVE TypeOK'
  <2>1. ing' \in [Ingress -> IngressRec]
    BY <1>3, IngressEffect, ConstantTypes DEF IngressRoute
  <2>2. ing[i].q \in Queries
    BY <1>3 DEF References, IngressRoute
  <2>3. [q |-> ing[i].q, via |-> i] \in RouteRec
    BY <2>2 DEF RouteRec
  <2>4. route' \in [SlotId -> RouteRec \cup {NoOne}]
    BY <1>3, <2>3 DEF TypeOK, IngressRoute
  <2> QED  BY <1>3, <2>1, <2>4 DEF TypeOK, StoreTypeOK, IngressRoute, storeVars, ioVars, clientVars
<1>4. ASSUME NEW i \in Ingress, IngressPush(i) PROVE TypeOK'
  <2>1. ing' \in [Ingress -> IngressRec]
    <3>1. CASE i \in TcpIngress
      <4>1. ing' = [ing EXCEPT ![i].at = "await"]
        BY <1>4, <3>1 DEF IngressPush
      <4> QED  BY <4>1, IngressEffect, ConstantTypes
    <3>2. CASE i \notin TcpIngress
      BY <1>4, <3>2, IdleIngressEffect DEF IngressPush
    <3> QED  BY <3>1, <3>2
  <2>2. ing[i].slot \in SlotId
    BY <1>4 DEF References, IngressPush, IngressHolds
  <2>3. Append(queue[ing[i].slot], New) \in Seq(Item)
    BY <2>2, AppendToSeq, ConstantTypes DEF TypeOK
  <2>4. queue' \in [SlotId -> Seq(Item)]
    BY <1>4, <2>3 DEF TypeOK, IngressPush
  <2> QED  BY <1>4, <2>1, <2>4 DEF TypeOK, StoreTypeOK, IngressPush, storeVars, ioVars, clientVars
<1>5. ASSUME NEW i \in Ingress, IngressAwait(i) PROVE TypeOK'
  <2>1. ing' \in [Ingress -> IngressRec]
    BY <1>5, IdleIngressEffect DEF IngressAwait
  <2>2. ing[i].q \in Queries /\ ing[i].inbox \in QueryOrNone
    BY <1>5 DEF TypeOK, References, IngressAwait, IngressRec
  <2>3. Append(got[ing[i].q], ing[i].inbox) \in Seq(QueryOrNone)
    BY <2>2, AppendToSeq DEF TypeOK
  <2>4. got' \in [Queries -> Seq(QueryOrNone)]
    BY <1>5, <2>3 DEF TypeOK, IngressAwait
  <2> QED  BY <1>5, <2>1, <2>4 DEF TypeOK, StoreTypeOK, IngressAwait, storeVars, ioVars, clientVars
<1>6. ASSUME NEW i \in Ingress, NEW q \in Queries, IngressAcquire(i, q) PROVE TypeOK'
  <2>1. StoreTypeOK'
    <3>1. CASE UNCHANGED storeVars
      BY <3>1 DEF TypeOK, StoreTypeOK, storeVars
    <3>2. CASE \E id \in SlotId : PopFree(id)
      BY <3>2, PopFreeTakes DEF TypeOK
    <3> QED  BY <1>6, <3>1, <3>2 DEF IngressAcquire
  <2>2. ing' \in [Ingress -> IngressRec]
    <3>1. ASSUME NEW id \in SlotId PROVE [at |-> "publish", q |-> q, slot |-> id, inbox |-> NoOne] \in IngressRec
      BY ConstantTypes DEF IngressRec, QueryOrNone, SlotOrNone
    <3> QED  BY <1>6, <3>1 DEF TypeOK, IngressAcquire
  <2>3. life' \in [Queries -> {"new", "open", "shed", "rejected", "done"}]
    BY <1>6 DEF TypeOK, IngressAcquire
  <2> QED  BY <1>6, <2>1, <2>2, <2>3 DEF TypeOK, IngressAcquire, ioVars
<1>7. ASSUME NEW w \in PolicyWorkers, NEW s \in SlotId, Pop(w, s) PROVE TypeOK'
  <2>1. /\ Head(queue[s]) \in Item /\ Tail(queue[s]) \in Seq(Item)
    BY <1>7, TailOfSeq DEF TypeOK, Pop
  <2>2. [IdleWorker EXCEPT !.at = Head(queue[s]).kind, !.slot = s, !.done = Head(queue[s]).done]
           \in WorkerRec
    BY <2>1, ConstantTypes DEF WorkerRec, IdleWorker, Item, SlotOrNone
  <2>3. pw' \in [PolicyWorkers -> WorkerRec]
    BY <1>7, <2>2 DEF TypeOK, Pop
  <2>4. queue' \in [SlotId -> Seq(Item)]
    BY <1>7, <2>1 DEF TypeOK, Pop
  <2> QED  BY <1>7, <2>3, <2>4 DEF TypeOK, StoreTypeOK, Pop, storeVars, ioVars, clientVars
<1>8. ASSUME NEW w \in PolicyWorkers, ProcessNew(w) PROVE TypeOK'
  <2>1. pw' \in [PolicyWorkers -> WorkerRec]
    BY <1>8, StepEffect, ConstantTypes DEF ProcessNew
  <2>2. StoreTypeOK'
    BY <1>8 DEF TypeOK, StoreTypeOK, ProcessNew, SetState, SlotState, storeVars
  <2> QED  BY <1>8, <2>1, <2>2 DEF TypeOK, ProcessNew, ioVars, clientVars
<1>9. ASSUME NEW w \in PolicyWorkers, ProcessResume(w) PROVE TypeOK'
  <2>1. pw' \in [PolicyWorkers -> WorkerRec]
    BY <1>9, StepEffect, IdleEffect, ConstantTypes DEF ProcessResume
  <2>2. StoreTypeOK'
    BY <1>9 DEF TypeOK, StoreTypeOK, ProcessResume, SetState, SlotState, storeVars
  <2>3. pw[w].done \in QueryOrNone
    BY DEF TypeOK, WorkerRec
  <2>4. txn' \in [SlotId -> TxnRec]
    <3>1. CASE txn' = txn
      BY <3>1 DEF TypeOK
    <3>2. CASE txn' = [txn EXCEPT ![pw[w].slot].resp = pw[w].done]
      <4>1. txn[pw[w].slot] \in TxnRec
        BY <1>9 DEF TypeOK, References, ProcessResume
      <4>2. [txn[pw[w].slot] EXCEPT !.resp = pw[w].done] \in TxnRec
        BY <2>3, <4>1 DEF TxnRec
      <4> QED  BY <3>2, <4>2 DEF TypeOK
    <3> QED  BY <1>9, <3>1, <3>2 DEF ProcessResume
  <2> QED  BY <1>9, <2>1, <2>2, <2>4 DEF TypeOK, ProcessResume, ioVars, clientVars
<1>10. ASSUME NEW w \in PolicyWorkers, RunBegin(w) PROVE TypeOK'
  <2>1. pw' \in [PolicyWorkers -> WorkerRec]
    <3>1. PICK to \in WorkerAt : pw' = [pw EXCEPT ![w].at = to]
      BY <1>10, ConstantTypes DEF RunBegin
    <3> QED  BY <3>1, MoveType
  <2>2. txn' \in [SlotId -> TxnRec]
    <3>1. txn[pw[w].slot] \in TxnRec /\ gen \in Nat
      BY <1>10 DEF TypeOK, References, RunBegin, Holding
    <3>2. [txn[pw[w].slot] EXCEPT !.gen = gen] \in TxnRec
      BY <3>1 DEF TxnRec
    <3>3. [txn[pw[w].slot] EXCEPT !.mixed = Txn(w).mixed \/ gen # Txn(w).gen] \in TxnRec
      BY <3>1 DEF TxnRec, Txn
    <3> DEFINE r == IF pw[w].at = "first" THEN [txn[pw[w].slot] EXCEPT !.gen = gen]
                    ELSE [txn[pw[w].slot] EXCEPT !.mixed = Txn(w).mixed \/ gen # Txn(w).gen]
    <3>4. r \in TxnRec
      BY <3>2, <3>3
    <3>5. txn' = txn \/ txn' = [txn EXCEPT ![pw[w].slot] = r]
      BY <1>10 DEF RunBegin
    <3> HIDE DEF r
    <3> QED  BY <3>4, <3>5 DEF TypeOK
  <2>3. lock' \in [SlotId -> PolicyWorkers \cup {NoOne}]
    BY <1>10 DEF TypeOK, RunBegin
  <2> QED  BY <1>10, <2>1, <2>2, <2>3 DEF TypeOK, StoreTypeOK, RunBegin, storeVars, ioVars, clientVars
<1>11. ASSUME NEW w \in PolicyWorkers, RunRequest(w) PROVE TypeOK'
  <2>1. pw[w].slot \in SlotId
    BY <1>11 DEF References, RunRequest, Holding, Running, Registering
  <2>2. /\ pw' \in [PolicyWorkers -> WorkerRec]
        /\ lock' \in [SlotId -> PolicyWorkers \cup {NoOne}]
    <3>1. ASSUME NEW out \in {NoOne, SendWire(w)}, Finish(w, out)
          PROVE  /\ pw' \in [PolicyWorkers -> WorkerRec]
                 /\ lock' \in [SlotId -> PolicyWorkers \cup {NoOne}]
      <4>1. out \in QueryOrNone
        BY <2>1, SendWireType, ConstantTypes
      <4> QED  BY <2>1, <3>1, <4>1, FinishEffect
    <3>2. ASSUME NEW from, Step(w, from, "forward"), UNCHANGED lock
          PROVE  /\ pw' \in [PolicyWorkers -> WorkerRec]
                 /\ lock' \in [SlotId -> PolicyWorkers \cup {NoOne}]
      BY <3>2, StepEffect, ConstantTypes DEF TypeOK
    <3> QED  BY <1>11, <3>1, <3>2 DEF RunRequest
  <2>3. txn' \in [SlotId -> TxnRec]
    <3>1. PICK p \in BOOLEAN : txn' = [txn EXCEPT ![pw[w].slot].pool = p]
      BY <1>11 DEF RunRequest
    <3>2. txn[pw[w].slot] \in TxnRec
      BY <2>1 DEF TypeOK
    <3>3. [txn[pw[w].slot] EXCEPT !.pool = p] \in TxnRec
      BY <3>2 DEF TxnRec
    <3> QED  BY <3>1, <3>3 DEF TypeOK
  <2> QED  BY <1>11, <2>2, <2>3 DEF TypeOK, StoreTypeOK, RunRequest, storeVars, ioVars, clientVars
<1>12. ASSUME NEW w \in PolicyWorkers, RunResponse(w) PROVE TypeOK'
  <2>1. pw[w].slot \in SlotId
    BY <1>12 DEF References, RunResponse, Holding, Running, Registering
  <2>2. /\ pw' \in [PolicyWorkers -> WorkerRec]
        /\ lock' \in [SlotId -> PolicyWorkers \cup {NoOne}]
    <3>1. ASSUME NEW out \in {NoOne, SendWire(w)}, Finish(w, out)
          PROVE  /\ pw' \in [PolicyWorkers -> WorkerRec]
                 /\ lock' \in [SlotId -> PolicyWorkers \cup {NoOne}]
      <4>1. out \in QueryOrNone
        BY <2>1, SendWireType, ConstantTypes
      <4> QED  BY <2>1, <3>1, <4>1, FinishEffect
    <3>2. ASSUME NEW from, Step(w, from, "forward"), UNCHANGED lock
          PROVE  /\ pw' \in [PolicyWorkers -> WorkerRec]
                 /\ lock' \in [SlotId -> PolicyWorkers \cup {NoOne}]
      BY <3>2, StepEffect, ConstantTypes DEF TypeOK
    <3> QED  BY <1>12, <3>1, <3>2 DEF RunResponse
  <2> QED  BY <1>12, <2>2 DEF TypeOK, StoreTypeOK, RunResponse, storeVars, ioVars, clientVars
<1>13. ASSUME NEW w \in PolicyWorkers, RegisterKey(w) PROVE TypeOK'
  <2>1. pw[w].slot \in SlotId
    BY <1>13 DEF References, RegisterKey, Holding, Running, Registering
  <2>2. SendWire(w) \in QueryOrNone
    BY <2>1, SendWireType
  <2>3. /\ pw' \in [PolicyWorkers -> WorkerRec]
        /\ lock' \in [SlotId -> PolicyWorkers \cup {NoOne}]
    <3>1. CASE Finish(w, SendWire(w))
      BY <2>1, <2>2, <3>1, FinishEffect
    <3>2. ASSUME NEW k \in DnsId, pw' = [pw EXCEPT ![w].at = "reserve", ![w].key = k],
                 UNCHANGED lock
          PROVE  /\ pw' \in [PolicyWorkers -> WorkerRec]
                 /\ lock' \in [SlotId -> PolicyWorkers \cup {NoOne}]
      <4>1. pw[w] \in WorkerRec
        BY DEF TypeOK
      <4>2. [pw[w] EXCEPT !.at = "reserve", !.key = k] \in WorkerRec
        BY <3>2, <4>1, ConstantTypes DEF WorkerRec, KeyOrNone
      <4>3. pw' = [pw EXCEPT ![w] = [pw[w] EXCEPT !.at = "reserve", !.key = k]]
        BY <3>2, <4>1 DEF TypeOK, WorkerRec
      <4> QED  BY <3>2, <4>2, <4>3 DEF TypeOK
    <3> QED  BY <1>13, <3>1, <3>2 DEF RegisterKey
  <2>4. txn' \in [SlotId -> TxnRec]
    <3>1. CASE txn' = txn
      BY <3>1 DEF TypeOK
    <3>2. CASE txn' = [txn EXCEPT ![pw[w].slot].tries = @ + 1, ![pw[w].slot].pool = TRUE]
      <4>1. txn[pw[w].slot] \in TxnRec
        BY <2>1 DEF TypeOK
      <4>2. [txn[pw[w].slot] EXCEPT !.tries = @ + 1, !.pool = TRUE] \in TxnRec
        <5>1. PICK n \in Nat : n = txn[pw[w].slot].tries + 1
          BY <4>1, SMT DEF TxnRec
        <5>2. [txn[pw[w].slot] EXCEPT !.tries = n, !.pool = TRUE] \in TxnRec
          BY <4>1 DEF TxnRec
        <5> QED  BY <5>1, <5>2
      <4>3. txn' = [txn EXCEPT ![pw[w].slot] =
                      [txn[pw[w].slot] EXCEPT !.tries = @ + 1, !.pool = TRUE]]
        BY <2>1, <3>2, <4>1 DEF TypeOK, TxnRec
      <4> QED  BY <4>2, <4>3 DEF TypeOK
    <3> QED  BY <1>13, <3>1, <3>2 DEF RegisterKey
  <2>5. table' \in [DnsId -> SlotOrNone]
    BY <1>13, <2>1 DEF TypeOK, SlotOrNone, RegisterKey
  <2>6. nextId' \in DnsId
    <3>1. IdSpace \in Nat \ {0} /\ nextId \in 0 .. IdSpace - 1
      BY SplitIoAssumption DEF TypeOK, DnsId
    <3>2. (nextId + 1) % IdSpace \in 0 .. IdSpace - 1
      BY <3>1, SMT
    <3> QED  BY <1>13, <3>2 DEF TypeOK, DnsId, RegisterKey
  <2> QED  BY <1>13, <2>3, <2>4, <2>5, <2>6 DEF TypeOK, StoreTypeOK, RegisterKey, storeVars, clientVars
<1>14. ASSUME NEW w \in PolicyWorkers, TryAcquire(w) PROVE TypeOK'
  <2>1. pw' \in [PolicyWorkers -> WorkerRec]
    BY <1>14, StepEffect, ConstantTypes DEF TryAcquire
  <2> QED  BY <1>14, <2>1, SMT DEF TypeOK, StoreTypeOK, TryAcquire, storeVars, ioVars, clientVars
<1>15. ASSUME NEW w \in PolicyWorkers, RefuseAtCap(w) PROVE TypeOK'
  <2>1. pw[w].slot \in SlotId
    BY <1>15 DEF References, RefuseAtCap, Holding, Running, Registering
  <2>2. /\ pw' \in [PolicyWorkers -> WorkerRec]
        /\ lock' \in [SlotId -> PolicyWorkers \cup {NoOne}]
    BY <1>15, <2>1, SendWireType, FinishEffect DEF RefuseAtCap
  <2>3. table' \in [DnsId -> SlotOrNone]
    BY <1>15, ConstantTypes DEF TypeOK, RefuseAtCap
  <2> QED  BY <1>15, <2>2, <2>3 DEF TypeOK, StoreTypeOK, RefuseAtCap, storeVars, ioVars, clientVars
<1>16. ASSUME NEW w \in PolicyWorkers, TrackPending(w) PROVE TypeOK'
  <2>1. pw[w].slot \in SlotId
    BY <1>16 DEF References, TrackPending, Holding, Running, Registering
  <2>2. /\ pw' \in [PolicyWorkers -> WorkerRec]
        /\ lock' \in [SlotId -> PolicyWorkers \cup {NoOne}]
    <3>1. CASE Finish(w, SendWire(w))
      BY <2>1, <3>1, SendWireType, FinishEffect
    <3>2. CASE Step(w, "track", "send") /\ UNCHANGED lock
      BY <3>2, StepEffect, ConstantTypes DEF TypeOK
    <3> QED  BY <1>16, <3>1, <3>2 DEF TrackPending
  <2>3. pending' \in [DnsId -> SlotOrNone] /\ table' \in [DnsId -> SlotOrNone]
    BY <1>16, <2>1, ConstantTypes DEF TypeOK, TrackPending, SlotOrNone
  <2>4. inflight' \in Nat
    BY <1>16, SMT DEF TypeOK, TrackPending, PoolRelease
  <2> QED  BY <1>16, <2>2, <2>3, <2>4 DEF TypeOK, StoreTypeOK, TrackPending, storeVars, ioVars, clientVars
<1>17. ASSUME NEW w \in PolicyWorkers, SendUpstream(w) PROVE TypeOK'
  <2>1. pw[w].slot \in SlotId /\ pw[w].key \in DnsId
    BY <1>17 DEF References, SendUpstream, Holding, Running, Registering
  <2>2. pw' \in [PolicyWorkers -> WorkerRec]
    BY <1>17, StepEffect, ConstantTypes DEF SendUpstream
  <2>3. Txn(w).q \in QueryOrNone
    BY <2>1 DEF TypeOK, Txn, TxnRec
  <2>4. sent' \subseteq [id : DnsId, q : QueryOrNone]
    BY <1>17, <2>1, <2>3, SMT DEF TypeOK, SendUpstream
  <2>5. inflight' \in Nat
    BY <1>17, SMT DEF TypeOK, SendUpstream, PoolRelease
  <2> QED  BY <1>17, <2>2, <2>4, <2>5 DEF TypeOK, StoreTypeOK, SendUpstream, storeVars, ioVars, clientVars
<1>18. ASSUME NEW w \in PolicyWorkers, Unregister(w) PROVE TypeOK'
  <2>1. pw' \in [PolicyWorkers -> WorkerRec]
    BY <1>18, StepEffect, ConstantTypes DEF Unregister
  <2>2. table' \in [DnsId -> SlotOrNone]
    BY <1>18, ConstantTypes DEF TypeOK, Unregister
  <2> QED  BY <1>18, <2>1, <2>2 DEF TypeOK, StoreTypeOK, Unregister, storeVars, ioVars, clientVars
<1>19. ASSUME NEW w \in PolicyWorkers, CancelPending(w) PROVE TypeOK'
  <2>1. pw[w].slot \in SlotId
    BY <1>19 DEF References, CancelPending, Holding, Running, Registering
  <2>2. /\ pw' \in [PolicyWorkers -> WorkerRec]
        /\ lock' \in [SlotId -> PolicyWorkers \cup {NoOne}]
    BY <1>19, <2>1, SendWireType, FinishEffect DEF CancelPending
  <2>3. pending' \in [DnsId -> SlotOrNone]
    BY <1>19, ConstantTypes DEF TypeOK, CancelPending
  <2> QED  BY <1>19, <2>2, <2>3 DEF TypeOK, StoreTypeOK, CancelPending, storeVars, ioVars, clientVars
<1>20. ASSUME NEW w \in PolicyWorkers, Park(w) PROVE TypeOK'
  <2>1. pw' \in [PolicyWorkers -> WorkerRec]
    BY <1>20, IdleEffect DEF Park
  <2>2. StoreTypeOK'
    BY <1>20 DEF TypeOK, StoreTypeOK, Park, SetState, SlotState
  <2>3. lock' \in [SlotId -> PolicyWorkers \cup {NoOne}]
    BY <1>20 DEF TypeOK, Park
  <2> QED  BY <1>20, <2>1, <2>2, <2>3 DEF TypeOK, Park, ioVars, clientVars
<1>21. ASSUME NEW w \in PolicyWorkers, DeliverReply(w) PROVE TypeOK'
  <2>1. pw[w].slot \in SlotId /\ pw[w].out \in QueryOrNone
    BY <1>21 DEF TypeOK, WorkerRec, References, DeliverReply, Holding
  <2>2. pw' \in [PolicyWorkers -> WorkerRec]
    BY <1>21, StepEffect, ConstantTypes DEF DeliverReply
  <2>3. route' \in [SlotId -> RouteRec \cup {NoOne}]
    BY <1>21 DEF TypeOK, DeliverReply
  <2>4. ing' \in [Ingress -> IngressRec] /\ got' \in [Queries -> Seq(QueryOrNone)]
    <3>1. CASE route[pw[w].slot] = NoOne
      BY <1>21, <3>1 DEF TypeOK, DeliverReply
    <3>2. CASE route[pw[w].slot] # NoOne
      <4>1. route[pw[w].slot].q \in Queries /\ route[pw[w].slot].via \in Ingress
        BY <2>1, <3>2 DEF TypeOK, RouteRec
      <4>2. Append(got[route[pw[w].slot].q], pw[w].out) \in Seq(QueryOrNone)
        BY <2>1, <4>1, AppendToSeq DEF TypeOK
      <4>3. CASE route[pw[w].slot].via \in UdpIngress
        BY <1>21, <3>2, <4>1, <4>2, <4>3 DEF TypeOK, DeliverReply
      <4>4. CASE route[pw[w].slot].via \notin UdpIngress
        <5>1. ing' = ing \/ ing' = [ing EXCEPT ![route[pw[w].slot].via].inbox = pw[w].out]
          BY <1>21, <3>2, <4>4 DEF DeliverReply
        <5>2. ing' \in [Ingress -> IngressRec]
          <6>1. ing[route[pw[w].slot].via] \in IngressRec
            BY <4>1 DEF TypeOK
          <6>2. [ing[route[pw[w].slot].via] EXCEPT !.inbox = pw[w].out] \in IngressRec
            BY <2>1, <6>1 DEF IngressRec
          <6> QED  BY <5>1, <6>2 DEF TypeOK
        <5> QED  BY <1>21, <3>2, <4>4, <5>2 DEF TypeOK, DeliverReply
      <4> QED  BY <4>3, <4>4
    <3> QED  BY <3>1, <3>2
  <2> QED  BY <1>21, <2>2, <2>3, <2>4 DEF TypeOK, StoreTypeOK, DeliverReply, storeVars, ioVars
<1>22. ASSUME NEW w \in PolicyWorkers, ReadPool(w) PROVE TypeOK'
  <2>1. PICK held \in BOOLEAN : pw' = [pw EXCEPT ![w].at = "clear", ![w].pool = held]
    BY <1>22 DEF ReadPool
  <2>2. pw' \in [PolicyWorkers -> WorkerRec]
    <3>1. pw[w] \in WorkerRec
      BY DEF TypeOK
    <3>2. [pw[w] EXCEPT !.at = "clear", !.pool = held] \in WorkerRec
      BY <3>1, ConstantTypes DEF WorkerRec
    <3>3. pw' = [pw EXCEPT ![w] = [pw[w] EXCEPT !.at = "clear", !.pool = held]]
      BY <2>1, <3>1 DEF TypeOK, WorkerRec
    <3> QED  BY <3>2, <3>3 DEF TypeOK
  <2> QED  BY <1>22, <2>2 DEF TypeOK, StoreTypeOK, ReadPool, storeVars, ioVars, clientVars
<1>23. ASSUME NEW w \in PolicyWorkers, ReleaseClear(w) PROVE TypeOK'
  <2>1. pw' \in [PolicyWorkers -> WorkerRec]
    <3>1. PICK to \in WorkerAt : pw' = [pw EXCEPT ![w].at = to]
      BY <1>23, ConstantTypes DEF ReleaseClear
    <3> QED  BY <3>1, MoveType
  <2>2. StoreTypeOK'
    BY <1>23 DEF TypeOK, StoreTypeOK, ReleaseClear, ClearSlot, SlotState
  <2>3. txn' \in [SlotId -> TxnRec]
    BY <1>23, ConstantTypes DEF TypeOK, ReleaseClear
  <2>4. life' \in [Queries -> {"new", "open", "shed", "rejected", "done"}]
    BY <1>23 DEF TypeOK, ReleaseClear
  <2> QED  BY <1>23, <2>1, <2>2, <2>3, <2>4 DEF TypeOK, ReleaseClear, ioVars
<1>24. ASSUME NEW w \in PolicyWorkers, ReleaseReturn(w) PROVE TypeOK'
  <2>1. pw' \in [PolicyWorkers -> WorkerRec]
    BY <1>24, StepEffect, ConstantTypes DEF ReleaseReturn
  <2>2. pw[w].slot \in SlotId
    BY <1>24 DEF References, ReleaseReturn, Holding
  <2>3. StoreTypeOK'
    BY <1>24, <2>2, AppendToSeq DEF TypeOK, StoreTypeOK, ReleaseReturn, ReturnToFree
  <2> QED  BY <1>24, <2>1, <2>3 DEF TypeOK, ReleaseReturn, ioVars, clientVars
<1>25. ASSUME NEW w \in PolicyWorkers, ReleasePool(w) PROVE TypeOK'
  <2>1. pw' \in [PolicyWorkers -> WorkerRec]
    BY <1>25, IdleEffect DEF ReleasePool
  <2>2. inflight' \in Nat
    BY <1>25, SMT DEF TypeOK, ReleasePool, PoolRelease
  <2> QED  BY <1>25, <2>1, <2>2 DEF TypeOK, StoreTypeOK, ReleasePool, storeVars, ioVars, clientVars
<1>26. ASSUME NEW m \in sent, HandleReply(m) PROVE TypeOK'
  BY <1>26, IoCompleteType DEF TypeOK, HandleReply
<1>27. ASSUME NEW m \in sent, UpstreamDone(m) PROVE TypeOK'
  BY <1>27 DEF TypeOK, StoreTypeOK, UpstreamDone, storeVars, ioVars, clientVars, threadVars
<1>28. ASSUME NEW k \in DnsId, PollTimeouts(k) PROVE TypeOK'
  BY <1>28, IoCompleteType, ConstantTypes DEF PollTimeouts
<1>29. CASE IoTableRemove
  <2>1. io' \in IoRec
    BY <1>29 DEF TypeOK, IoRec, IoTableRemove
  <2>2. table' \in [DnsId -> SlotOrNone]
    BY <1>29, ConstantTypes DEF TypeOK, IoTableRemove
  <2> QED  BY <1>29, <2>1, <2>2 DEF TypeOK, StoreTypeOK, IoTableRemove, storeVars, ioVars, clientVars, threadVars
<1>30. CASE IoSendResume
  <2>1. [slot |-> io.slot, done |-> io.done] \in ResumeRec
    BY <1>30 DEF TypeOK, References, IoRec, ResumeRec, IoSendResume
  <2>2. resumeCh' \in Seq(ResumeRec)
    BY <1>30, <2>1, AppendToSeq DEF TypeOK, IoSendResume
  <2> QED  BY <1>30, <2>2, ConstantTypes DEF TypeOK, StoreTypeOK, IoSendResume, storeVars, ioVars, clientVars, threadVars
<1>31. CASE ForwardResume
  <2>1. Head(resumeCh) \in ResumeRec /\ Tail(resumeCh) \in Seq(ResumeRec)
    BY <1>31, TailOfSeq DEF TypeOK, ForwardResume
  <2>2. Head(resumeCh).slot \in SlotId /\ Resume(Head(resumeCh).done) \in Item
    BY <2>1 DEF ResumeRec, Resume, Item
  <2>3. Append(queue[Head(resumeCh).slot], Resume(Head(resumeCh).done)) \in Seq(Item)
    BY <2>2, AppendToSeq DEF TypeOK
  <2>4. queue' \in [SlotId -> Seq(Item)]
    BY <1>31, <2>3 DEF TypeOK, ForwardResume
  <2> QED  BY <1>31, <2>1, <2>4 DEF TypeOK, StoreTypeOK, ForwardResume, storeVars, ioVars, clientVars, threadVars
<1>32. CASE Reload
  BY <1>32, SMT DEF TypeOK, StoreTypeOK, Reload, storeVars, ioVars, clientVars, threadVars
<1>33. CASE UNCHANGED vars
  BY <1>33 DEF TypeOK, StoreTypeOK, vars
<1> QED
  BY <1>1, <1>2, <1>3, <1>4, <1>5, <1>6, <1>7, <1>8, <1>9, <1>10, <1>11, <1>12,
     <1>13, <1>14, <1>15, <1>16, <1>17, <1>18, <1>19, <1>20, <1>21, <1>22,
     <1>23, <1>24, <1>25, <1>26, <1>27, <1>28, <1>29, <1>30, <1>31, <1>32, <1>33
     DEF Next, IngressStep, PolicyStep, IoStep

-----------------------------------------------------------------------------
(***************************************************************************)
(* Layer 1, by the form of the step.                                       *)
(***************************************************************************)
SameIngress ==
    \A j \in Ingress :
        ing'[j].at = ing[j].at /\ ing'[j].slot = ing[j].slot /\ ing'[j].q = ing[j].q

SameNews ==
    \A s \in SlotId :
        /\ HasNew(s)' <=> HasNew(s)
        /\ (\A m, n \in 1 .. Len(queue[s]) :
               queue[s][m].kind = "New" /\ queue[s][n].kind = "New" => m = n)'

NewsAre(s, has) ==
    /\ HasNew(s)' <=> has
    /\ (\A m, n \in 1 .. Len(queue[s]) :
          queue[s][m].kind = "New" /\ queue[s][n].kind = "New" => m = n)'

\* No slot gets a new owner.
LEMMA OneOwnerKept ==
    ASSUME OneOwner,
           \A i \in Ingress : ing'[i].at \in IngressHolds =>
              ing[i].at \in IngressHolds /\ ing'[i].slot = ing[i].slot,
           \A v \in PolicyWorkers : pw'[v].at \in Holding =>
              pw[v].at \in Holding /\ pw'[v].slot = pw[v].slot,
           SameNews
    PROVE  OneOwner'
<1>1. \A i, j \in Ingress :
         ing'[i].at \in IngressHolds /\ ing'[j].at \in IngressHolds /\ ing'[i].slot = ing'[j].slot
             => i = j
  BY DEF OneOwner
<1>2. \A v, w \in PolicyWorkers :
         pw'[v].at \in Holding /\ pw'[w].at \in Holding /\ pw'[v].slot = pw'[w].slot => v = w
  BY DEF OneOwner
<1>3. ASSUME NEW i \in Ingress, NEW w \in PolicyWorkers,
             ing'[i].at \in IngressHolds, pw'[w].at \in Holding
      PROVE  ing'[i].slot # pw'[w].slot
  <2>1. ing[i].slot # pw[w].slot
    BY <1>3 DEF OneOwner
  <2> QED  BY <1>3, <2>1
<1>4. ASSUME NEW s \in SlotId, HasNew(s)'
      PROVE  /\ \A i \in Ingress : ing'[i].at \in IngressHolds => ing'[i].slot # s
             /\ \A w \in PolicyWorkers : pw'[w].at \in Holding => pw'[w].slot # s
  BY <1>4 DEF OneOwner, SameNews
<1> QED
  BY <1>1, <1>2, <1>3, <1>4 DEF OneOwner, SameNews

NewsButOf(t) == \A s \in SlotId : NewsAre(s, HasNew(s) /\ s # t)

\* A worker takes a slot that nobody else has.
LEMMA OneOwnerTaken ==
    ASSUME OneOwner, NEW w \in PolicyWorkers, NEW t, OthersKept(w), UNCHANGED ing,
           pw'[w].at \in Holding => pw'[w].slot = t,
           \A i \in Ingress : ing[i].at \in IngressHolds => ing[i].slot # t,
           \A v \in PolicyWorkers : v # w /\ pw[v].at \in Holding => pw[v].slot # t,
           NewsButOf(t)
    PROVE  OneOwner'
<1>1. \A u, v \in PolicyWorkers :
         pw'[u].at \in Holding /\ pw'[v].at \in Holding /\ pw'[u].slot = pw'[v].slot => u = v
  <2>1. ASSUME NEW v \in PolicyWorkers, v # w, pw'[v].at \in Holding, pw'[w].at \in Holding
        PROVE  pw'[v].slot # pw'[w].slot
    BY <2>1 DEF OthersKept
  <2>2. ASSUME NEW u \in PolicyWorkers, NEW v \in PolicyWorkers, u # w, v # w,
               pw'[u].at \in Holding, pw'[v].at \in Holding, pw'[u].slot = pw'[v].slot
        PROVE  u = v
    BY <2>2 DEF OthersKept, OneOwner
  <2> QED  BY <2>1, <2>2
<1>2. ASSUME NEW i \in Ingress, NEW v \in PolicyWorkers,
             ing'[i].at \in IngressHolds, pw'[v].at \in Holding
      PROVE  ing'[i].slot # pw'[v].slot
  BY <1>2 DEF OthersKept, OneOwner
<1>3. ASSUME NEW s \in SlotId, HasNew(s)'
      PROVE  /\ \A i \in Ingress : ing'[i].at \in IngressHolds => ing'[i].slot # s
             /\ \A v \in PolicyWorkers : pw'[v].at \in Holding => pw'[v].slot # s
  <2>1. HasNew(s) /\ s # t
    BY <1>3 DEF NewsButOf, NewsAre
  <2> QED  BY <2>1 DEF OthersKept, OneOwner
<1>4. \A i, j \in Ingress :
         ing'[i].at \in IngressHolds /\ ing'[j].at \in IngressHolds /\ ing'[i].slot = ing'[j].slot
             => i = j
  BY DEF OneOwner
<1> QED
  BY <1>1, <1>2, <1>3, <1>4 DEF OneOwner, NewsButOf, NewsAre

\* Only the owner of a slot has its mutex.
LEMMA LockIsFree ==
    ASSUME TypeOK, References, Layer1, NEW w \in PolicyWorkers, pw[w].at \in Holding \ Running
    PROVE  lock[pw[w].slot] = NoOne
<1>1. pw[w].slot \in SlotId
  BY DEF References
<1>2. lock[pw[w].slot] \in PolicyWorkers \cup {NoOne}
  BY <1>1 DEF TypeOK
<1>3. SUFFICES ASSUME NEW v \in PolicyWorkers, lock[pw[w].slot] = v, v # NoOne PROVE FALSE
  BY <1>2
<1>4. pw[v].at \in Running /\ pw[v].slot = pw[w].slot
  BY <1>1, <1>3 DEF Layer1, LockIsTheRunners
<1>5. v = w
  BY <1>4 DEF Layer1, OneOwner, Holding
<1> QED
  BY <1>4, <1>5

LEMMA SameInUse ==
    ASSUME UNCHANGED <<freeList, allocated>>
    PROVE  InUse' = InUse
  BY DEF InUse, FreeSet

LEMMA QueueUnchangedNews ==
    ASSUME UNCHANGED queue, OneOwner
    PROVE  SameNews
  BY DEF SameNews, HasNew, OneOwner

\* A worker works on its slot between Policy and the end of the release.
LEMMA Layer1Works ==
    ASSUME TypeOK, References, Layer1, NEW w \in PolicyWorkers, OthersKept(w),
           pw[w].at \in Holding \ {"New", "return"}, pw'[w].at \in Holding \ {"New", "return"},
           pw'[w].slot = pw[w].slot, UNCHANGED <<storeVars, queue>>, SameIngress,
           \A s \in SlotId : s # pw[w].slot => lock'[s] = lock[s],
           lock'[pw[w].slot] = IF pw'[w].at \in Running THEN w ELSE NoOne
    PROVE  Layer1'
<1>1. InUse' = InUse /\ SameNews
  BY SameInUse, QueueUnchangedNews DEF storeVars, Layer1
<1>2. slotState' = slotState /\ pw[w].slot \in SlotId
  BY DEF storeVars, References
<1>3. FreeListOk'
  BY DEF FreeListOk, Layer1, storeVars
<1>4. OwnedIsInUse'
  BY <1>1, <1>2 DEF Layer1, OwnedIsInUse, OthersKept, SameIngress, SameNews
<1>5. OneOwner'
  BY <1>1, OneOwnerKept DEF Layer1, OthersKept, SameIngress
<1>6. StateIsTheOwners'
  <2>1. ASSUME NEW v \in PolicyWorkers
        PROVE  /\ pw'[v].at = "New" => slotState[pw'[v].slot] = "Ingress"
               /\ pw'[v].at \in Holding \ {"New", "return"} => slotState[pw'[v].slot] = "Policy"
               /\ pw'[v].at = "return" => slotState[pw'[v].slot] = "Free"
    <3>1. CASE v = w
      BY <3>1 DEF Layer1, StateIsTheOwners
    <3>2. CASE v # w
      <4>1. pw'[v] = pw[v]
        BY <3>2 DEF OthersKept
      <4>2. /\ pw[v].at = "New" => slotState[pw[v].slot] = "Ingress"
            /\ pw[v].at \in Holding \ {"New", "return"} => slotState[pw[v].slot] = "Policy"
            /\ pw[v].at = "return" => slotState[pw[v].slot] = "Free"
        BY DEF Layer1, StateIsTheOwners
      <4> QED  BY <4>1, <4>2
    <3> QED  BY <3>1, <3>2
  <2>2. ASSUME NEW i \in Ingress
        PROVE  /\ ing'[i].at = "publish" => slotState[ing'[i].slot] = "Free"
               /\ ing'[i].at \in IngressHolds \ {"publish"} => slotState[ing'[i].slot] = "Ingress"
    <3>1. ing'[i].at = ing[i].at /\ ing'[i].slot = ing[i].slot
      BY DEF SameIngress
    <3> QED  BY <3>1 DEF Layer1, StateIsTheOwners
  <2>3. \A s \in SlotId : HasNew(s)' => slotState[s] = "Ingress"
    BY <1>1 DEF Layer1, StateIsTheOwners, SameNews
  <2> QED  BY <1>2, <2>1, <2>2, <2>3 DEF StateIsTheOwners
<1>7. LockIsTheRunners'
  <2>1. ASSUME NEW v \in PolicyWorkers, pw'[v].at \in Running PROVE lock'[pw'[v].slot] = v
    <3>1. CASE v = w
      BY <2>1, <3>1
    <3>2. CASE v # w
      <4>1. pw'[v] = pw[v] /\ pw[v].at \in Running /\ pw[v].at \in Holding
        BY <2>1, <3>2 DEF OthersKept, Holding
      <4>2. pw[v].slot \in SlotId /\ pw[v].slot # pw[w].slot
        BY <3>2, <4>1 DEF References, Layer1, OneOwner
      <4>3. lock[pw[v].slot] = v
        BY <4>1 DEF Layer1, LockIsTheRunners
      <4> QED  BY <4>1, <4>2, <4>3
    <3> QED  BY <3>1, <3>2
  <2>2. ASSUME NEW s \in SlotId, lock'[s] # NoOne
        PROVE  pw'[lock'[s]].at \in Running /\ pw'[lock'[s]].slot = s
    <3>1. CASE s = pw[w].slot
      BY <2>2, <3>1
    <3>2. CASE s # pw[w].slot
      <4>1. lock'[s] = lock[s] /\ lock[s] \in PolicyWorkers /\ pw[lock[s]].at \in Running
            /\ pw[lock[s]].slot = s
        <5>1. lock'[s] = lock[s] /\ lock[s] \in PolicyWorkers
          BY <2>2, <3>2 DEF TypeOK
        <5> QED  BY <2>2, <5>1 DEF Layer1, LockIsTheRunners
      <4> QED  BY <3>2, <4>1 DEF OthersKept
    <3> QED  BY <3>1, <3>2
  <2> QED  BY <2>1, <2>2 DEF LockIsTheRunners
<1> QED
  BY <1>3, <1>4, <1>5, <1>6, <1>7 DEF Layer1

\* A step in which no slot changes hands.
LEMMA Layer1Quiet ==
    ASSUME TypeOK, References, Layer1, UNCHANGED <<storeVars, lock>>, SameNews,
           \A v \in PolicyWorkers :
              \/ pw'[v].at = pw[v].at /\ pw'[v].slot = pw[v].slot
              \/ pw[v].at \notin Holding /\ pw'[v].at \notin Holding,
           \A j \in Ingress :
              \/ ing'[j].at = ing[j].at /\ ing'[j].slot = ing[j].slot
              \/ ing[j].at \notin IngressHolds /\ ing'[j].at \notin IngressHolds
              \/ /\ ing[j].at \in IngressHolds \ {"publish"}
                 /\ ing'[j].at \in IngressHolds \ {"publish"} /\ ing'[j].slot = ing[j].slot
    PROVE  Layer1'
<1>1. InUse' = InUse /\ slotState' = slotState
  BY SameInUse DEF storeVars
<1>2. FreeListOk'
  BY DEF FreeListOk, Layer1, storeVars
<1>3. OwnedIsInUse'
  BY <1>1 DEF Layer1, OwnedIsInUse, SameNews
<1>4. OneOwner'
  BY OneOwnerKept DEF Layer1
<1>5. StateIsTheOwners'
  <2>1. ASSUME NEW v \in PolicyWorkers
        PROVE  /\ pw'[v].at = "New" => slotState[pw'[v].slot] = "Ingress"
               /\ pw'[v].at \in Holding \ {"New", "return"} => slotState[pw'[v].slot] = "Policy"
               /\ pw'[v].at = "return" => slotState[pw'[v].slot] = "Free"
    <3>1. "New" \in Holding /\ "return" \in Holding
      BY DEF Holding
    <3> QED  BY <3>1 DEF Layer1, StateIsTheOwners
  <2>2. ASSUME NEW i \in Ingress
        PROVE  /\ ing'[i].at = "publish" => slotState[ing'[i].slot] = "Free"
               /\ ing'[i].at \in IngressHolds \ {"publish"} => slotState[ing'[i].slot] = "Ingress"
    <3>1. "publish" \in IngressHolds
      BY DEF IngressHolds
    <3> QED  BY <3>1 DEF Layer1, StateIsTheOwners
  <2>3. \A s \in SlotId : HasNew(s)' => slotState[s] = "Ingress"
    BY DEF Layer1, StateIsTheOwners, SameNews
  <2> QED  BY <1>1, <2>1, <2>2, <2>3 DEF StateIsTheOwners
<1>6. LockIsTheRunners'
  <2>1. ASSUME NEW v \in PolicyWorkers, pw'[v].at \in Running PROVE lock'[pw'[v].slot] = v
    BY <2>1 DEF Layer1, LockIsTheRunners, Holding
  <2>2. ASSUME NEW s \in SlotId, lock'[s] # NoOne
        PROVE  pw'[lock'[s]].at \in Running /\ pw'[lock'[s]].slot = s
    <3>1. lock'[s] = lock[s] /\ lock[s] \in PolicyWorkers
      BY <2>2 DEF TypeOK
    <3>2. pw[lock[s]].at \in Running /\ pw[lock[s]].slot = s
      BY <2>2, <3>1 DEF Layer1, LockIsTheRunners
    <3> QED  BY <3>1, <3>2 DEF Holding
  <2> QED  BY <2>1, <2>2 DEF LockIsTheRunners
<1> QED
  BY <1>2, <1>3, <1>4, <1>5, <1>6 DEF Layer1

(***************************************************************************)
(* The policy queue of a slot, position by position.                       *)
(***************************************************************************)
LEMMA PushItem ==
    ASSUME TypeOK, NEW t \in SlotId, NEW e \in Item, queue' = [queue EXCEPT ![t] = Append(@, e)]
    PROVE  /\ \A s \in SlotId : s # t => queue'[s] = queue[s]
           /\ Len(queue[t]) \in Nat /\ Len(queue'[t]) = Len(queue[t]) + 1
           /\ queue'[t][Len(queue[t]) + 1] = e
           /\ \A n \in 1 .. Len(queue[t]) : queue'[t][n] = queue[t][n]
<1>1. queue[t] \in Seq(Item) /\ queue'[t] = Append(queue[t], e)
  BY DEF TypeOK
<1>2. \A s \in SlotId : s # t => queue'[s] = queue[s]
  BY DEF TypeOK
<1> QED
  BY <1>1, <1>2, AppendToSeq, SMT

LEMMA PopItem ==
    ASSUME TypeOK, NEW t \in SlotId, queue[t] # << >>, queue' = [queue EXCEPT ![t] = Tail(@)]
    PROVE  /\ \A s \in SlotId : s # t => queue'[s] = queue[s]
           /\ Len(queue[t]) \in Nat \ {0} /\ Len(queue'[t]) = Len(queue[t]) - 1
           /\ Head(queue[t]) = queue[t][1] /\ Head(queue[t]) \in Item
           /\ \A n \in 1 .. Len(queue'[t]) : queue'[t][n] = queue[t][n + 1]
<1>1. queue[t] \in Seq(Item) /\ queue'[t] = Tail(queue[t])
  BY DEF TypeOK
<1>2. \A s \in SlotId : s # t => queue'[s] = queue[s]
  BY DEF TypeOK
<1> QED
  <2>1. PICK f \in Seq(Item) : f = queue[t] /\ f # << >>
    BY <1>1
  <2>2. /\ Head(f) \in Item /\ Head(f) = f[1]
        /\ Len(f) \in Nat \ {0} /\ Len(Tail(f)) = Len(f) - 1
        /\ \A n \in 1 .. Len(Tail(f)) : Tail(f)[n] = f[n + 1]
    BY <2>1, TailOfSeq
  <2> QED  BY <1>1, <1>2, <2>1, <2>2

\* A slot whose queue stays as it is.
LEMMA QueueKeptNews ==
    ASSUME OneOwner, NEW s \in SlotId, queue'[s] = queue[s]
    PROVE  NewsAre(s, HasNew(s))
  BY DEF NewsAre, HasNew, OneOwner

\* ForwardResume leaves the New items alone.
LEMMA PushResumeNews ==
    ASSUME TypeOK, OneOwner, NEW t \in SlotId, NEW e \in Item, e.kind # "New",
           queue' = [queue EXCEPT ![t] = Append(@, e)]
    PROVE  SameNews
<1>1. /\ \A s \in SlotId : s # t => queue'[s] = queue[s]
      /\ Len(queue[t]) \in Nat /\ Len(queue'[t]) = Len(queue[t]) + 1
      /\ queue'[t][Len(queue[t]) + 1] = e
      /\ \A n \in 1 .. Len(queue[t]) : queue'[t][n] = queue[t][n]
  BY PushItem
<1>2. ASSUME NEW s \in SlotId, s # t PROVE NewsAre(s, HasNew(s))
  BY <1>1, <1>2, QueueKeptNews
<1>3. \A n \in 1 .. Len(queue'[t]) : n \in 1 .. Len(queue[t]) \/ n = Len(queue[t]) + 1
  BY <1>1, SMT
<1>4. \A n \in 1 .. Len(queue[t]) : n \in 1 .. Len(queue'[t])
  BY <1>1, SMT
<1>5. NewsAre(t, HasNew(t))
  <2>1. \A n \in 1 .. Len(queue'[t]) : queue'[t][n].kind = "New" =>
           n \in 1 .. Len(queue[t]) /\ queue[t][n].kind = "New"
    BY <1>1, <1>3
  <2>2. HasNew(t)' <=> HasNew(t)
    BY <1>1, <1>4, <2>1 DEF HasNew
  <2> QED  BY <2>1, <2>2 DEF NewsAre, OneOwner
<1> QED
  BY <1>2, <1>5 DEF SameNews, NewsAre

LEMMA PushNewNews ==
    ASSUME TypeOK, OneOwner, NEW t \in SlotId, ~HasNew(t), NEW e \in Item, e.kind = "New",
           queue' = [queue EXCEPT ![t] = Append(@, e)]
    PROVE  \A s \in SlotId : NewsAre(s, HasNew(s) \/ s = t)
<1>1. /\ \A s \in SlotId : s # t => queue'[s] = queue[s]
      /\ Len(queue[t]) \in Nat /\ Len(queue'[t]) = Len(queue[t]) + 1
      /\ queue'[t][Len(queue[t]) + 1] = e
      /\ \A n \in 1 .. Len(queue[t]) : queue'[t][n] = queue[t][n]
  BY PushItem
<1>2. ASSUME NEW s \in SlotId, s # t PROVE NewsAre(s, HasNew(s))
  BY <1>1, <1>2, QueueKeptNews
<1>3. \A n \in 1 .. Len(queue'[t]) : n \in 1 .. Len(queue[t]) \/ n = Len(queue[t]) + 1
  BY <1>1, SMT
<1>4. Len(queue[t]) + 1 \in 1 .. Len(queue'[t])
  BY <1>1, SMT
<1>5. NewsAre(t, TRUE)
  <2>1. \A n \in 1 .. Len(queue'[t]) : queue'[t][n].kind = "New" => n = Len(queue[t]) + 1
    BY <1>1, <1>3 DEF HasNew
  <2> QED  BY <1>1, <1>4, <2>1 DEF NewsAre, HasNew
<1> QED
  BY <1>2, <1>5 DEF NewsAre

LEMMA PopNews ==
    ASSUME TypeOK, OneOwner, NEW t \in SlotId, queue[t] # << >>,
           queue' = [queue EXCEPT ![t] = Tail(@)]
    PROVE  /\ Head(queue[t]).kind = "New" =>
                HasNew(t) /\ \A s \in SlotId : NewsAre(s, HasNew(s) /\ s # t)
           /\ Head(queue[t]).kind # "New" => SameNews
<1>1. /\ \A s \in SlotId : s # t => queue'[s] = queue[s]
      /\ Len(queue[t]) \in Nat \ {0} /\ Len(queue'[t]) = Len(queue[t]) - 1
      /\ Head(queue[t]) = queue[t][1] /\ Head(queue[t]) \in Item
      /\ \A n \in 1 .. Len(queue'[t]) : queue'[t][n] = queue[t][n + 1]
  BY PopItem
<1>2. ASSUME NEW s \in SlotId, s # t PROVE NewsAre(s, HasNew(s))
  BY <1>1, <1>2, QueueKeptNews
<1>3. \A n \in 1 .. Len(queue'[t]) : n + 1 \in 1 .. Len(queue[t]) /\ n + 1 # 1 /\ n \in Nat
  BY <1>1, SMT
<1>4. 1 \in 1 .. Len(queue[t])
  BY <1>1, SMT
<1>5. CASE Head(queue[t]).kind = "New"
  <2>1. HasNew(t)
    BY <1>1, <1>4, <1>5 DEF HasNew
  <2>2. \A n \in 1 .. Len(queue'[t]) : queue'[t][n].kind # "New"
    <3>1. \A m, n \in 1 .. Len(queue[t]) :
             queue[t][m].kind = "New" /\ queue[t][n].kind = "New" => m = n
      BY DEF OneOwner
    <3>2. ASSUME NEW n \in 1 .. Len(queue'[t]), queue[t][n + 1].kind = "New" PROVE FALSE
      BY <1>1, <1>3, <1>4, <1>5, <3>1, <3>2
    <3> QED  BY <1>1, <3>2
  <2>3. NewsAre(t, FALSE)
    BY <2>2 DEF NewsAre, HasNew
  <2> QED  BY <1>2, <1>5, <2>1, <2>3 DEF NewsAre
<1>6. CASE Head(queue[t]).kind # "New"
  <2>1. \A n \in 1 .. Len(queue[t]) : n # 1 => n - 1 \in 1 .. Len(queue'[t]) /\ n = (n - 1) + 1
    BY <1>1, SMT
  <2>2. HasNew(t)' <=> HasNew(t)
    <3>1. ASSUME NEW n \in 1 .. Len(queue'[t]), queue'[t][n].kind = "New" PROVE HasNew(t)
      BY <1>1, <1>3, <3>1 DEF HasNew
    <3>2. ASSUME NEW n \in 1 .. Len(queue[t]), queue[t][n].kind = "New" PROVE HasNew(t)'
      <4>1. n # 1
        BY <1>1, <1>6, <3>2
      <4>2. n - 1 \in 1 .. Len(queue'[t]) /\ queue'[t][n - 1] = queue[t][n]
        BY <1>1, <2>1, <4>1
      <4> QED  BY <3>2, <4>2 DEF HasNew
    <3> QED  BY <3>1, <3>2 DEF HasNew
  <2>3. NewsAre(t, HasNew(t))
    <3>1. ASSUME NEW m \in 1 .. Len(queue'[t]), NEW n \in 1 .. Len(queue'[t]),
                 queue'[t][m].kind = "New", queue'[t][n].kind = "New"
          PROVE  m = n
      <4>1. m + 1 = n + 1
        <5>1. /\ m + 1 \in 1 .. Len(queue[t]) /\ queue[t][m + 1].kind = "New"
              /\ n + 1 \in 1 .. Len(queue[t]) /\ queue[t][n + 1].kind = "New"
          BY <1>1, <1>3, <3>1
        <5> QED  BY <5>1 DEF OneOwner
      <4> QED  BY <1>3, <4>1, SMT
    <3> QED  BY <2>2, <3>1 DEF NewsAre
  <2> QED  BY <1>2, <1>6, <2>3 DEF SameNews, NewsAre
<1> QED
  BY <1>5, <1>6

(***************************************************************************)
(* The steps that change a slot's owner or its state.                      *)
(***************************************************************************)
LEMMA Layer1Acquire ==
    ASSUME TypeOK, References, Layer1, NEW i \in Ingress, NEW q \in Queries, NEW id \in SlotId,
           IngressAcquire(i, q), PopFree(id),
           ing' = [ing EXCEPT ![i] = [at |-> "publish", q |-> q, slot |-> id, inbox |-> NoOne]]
    PROVE  Layer1'
<1>1. UNCHANGED <<queue, pw, lock, slotState>>
  BY DEF IngressAcquire, PopFree
<1>2. /\ FreeListOk' /\ id \notin InUse
      /\ \A s : s \in InUse' <=> s \in InUse \/ s = id
  BY PopFreeTakes DEF TypeOK, Layer1
<1>3. OtherIngressKept(i) /\ ing'[i].at = "publish" /\ ing'[i].slot = id
  BY DEF TypeOK, OtherIngressKept
<1>4. SameNews
  BY <1>1, QueueUnchangedNews DEF Layer1
<1>5. OwnedIsInUse'
  BY <1>1, <1>2, <1>3, <1>4 DEF Layer1, OwnedIsInUse, OtherIngressKept, SameNews
<1>6. OneOwner'
  <2>1. /\ \A j \in Ingress : ing[j].at \in IngressHolds => ing[j].slot # id
        /\ \A w \in PolicyWorkers : pw[w].at \in Holding => pw[w].slot # id
        /\ ~HasNew(id)
    BY <1>2 DEF Layer1, OwnedIsInUse
  <2>2. \A j, k \in Ingress :
           ing'[j].at \in IngressHolds /\ ing'[k].at \in IngressHolds /\ ing'[j].slot = ing'[k].slot
               => j = k
    <3>1. ASSUME NEW j \in Ingress, j # i, ing'[j].at \in IngressHolds
          PROVE  ing'[j].slot # ing'[i].slot
      BY <1>3, <2>1, <3>1 DEF OtherIngressKept
    <3>2. ASSUME NEW j \in Ingress, NEW k \in Ingress, j # i, k # i,
                 ing'[j].at \in IngressHolds, ing'[k].at \in IngressHolds,
                 ing'[j].slot = ing'[k].slot
          PROVE  j = k
      BY <1>3, <3>2 DEF Layer1, OneOwner, OtherIngressKept
    <3> QED  BY <3>1, <3>2
  <2>3. ASSUME NEW j \in Ingress, NEW w \in PolicyWorkers,
               ing'[j].at \in IngressHolds, pw'[w].at \in Holding
        PROVE  ing'[j].slot # pw'[w].slot
    <3>1. CASE j = i
      BY <1>1, <1>3, <2>1, <2>3, <3>1
    <3>2. CASE j # i
      <4>1. ing'[j] = ing[j] /\ pw' = pw
        BY <1>1, <1>3, <3>2 DEF OtherIngressKept
      <4> QED  BY <2>3, <4>1 DEF Layer1, OneOwner
    <3> QED  BY <3>1, <3>2
  <2>4. ASSUME NEW s \in SlotId, HasNew(s)'
        PROVE  /\ \A j \in Ingress : ing'[j].at \in IngressHolds => ing'[j].slot # s
               /\ \A w \in PolicyWorkers : pw'[w].at \in Holding => pw'[w].slot # s
    <3>1. HasNew(s) /\ s # id
      BY <1>4, <2>1, <2>4 DEF SameNews
    <3> QED  BY <1>1, <1>3, <3>1 DEF Layer1, OneOwner, OtherIngressKept
  <2>5. \A v, w \in PolicyWorkers :
           pw'[v].at \in Holding /\ pw'[w].at \in Holding /\ pw'[v].slot = pw'[w].slot => v = w
    BY <1>1 DEF Layer1, OneOwner
  <2> QED  BY <1>4, <2>2, <2>3, <2>4, <2>5 DEF OneOwner, SameNews
<1>7. StateIsTheOwners'
  <2>1. slotState[id] = "Free"
    BY <1>2 DEF Layer1, OwnedIsInUse
  <2>2. ASSUME NEW j \in Ingress
        PROVE  /\ ing'[j].at = "publish" => slotState[ing'[j].slot] = "Free"
               /\ ing'[j].at \in IngressHolds \ {"publish"} => slotState[ing'[j].slot] = "Ingress"
    <3>1. CASE j = i
      BY <1>3, <2>1, <3>1
    <3>2. CASE j # i
      <4>1. ing'[j] = ing[j]
        BY <1>3, <3>2 DEF OtherIngressKept
      <4>2. /\ ing[j].at = "publish" => slotState[ing[j].slot] = "Free"
            /\ ing[j].at \in IngressHolds \ {"publish"} => slotState[ing[j].slot] = "Ingress"
        BY DEF Layer1, StateIsTheOwners
      <4> QED  BY <4>1, <4>2
    <3> QED  BY <3>1, <3>2
  <2>3. \A s \in SlotId : HasNew(s)' => slotState[s] = "Ingress"
    BY <1>4 DEF Layer1, StateIsTheOwners, SameNews
  <2> QED  BY <1>1, <2>2, <2>3 DEF Layer1, StateIsTheOwners
<1>8. LockIsTheRunners'
  BY <1>1 DEF Layer1, LockIsTheRunners
<1> QED
  BY <1>2, <1>5, <1>6, <1>7, <1>8 DEF Layer1

LEMMA Layer1Publish ==
    ASSUME TypeOK, References, Layer1, NEW i \in Ingress, IngressPublish(i)
    PROVE  Layer1'
<1>1. /\ UNCHANGED <<queue, pw, lock, freeList, allocated>>
      /\ slotState' = [slotState EXCEPT ![ing[i].slot] = "Ingress"]
  BY DEF IngressPublish, PublishIngress
<1>2. /\ OtherIngressKept(i) /\ ing[i].at = "publish" /\ ing'[i].at = "setup"
      /\ ing'[i].slot = ing[i].slot
  BY IngressEffect, ConstantTypes DEF IngressPublish
<1>3. InUse' = InUse /\ SameNews /\ ing[i].slot \in SlotId /\ ing[i].at \in IngressHolds
  BY <1>1, <1>2, SameInUse, QueueUnchangedNews DEF Layer1, References, IngressHolds
<1>4. /\ slotState'[ing[i].slot] = "Ingress"
      /\ \A s \in SlotId : s # ing[i].slot => slotState'[s] = slotState[s]
  BY <1>1, <1>3 DEF TypeOK, StoreTypeOK
<1>5. FreeListOk' /\ LockIsTheRunners'
  <2>1. FreeListOk'
    BY <1>1 DEF Layer1, FreeListOk
  <2>2. LockIsTheRunners'
    BY <1>1 DEF Layer1, LockIsTheRunners
  <2> QED  BY <2>1, <2>2
<1>6. OwnedIsInUse'
  BY <1>1, <1>2, <1>3, <1>4 DEF Layer1, OwnedIsInUse, OtherIngressKept, SameNews
<1>7. OneOwner'
  <2>1. \A j \in Ingress : ing'[j].at \in IngressHolds =>
           ing[j].at \in IngressHolds /\ ing'[j].slot = ing[j].slot
    BY <1>2, <1>3 DEF OtherIngressKept
  <2> QED  BY <1>1, <1>3, <2>1, OneOwnerKept DEF Layer1
<1>8. StateIsTheOwners'
  <2>1. ASSUME NEW j \in Ingress
        PROVE  /\ ing'[j].at = "publish" => slotState'[ing'[j].slot] = "Free"
               /\ ing'[j].at \in IngressHolds \ {"publish"} => slotState'[ing'[j].slot] = "Ingress"
    <3>1. CASE j = i
      BY <1>2, <1>4, <3>1
    <3>2. CASE j # i
      <4>1. ing'[j] = ing[j] /\ "publish" \in IngressHolds
        BY <1>2, <3>2 DEF OtherIngressKept, IngressHolds
      <4>2. ing[j].at \in IngressHolds => ing[j].slot \in SlotId /\ ing[j].slot # ing[i].slot
        BY <1>3, <3>2 DEF Layer1, References, OneOwner
      <4>3. ing[j].at \in IngressHolds => slotState'[ing[j].slot] = slotState[ing[j].slot]
        BY <1>4, <4>2
      <4> QED  BY <4>1, <4>3 DEF Layer1, StateIsTheOwners
    <3> QED  BY <3>1, <3>2
  <2>2. ASSUME NEW s \in SlotId, HasNew(s)' PROVE slotState'[s] = "Ingress"
    BY <1>3, <1>4, <2>2 DEF Layer1, StateIsTheOwners, SameNews
  <2>3. ASSUME NEW w \in PolicyWorkers
        PROVE  /\ pw[w].at = "New" => slotState'[pw[w].slot] = "Ingress"
               /\ pw[w].at \in Holding \ {"New", "return"} => slotState'[pw[w].slot] = "Policy"
               /\ pw[w].at = "return" => slotState'[pw[w].slot] = "Free"
    <3>1. pw[w].at \in Holding => pw[w].slot \in SlotId /\ pw[w].slot # ing[i].slot
      BY <1>3 DEF Layer1, References, OneOwner
    <3>2. pw[w].at \in Holding => slotState'[pw[w].slot] = slotState[pw[w].slot]
      BY <1>4, <3>1
    <3>3. "New" \in Holding /\ "return" \in Holding
      BY DEF Holding
    <3> QED  BY <3>2, <3>3 DEF Layer1, StateIsTheOwners
  <2> QED  BY <1>1, <2>1, <2>2, <2>3 DEF StateIsTheOwners
<1> QED
  BY <1>5, <1>6, <1>7, <1>8 DEF Layer1

LEMMA Layer1Push ==
    ASSUME TypeOK, References, Layer1, NEW i \in Ingress, IngressPush(i)
    PROVE  Layer1'
<1>1. UNCHANGED <<slotState, pw, lock, freeList, allocated>>
  BY DEF IngressPush, storeVars
<1>2. ing[i].at = "push" /\ OtherIngressKept(i) /\ ing'[i].at \notin IngressHolds
  <2>1. CASE i \in TcpIngress
    <3>1. ing' = [ing EXCEPT ![i].at = "await"]
      BY <2>1 DEF IngressPush
    <3>2. OtherIngressKept(i) /\ ing'[i].at = "await"
      BY <3>1, IngressEffect, ConstantTypes
    <3> QED  BY <3>2 DEF IngressPush, IngressHolds
  <2>2. CASE i \notin TcpIngress
    BY <2>2, IdleIngressEffect DEF IngressPush, IngressHolds
  <2> QED  BY <2>1, <2>2
<1>3. ing[i].slot \in SlotId /\ ing[i].at \in IngressHolds /\ ~HasNew(ing[i].slot)
  BY <1>2 DEF References, IngressHolds, Layer1, OneOwner
<1>4. \A s \in SlotId : NewsAre(s, HasNew(s) \/ s = ing[i].slot)
  <2>1. New \in Item /\ New.kind = "New"
    BY ConstantTypes DEF New
  <2>2. queue' = [queue EXCEPT ![ing[i].slot] = Append(@, New)] /\ OneOwner
    BY DEF Layer1, IngressPush
  <2> QED  BY <1>3, <2>1, <2>2, PushNewNews DEF NewsAre
<1>5. InUse' = InUse
  BY <1>1, SameInUse
<1>6. FreeListOk' /\ LockIsTheRunners'
  <2>1. FreeListOk'
    BY <1>1 DEF Layer1, FreeListOk
  <2>2. LockIsTheRunners'
    BY <1>1 DEF Layer1, LockIsTheRunners
  <2> QED  BY <2>1, <2>2
<1>7. OwnedIsInUse'
  BY <1>1, <1>2, <1>3, <1>4, <1>5 DEF Layer1, OwnedIsInUse, OtherIngressKept, NewsAre
<1>8. OneOwner'
  <2>1. \A j \in Ingress : ing'[j].at \in IngressHolds => j # i /\ ing'[j] = ing[j]
    BY <1>2 DEF OtherIngressKept
  <2>2. \A j, k \in Ingress :
           ing'[j].at \in IngressHolds /\ ing'[k].at \in IngressHolds /\ ing'[j].slot = ing'[k].slot
               => j = k
    BY <2>1 DEF Layer1, OneOwner
  <2>3. ASSUME NEW j \in Ingress, NEW w \in PolicyWorkers,
               ing'[j].at \in IngressHolds, pw[w].at \in Holding
        PROVE  ing'[j].slot # pw[w].slot
    BY <2>1, <2>3 DEF Layer1, OneOwner
  <2>4. ASSUME NEW s \in SlotId, HasNew(s)'
        PROVE  /\ \A j \in Ingress : ing'[j].at \in IngressHolds => ing'[j].slot # s
               /\ \A w \in PolicyWorkers : pw[w].at \in Holding => pw[w].slot # s
    <3>1. CASE s = ing[i].slot
      BY <1>3, <2>1, <3>1 DEF Layer1, OneOwner
    <3>2. CASE s # ing[i].slot
      <4>1. HasNew(s)
        BY <1>4, <2>4, <3>2 DEF NewsAre
      <4> QED  BY <2>1, <4>1 DEF Layer1, OneOwner
    <3> QED  BY <3>1, <3>2
  <2>5. \A v, w \in PolicyWorkers :
           pw[v].at \in Holding /\ pw[w].at \in Holding /\ pw[v].slot = pw[w].slot => v = w
    BY DEF Layer1, OneOwner
  <2> QED  BY <1>1, <1>4, <2>2, <2>3, <2>4, <2>5 DEF OneOwner, NewsAre
<1>9. StateIsTheOwners'
  <2>1. slotState[ing[i].slot] = "Ingress"
    BY <1>2, <1>3 DEF Layer1, StateIsTheOwners
  <2>2. ASSUME NEW j \in Ingress
        PROVE  /\ ing'[j].at = "publish" => slotState[ing'[j].slot] = "Free"
               /\ ing'[j].at \in IngressHolds \ {"publish"} => slotState[ing'[j].slot] = "Ingress"
    <3>1. "publish" \in IngressHolds
      BY DEF IngressHolds
    <3>2. ing'[j].at \in IngressHolds => ing'[j] = ing[j]
      BY <1>2 DEF OtherIngressKept
    <3>3. /\ ing[j].at = "publish" => slotState[ing[j].slot] = "Free"
          /\ ing[j].at \in IngressHolds \ {"publish"} => slotState[ing[j].slot] = "Ingress"
      BY DEF Layer1, StateIsTheOwners
    <3> QED  BY <3>1, <3>2, <3>3
  <2>3. ASSUME NEW s \in SlotId, HasNew(s)' PROVE slotState[s] = "Ingress"
    BY <1>4, <2>1, <2>3 DEF Layer1, StateIsTheOwners, NewsAre
  <2> QED  BY <1>1, <2>2, <2>3 DEF Layer1, StateIsTheOwners
<1> QED
  BY <1>6, <1>7, <1>8, <1>9 DEF Layer1

\* Pop: the worker takes over what the item stood for.
LEMMA PopEffect ==
    ASSUME TypeOK, NEW w \in PolicyWorkers, NEW s \in SlotId, Pop(w, s)
    PROVE  /\ OthersKept(w) /\ pw[w].at = "idle" /\ queue[s] # << >>
           /\ pw'[w].at = Head(queue[s]).kind /\ pw'[w].slot = s
           /\ pw'[w].done = Head(queue[s]).done /\ pw'[w].key = NoOne
           /\ Head(queue[s]).kind \in {"New", "Resume"}
<1>1. Head(queue[s]) \in Item /\ queue[s] # << >>
  BY TailOfSeq DEF TypeOK, Pop
<1> QED
  BY <1>1 DEF TypeOK, Pop, OthersKept, IdleWorker, Item

LEMMA Layer1Pop ==
    ASSUME TypeOK, References, Layer1, NEW w \in PolicyWorkers, NEW s \in SlotId, Pop(w, s)
    PROVE  Layer1'
<1>1. UNCHANGED <<storeVars, lock, ing>> /\ queue' = [queue EXCEPT ![s] = Tail(@)]
  BY DEF Pop
<1>2. /\ OthersKept(w) /\ pw[w].at = "idle" /\ queue[s] # << >>
      /\ pw'[w].at = Head(queue[s]).kind /\ pw'[w].slot = s
      /\ Head(queue[s]).kind \in {"New", "Resume"}
  BY PopEffect
<1>3. "idle" \notin Holding /\ "Resume" \notin Holding /\ "New" \in Holding \ Running
  BY DEF Holding, Running, Registering
<1>4. /\ Head(queue[s]).kind = "New" =>
           HasNew(s) /\ \A t \in SlotId : NewsAre(t, HasNew(t) /\ t # s)
      /\ Head(queue[s]).kind # "New" => SameNews
  <2>1. OneOwner
    BY DEF Layer1
  <2> QED  BY <1>1, <1>2, <2>1, PopNews DEF NewsAre
<1>5. CASE Head(queue[s]).kind = "Resume"
  BY <1>1, <1>2, <1>3, <1>4, <1>5, Layer1Quiet DEF OthersKept
<1>6. CASE Head(queue[s]).kind = "New"
  <2>1. InUse' = InUse /\ slotState' = slotState
    BY <1>1, SameInUse DEF storeVars
  <2>2. FreeListOk'
    BY <1>1 DEF Layer1, FreeListOk, storeVars
  <2>3. OwnedIsInUse'
    BY <1>1, <1>2, <1>4, <1>6, <2>1 DEF Layer1, OwnedIsInUse, OthersKept, NewsAre
  <2>4. OneOwner'
    <3>1. /\ \A v \in PolicyWorkers : pw[v].at \in Holding => pw[v].slot # s
          /\ \A i \in Ingress : ing[i].at \in IngressHolds => ing[i].slot # s
      BY <1>4, <1>6 DEF Layer1, OneOwner
    <3>2. NewsButOf(s)
      <4>1. \A t \in SlotId : NewsAre(t, HasNew(t) /\ t # s)
        BY <1>4, <1>6
      <4> QED  BY <4>1 DEF NewsButOf, NewsAre
    <3>3. OneOwner /\ ing' = ing
      BY <1>1 DEF Layer1
    <3> QED  BY <1>2, <3>1, <3>2, <3>3, OneOwnerTaken
  <2>5. StateIsTheOwners'
    <3>1. slotState[s] = "Ingress" /\ pw'[w].at = "New"
      BY <1>2, <1>4, <1>6 DEF Layer1, StateIsTheOwners
    <3>2. \A t \in SlotId : HasNew(t)' => HasNew(t)
      BY <1>4, <1>6 DEF NewsAre
    <3>3. ASSUME NEW v \in PolicyWorkers
          PROVE  /\ pw'[v].at = "New" => slotState[pw'[v].slot] = "Ingress"
                 /\ pw'[v].at \in Holding \ {"New", "return"} => slotState[pw'[v].slot] = "Policy"
                 /\ pw'[v].at = "return" => slotState[pw'[v].slot] = "Free"
      <4>1. CASE v = w
        BY <1>2, <3>1, <4>1
      <4>2. CASE v # w
        <5>1. pw'[v] = pw[v]
          BY <1>2, <4>2 DEF OthersKept
        <5>2. /\ pw[v].at = "New" => slotState[pw[v].slot] = "Ingress"
              /\ pw[v].at \in Holding \ {"New", "return"} => slotState[pw[v].slot] = "Policy"
              /\ pw[v].at = "return" => slotState[pw[v].slot] = "Free"
          BY DEF Layer1, StateIsTheOwners
        <5> QED  BY <5>1, <5>2
      <4> QED  BY <4>1, <4>2
    <3>4. \A t \in SlotId : HasNew(t)' => slotState[t] = "Ingress"
      BY <3>2 DEF Layer1, StateIsTheOwners
    <3> QED  BY <1>1, <2>1, <3>3, <3>4 DEF Layer1, StateIsTheOwners
  <2>6. LockIsTheRunners'
    <3>1. ASSUME NEW v \in PolicyWorkers, pw'[v].at \in Running PROVE lock'[pw'[v].slot] = v
      <4>1. v # w
        BY <1>2, <1>3, <1>6, <3>1
      <4>2. pw'[v] = pw[v] /\ lock[pw[v].slot] = v
        BY <1>2, <3>1, <4>1 DEF Layer1, LockIsTheRunners, OthersKept
      <4> QED  BY <1>1, <4>2
    <3>2. ASSUME NEW t \in SlotId, lock'[t] # NoOne
          PROVE  pw'[lock'[t]].at \in Running /\ pw'[lock'[t]].slot = t
      <4>1. lock'[t] = lock[t] /\ lock[t] \in PolicyWorkers
        BY <1>1, <3>2 DEF TypeOK
      <4>2. pw[lock[t]].at \in Running /\ pw[lock[t]].slot = t
        BY <3>2, <4>1 DEF Layer1, LockIsTheRunners
      <4>3. lock[t] # w
        BY <1>2, <1>3, <4>2 DEF Holding
      <4> QED  BY <4>1, <4>2, <4>3, <1>2 DEF OthersKept
    <3> QED  BY <3>1, <3>2 DEF LockIsTheRunners
  <2> QED  BY <2>2, <2>3, <2>4, <2>5, <2>6 DEF Layer1
<1> QED
  BY <1>2, <1>5, <1>6

\* A slot that is parked has no owner.
LEMMA ParkedHasNoOwner ==
    ASSUME References, Layer1, NEW s \in SlotId, slotState[s] = "IoWait"
    PROVE  /\ \A i \in Ingress : ing[i].at \in IngressHolds => ing[i].slot # s
           /\ \A v \in PolicyWorkers : pw[v].at \in Holding => pw[v].slot # s
           /\ ~HasNew(s)
<1>1. \A i \in Ingress : ing[i].at \in IngressHolds => ing[i].slot # s
  BY DEF Layer1, StateIsTheOwners
<1>2. \A v \in PolicyWorkers : pw[v].at \in Holding => pw[v].slot # s
  BY DEF Layer1, StateIsTheOwners
<1>3. ~HasNew(s)
  BY DEF Layer1, StateIsTheOwners
<1> QED
  BY <1>1, <1>2, <1>3

\* A worker sets the state of a slot that is, or becomes, its own.
LEMMA Layer1SetState ==
    ASSUME TypeOK, References, Layer1, NEW w \in PolicyWorkers, OthersKept(w),
           NEW s \in InUse, NEW to \in {"Policy", "Free", "IoWait"},
           slotState' = [slotState EXCEPT ![s] = to],
           UNCHANGED <<freeList, allocated, queue, ing>>,
           pw[w].slot = s, pw[w].at \notin Holding => slotState[s] = "IoWait",
           pw'[w].at \in Holding => pw'[w].slot = s, pw'[w].at \notin Running,
           pw'[w].at \in Holding => to = IF pw'[w].at = "return" THEN "Free" ELSE "Policy",
           pw'[w].at # "New", ~HasNew(s),
           lock' = [lock EXCEPT ![s] = NoOne], \A v \in PolicyWorkers : v # w => lock[s] # v
    PROVE  Layer1'
<1>1. InUse' = InUse /\ SameNews
  BY SameInUse, QueueUnchangedNews DEF Layer1
<1>2. /\ slotState'[s] = to
      /\ \A t \in SlotId : t # s => slotState'[t] = slotState[t]
  BY DEF TypeOK, StoreTypeOK, InUse
<1>3. /\ \A i \in Ingress : ing[i].at \in IngressHolds => ing[i].slot # s
      /\ \A v \in PolicyWorkers : v # w /\ pw[v].at \in Holding => pw[v].slot # s
  <2>1. CASE pw[w].at \in Holding
    BY <2>1 DEF Layer1, OneOwner
  <2>2. CASE pw[w].at \notin Holding
    BY <2>2, ParkedHasNoOwner DEF InUse
  <2> QED  BY <2>1, <2>2
<1>4. FreeListOk'
  BY DEF Layer1, FreeListOk
<1>5. OwnedIsInUse'
  BY <1>1, <1>2 DEF Layer1, OwnedIsInUse, OthersKept, SameNews
<1>6. OneOwner'
  <2>1. NewsButOf(s)
    BY <1>1 DEF SameNews, NewsAre, NewsButOf
  <2>2. OneOwner /\ ing' = ing
    BY DEF Layer1
  <2> QED  BY <1>3, <2>1, <2>2, OneOwnerTaken
<1>7. StateIsTheOwners'
  <2>1. \A i \in Ingress : ing[i].at \in IngressHolds => ing[i].slot \in SlotId
    BY DEF References
  <2>2. \A v \in PolicyWorkers : pw[v].at \in Holding => pw[v].slot \in SlotId
    BY DEF References
  <2>3. /\ \A i \in Ingress :
             /\ ing[i].at = "publish" => slotState'[ing[i].slot] = "Free"
             /\ ing[i].at \in IngressHolds \ {"publish"} => slotState'[ing[i].slot] = "Ingress"
        /\ \A t \in SlotId : HasNew(t) => slotState'[t] = "Ingress"
    <3>1. ASSUME NEW i \in Ingress, ing[i].at \in IngressHolds
          PROVE  slotState'[ing[i].slot] = slotState[ing[i].slot]
      BY <1>2, <1>3, <2>1, <3>1
    <3>2. "publish" \in IngressHolds
      BY DEF IngressHolds
    <3>3. \A t \in SlotId : HasNew(t) => slotState'[t] = "Ingress"
      BY <1>2 DEF Layer1, StateIsTheOwners
    <3>4. ASSUME NEW i \in Ingress
          PROVE  /\ ing[i].at = "publish" => slotState'[ing[i].slot] = "Free"
                 /\ ing[i].at \in IngressHolds \ {"publish"} => slotState'[ing[i].slot] = "Ingress"
      <4>1. /\ ing[i].at = "publish" => slotState[ing[i].slot] = "Free"
            /\ ing[i].at \in IngressHolds \ {"publish"} => slotState[ing[i].slot] = "Ingress"
        BY DEF Layer1, StateIsTheOwners
      <4> QED  BY <3>1, <3>2, <4>1
    <3> QED  BY <3>3, <3>4
  <2>4. ASSUME NEW v \in PolicyWorkers, v # w
        PROVE  /\ pw[v].at = "New" => slotState'[pw[v].slot] = "Ingress"
               /\ pw[v].at \in Holding \ {"New", "return"} => slotState'[pw[v].slot] = "Policy"
               /\ pw[v].at = "return" => slotState'[pw[v].slot] = "Free"
    <3>1. pw[v].at \in Holding => slotState'[pw[v].slot] = slotState[pw[v].slot]
      BY <1>2, <1>3, <2>2, <2>4
    <3>2. "New" \in Holding /\ "return" \in Holding
      BY DEF Holding
    <3> QED  BY <3>1, <3>2 DEF Layer1, StateIsTheOwners
  <2>5. /\ pw'[w].at \in Holding \ {"New", "return"} => slotState'[pw'[w].slot] = "Policy"
        /\ pw'[w].at = "return" => slotState'[pw'[w].slot] = "Free"
    BY <1>2 DEF Holding
  <2>6. ASSUME NEW v \in PolicyWorkers
        PROVE  /\ pw'[v].at = "New" => slotState'[pw'[v].slot] = "Ingress"
               /\ pw'[v].at \in Holding \ {"New", "return"} => slotState'[pw'[v].slot] = "Policy"
               /\ pw'[v].at = "return" => slotState'[pw'[v].slot] = "Free"
    <3>1. CASE v = w
      BY <2>5, <3>1
    <3>2. CASE v # w
      <4>1. pw'[v] = pw[v]
        BY <3>2 DEF OthersKept
      <4> QED  BY <2>4, <3>2, <4>1
    <3> QED  BY <3>1, <3>2
  <2>7. \A t \in SlotId : HasNew(t)' => slotState'[t] = "Ingress"
    BY <1>1, <2>3 DEF SameNews
  <2> QED  BY <2>3, <2>6, <2>7 DEF StateIsTheOwners
<1>8. LockIsTheRunners'
  <2>1. s \in SlotId
    BY DEF InUse
  <2>2. lock'[s] = NoOne /\ \A t \in SlotId : t # s => lock'[t] = lock[t]
    BY <2>1 DEF TypeOK
  <2>3. ASSUME NEW v \in PolicyWorkers, pw'[v].at \in Running PROVE lock'[pw'[v].slot] = v
    <3>1. v # w /\ pw'[v] = pw[v] /\ pw[v].at \in Running /\ pw[v].at \in Holding
      BY <2>3 DEF OthersKept, Holding
    <3>2. pw[v].slot \in SlotId /\ pw[v].slot # s
      BY <1>3, <3>1 DEF References
    <3>3. lock[pw[v].slot] = v
      BY <3>1 DEF Layer1, LockIsTheRunners
    <3> QED  BY <2>2, <3>1, <3>2, <3>3
  <2>4. ASSUME NEW t \in SlotId, lock'[t] # NoOne
        PROVE  pw'[lock'[t]].at \in Running /\ pw'[lock'[t]].slot = t
    <3>1. t # s /\ lock'[t] = lock[t] /\ lock[t] \in PolicyWorkers
      BY <2>2, <2>4 DEF TypeOK
    <3>2. pw[lock[t]].at \in Running /\ pw[lock[t]].slot = t
      BY <2>4, <3>1 DEF Layer1, LockIsTheRunners
    <3> QED  BY <3>1, <3>2 DEF OthersKept
  <2> QED  BY <2>3, <2>4 DEF LockIsTheRunners
<1> QED
  BY <1>4, <1>5, <1>6, <1>7, <1>8 DEF Layer1

LEMMA Layer1Return ==
    ASSUME TypeOK, References, Layer1, NEW w \in PolicyWorkers, ReleaseReturn(w)
    PROVE  Layer1'
<1>1. OthersKept(w) /\ pw[w].at = "return" /\ pw'[w].at = "unreserve"
  <2>1. "unreserve" \in WorkerAt
    BY ConstantTypes
  <2>2. Step(w, "return", "unreserve")
    BY DEF ReleaseReturn
  <2> QED  BY <2>1, <2>2, StepEffect
<1>2. pw[w].at \in Holding /\ pw'[w].at \notin Holding
  BY <1>1 DEF Holding, Running, Registering
<1>3. pw[w].slot \in InUse /\ pw[w].slot \in SlotId
  BY <1>2 DEF Layer1, OwnedIsInUse, References
<1>4. FreeListOk' /\ \A s : s \in InUse' <=> s \in InUse /\ s # pw[w].slot
  BY <1>3, ReturnGives DEF TypeOK, Layer1, ReleaseReturn
<1>5. UNCHANGED <<slotState, queue, ing, lock>>
  BY DEF ReleaseReturn, ReturnToFree
<1>6. SameNews
  BY <1>5, QueueUnchangedNews DEF Layer1
<1>7. /\ slotState[pw[w].slot] = "Free" /\ ~HasNew(pw[w].slot)
      /\ \A i \in Ingress : ing[i].at \in IngressHolds => ing[i].slot # pw[w].slot
      /\ \A v \in PolicyWorkers : v # w /\ pw[v].at \in Holding => pw[v].slot # pw[w].slot
  BY <1>1, <1>2, <1>3 DEF Layer1, StateIsTheOwners, OneOwner
<1>8. OwnedIsInUse'
  BY <1>1, <1>2, <1>4, <1>5, <1>6, <1>7 DEF Layer1, OwnedIsInUse, OthersKept, SameNews
<1>9. OneOwner'
  <2>1. \A v \in PolicyWorkers : pw'[v].at \in Holding =>
           pw[v].at \in Holding /\ pw'[v].slot = pw[v].slot
    BY <1>1, <1>2 DEF OthersKept
  <2> QED  BY <1>5, <1>6, <2>1, OneOwnerKept DEF Layer1
<1>10. StateIsTheOwners'
  <2>1. ASSUME NEW v \in PolicyWorkers
        PROVE  /\ pw'[v].at = "New" => slotState[pw'[v].slot] = "Ingress"
               /\ pw'[v].at \in Holding \ {"New", "return"} => slotState[pw'[v].slot] = "Policy"
               /\ pw'[v].at = "return" => slotState[pw'[v].slot] = "Free"
    <3>1. CASE v = w
      BY <1>1, <1>2, <3>1
    <3>2. CASE v # w
      <4>1. pw'[v] = pw[v]
        BY <1>1, <3>2 DEF OthersKept
      <4>2. /\ pw[v].at = "New" => slotState[pw[v].slot] = "Ingress"
            /\ pw[v].at \in Holding \ {"New", "return"} => slotState[pw[v].slot] = "Policy"
            /\ pw[v].at = "return" => slotState[pw[v].slot] = "Free"
        BY DEF Layer1, StateIsTheOwners
      <4> QED  BY <4>1, <4>2
    <3> QED  BY <3>1, <3>2
  <2>2. \A s \in SlotId : HasNew(s)' => slotState[s] = "Ingress"
    BY <1>6 DEF Layer1, StateIsTheOwners, SameNews
  <2> QED  BY <1>5, <2>1, <2>2 DEF Layer1, StateIsTheOwners
<1>11. LockIsTheRunners'
  <2>1. ASSUME NEW v \in PolicyWorkers, pw'[v].at \in Running PROVE lock'[pw'[v].slot] = v
    BY <1>1, <1>2, <1>5, <2>1 DEF Layer1, LockIsTheRunners, OthersKept, Holding
  <2>2. ASSUME NEW t \in SlotId, lock'[t] # NoOne
        PROVE  pw'[lock'[t]].at \in Running /\ pw'[lock'[t]].slot = t
    <3>1. lock'[t] = lock[t] /\ lock[t] \in PolicyWorkers
      BY <1>5, <2>2 DEF TypeOK
    <3>2. pw[lock[t]].at \in Running /\ pw[lock[t]].slot = t
      BY <2>2, <3>1 DEF Layer1, LockIsTheRunners
    <3>3. lock[t] # w
      BY <1>1, <3>2 DEF Running, Registering
    <3> QED  BY <1>1, <3>1, <3>2, <3>3 DEF OthersKept
  <2> QED  BY <2>1, <2>2 DEF LockIsTheRunners
<1> QED
  BY <1>4, <1>8, <1>9, <1>10, <1>11 DEF Layer1

(***************************************************************************)
(* Layer 1 is preserved.                                                   *)
(***************************************************************************)
LEMMA LockKept ==
    ASSUME TypeOK, NEW s \in SlotId, lock[s] = NoOne, lock' = lock
    PROVE  lock' = [lock EXCEPT ![s] = NoOne]
  BY DEF TypeOK

\* The orchestrator of w goes on, or returns Finished and unlocks the slot.
LEMMA Layer1Runs ==
    ASSUME TypeOK, References, Layer1, NEW w \in PolicyWorkers, pw[w].at \in Running,
           UNCHANGED <<storeVars, queue, ing>>,
           \/ \E from, to : Step(w, from, to) /\ to \in Running /\ UNCHANGED lock
           \/ \E k \in DnsId : pw' = [pw EXCEPT ![w].at = "reserve", ![w].key = k] /\ UNCHANGED lock
           \/ \E out \in QueryOrNone : Finish(w, out)
    PROVE  Layer1'
<1>1. pw[w].slot \in SlotId /\ pw[w].at \in Holding \ {"New", "return"} /\ lock[pw[w].slot] = w
  BY DEF References, Holding, Running, Registering, Layer1, LockIsTheRunners
<1>2. SameIngress
  BY DEF SameIngress
<1>3. ASSUME NEW from, NEW to \in Running, Step(w, from, to), UNCHANGED lock PROVE Layer1'
  <2>1. to \in WorkerAt /\ to \in Holding \ {"New", "return"}
    BY DEF WorkerAt, Holding, Running, Registering
  <2>2. OthersKept(w) /\ pw'[w].at = to /\ pw'[w].slot = pw[w].slot
    BY <1>3, <2>1, StepEffect, ZenonT(30)
  <2> QED  BY <1>1, <1>2, <1>3, <2>1, <2>2, Layer1Works
<1>4. ASSUME NEW k \in DnsId, pw' = [pw EXCEPT ![w].at = "reserve", ![w].key = k], UNCHANGED lock
      PROVE  Layer1'
  <2>1. OthersKept(w) /\ pw'[w].at = "reserve" /\ pw'[w].slot = pw[w].slot
    BY <1>4 DEF TypeOK, WorkerRec, OthersKept
  <2>2. "reserve" \in Holding \ {"New", "return"} /\ "reserve" \in Running
    BY DEF Holding, Running, Registering
  <2> QED  BY <1>1, <1>2, <1>4, <2>1, <2>2, Layer1Works
<1>5. ASSUME NEW out \in QueryOrNone, Finish(w, out) PROVE Layer1'
  <2>1. /\ OthersKept(w) /\ pw'[w].at \in {"readpool", "deliver"} /\ pw'[w].slot = pw[w].slot
        /\ lock'[pw[w].slot] = NoOne /\ \A s \in SlotId : s # pw[w].slot => lock'[s] = lock[s]
    BY <1>1, <1>5, FinishEffect
  <2>2. pw'[w].at \in Holding \ {"New", "return"} /\ pw'[w].at \notin Running
    BY <2>1 DEF Holding, Running, Registering
  <2> QED  BY <1>1, <1>2, <2>1, <2>2, Layer1Works
<1> QED
  BY <1>3, <1>4, <1>5

\* deliver_reply changes nothing of an ingress thread but its inbox.
LEMMA DeliverEffect ==
    ASSUME TypeOK, NEW w \in PolicyWorkers, DeliverReply(w)
    PROVE  /\ SameIngress
           /\ OthersKept(w) /\ pw[w].at = "deliver" /\ pw'[w].at = "readpool"
           /\ pw'[w].slot = pw[w].slot
<1>1. ing' = ing \/ \E j : ing' = [ing EXCEPT ![j].inbox = pw[w].out]
  BY DEF DeliverReply
<1>2. ASSUME ing' = ing PROVE SameIngress
  BY <1>2 DEF SameIngress
<1>3. ASSUME NEW j, ing' = [ing EXCEPT ![j].inbox = pw[w].out] PROVE SameIngress
  BY <1>3 DEF TypeOK, IngressRec, SameIngress
<1>4. Step(w, "deliver", "readpool")
  BY DEF DeliverReply
<1>5. /\ OthersKept(w) /\ pw[w].at = "deliver" /\ pw'[w].at = "readpool"
      /\ pw'[w].slot = pw[w].slot
  BY <1>4, StepEffect, ConstantTypes
<1> QED
  BY <1>1, <1>2, <1>3, <1>5

LEMMA Layer1Step ==
    ASSUME TypeOK, References, Layer1, [Next]_vars
    PROVE  Layer1'
<1>1. ASSUME NEW i \in Ingress, IngressPublish(i) PROVE Layer1'
  BY <1>1, Layer1Publish
<1>2. ASSUME NEW i \in Ingress, IngressSetup(i) PROVE Layer1'
  <2>1. UNCHANGED <<storeVars, lock, pw, queue>>
    BY <1>2 DEF IngressSetup
  <2>2. /\ OtherIngressKept(i) /\ ing[i].at = "setup" /\ ing'[i].at = "route"
        /\ ing'[i].slot = ing[i].slot
    BY <1>2, IngressEffect, ConstantTypes DEF IngressSetup
  <2>3. SameNews
    BY <2>1, QueueUnchangedNews DEF Layer1
  <2> QED  BY <2>1, <2>2, <2>3, Layer1Quiet DEF OtherIngressKept, IngressHolds
<1>3. ASSUME NEW i \in Ingress, IngressRoute(i) PROVE Layer1'
  <2>1. UNCHANGED <<storeVars, lock, pw, queue>>
    BY <1>3 DEF IngressRoute
  <2>2. /\ OtherIngressKept(i) /\ ing[i].at = "route" /\ ing'[i].at = "push"
        /\ ing'[i].slot = ing[i].slot
    BY <1>3, IngressEffect, ConstantTypes DEF IngressRoute
  <2>3. SameNews
    BY <2>1, QueueUnchangedNews DEF Layer1
  <2> QED  BY <2>1, <2>2, <2>3, Layer1Quiet DEF OtherIngressKept, IngressHolds
<1>4. ASSUME NEW i \in Ingress, IngressPush(i) PROVE Layer1'
  BY <1>4, Layer1Push
<1>5. ASSUME NEW i \in Ingress, IngressAwait(i) PROVE Layer1'
  <2>1. UNCHANGED <<storeVars, lock, pw, queue>>
    BY <1>5 DEF IngressAwait
  <2>2. OtherIngressKept(i) /\ ing[i].at = "await" /\ ing'[i].at = "recv"
    BY <1>5, IdleIngressEffect DEF IngressAwait
  <2>3. SameNews
    BY <2>1, QueueUnchangedNews DEF Layer1
  <2> QED  BY <2>1, <2>2, <2>3, Layer1Quiet DEF OtherIngressKept, IngressHolds
<1>6. ASSUME NEW i \in Ingress, NEW q \in Queries, IngressAcquire(i, q) PROVE Layer1'
  <2>1. CASE UNCHANGED <<storeVars, ing>>
    <3>1. UNCHANGED <<storeVars, lock, pw, queue, ing>>
      BY <1>6, <2>1 DEF IngressAcquire
    <3>2. SameNews
      BY <3>1, QueueUnchangedNews DEF Layer1
    <3> QED  BY <3>1, <3>2, Layer1Quiet
  <2>2. ASSUME NEW id \in SlotId, PopFree(id),
               ing' = [ing EXCEPT ![i] = [at |-> "publish", q |-> q, slot |-> id,
                                          inbox |-> NoOne]]
        PROVE  Layer1'
    BY <1>6, <2>2, Layer1Acquire
  <2> QED  BY <1>6, <2>1, <2>2 DEF IngressAcquire
<1>7. ASSUME NEW w \in PolicyWorkers, NEW s \in SlotId, Pop(w, s) PROVE Layer1'
  BY <1>7, Layer1Pop
<1>8. ASSUME NEW w \in PolicyWorkers, ProcessNew(w) PROVE Layer1'
  <2>1. pw[w].at = "New" /\ pw[w].at \in Holding \ Running
    BY <1>8 DEF ProcessNew, Holding, Running, Registering
  <2>2. slotState[pw[w].slot] = "Ingress" /\ pw[w].slot \in InUse /\ pw[w].slot \in SlotId
    BY <2>1 DEF Layer1, StateIsTheOwners, OwnedIsInUse, References
  <2>3. ~HasNew(pw[w].slot) /\ lock[pw[w].slot] = NoOne
    BY <2>1, <2>2, LockIsFree DEF Layer1, OneOwner
  <2>4. OthersKept(w) /\ pw'[w].at = "first" /\ pw'[w].slot = pw[w].slot
    <3>1. "first" \in WorkerAt
      BY ConstantTypes
    <3>2. Step(w, "New", "first")
      BY <1>8, <2>2 DEF ProcessNew
    <3> QED  BY <3>1, <3>2, StepEffect
  <2>5. /\ slotState' = [slotState EXCEPT ![pw[w].slot] = "Policy"]
        /\ UNCHANGED <<freeList, allocated, queue, ing, lock>>
    BY <1>8, <2>2 DEF ProcessNew, SetState
  <2>6. lock' = [lock EXCEPT ![pw[w].slot] = NoOne]
    BY <2>2, <2>3, <2>5, LockKept
  <2>7. pw'[w].at \notin Running /\ \A v \in PolicyWorkers : lock[pw[w].slot] # v
    BY <2>3, <2>4, SplitIoAssumption DEF Running, Registering
  <2> QED  BY <2>1, <2>2, <2>3, <2>4, <2>5, <2>6, <2>7, Layer1SetState
<1>9. ASSUME NEW w \in PolicyWorkers, ProcessResume(w) PROVE Layer1'
  <2>1. pw[w].at = "Resume" /\ pw[w].at \notin Holding /\ pw[w].slot \in SlotId
    BY <1>9 DEF ProcessResume, Holding, Running, Registering, References
  <2>2. CASE slotState[pw[w].slot] = "IoWait"
    <3>1. pw[w].slot \in InUse /\ ~HasNew(pw[w].slot) /\ lock[pw[w].slot] = NoOne
      BY <1>9, <2>1, <2>2, ParkedHasNoOwner DEF ProcessResume, Unlocked, Layer1, OwnedIsInUse
    <3>2. OthersKept(w) /\ pw'[w].at = "again" /\ pw'[w].slot = pw[w].slot
      <4>1. "again" \in WorkerAt
        BY ConstantTypes
      <4>2. Step(w, "Resume", "again")
        BY <1>9, <2>2 DEF ProcessResume
      <4> QED  BY <4>1, <4>2, StepEffect
    <3>3. /\ slotState' = [slotState EXCEPT ![pw[w].slot] = "Policy"]
          /\ UNCHANGED <<freeList, allocated, queue, ing, lock>>
      BY <1>9, <2>2 DEF ProcessResume, SetState
    <3>4. lock' = [lock EXCEPT ![pw[w].slot] = NoOne]
      BY <2>1, <3>1, <3>3, LockKept
    <3>5. pw'[w].at \notin Running /\ \A v \in PolicyWorkers : lock[pw[w].slot] # v
      BY <3>1, <3>2, SplitIoAssumption DEF Running, Registering
    <3> QED  BY <2>2, <3>1, <3>2, <3>3, <3>4, <3>5, Layer1SetState
  <2>3. CASE slotState[pw[w].slot] # "IoWait"
    <3>1. UNCHANGED <<storeVars, lock, ing, queue>> /\ pw' = [pw EXCEPT ![w] = IdleWorker]
      BY <1>9, <2>3 DEF ProcessResume
    <3>2. OthersKept(w) /\ pw'[w].at \notin Holding
      BY <3>1, IdleEffect DEF Holding, Running, Registering
    <3>3. SameNews
      BY <3>1, QueueUnchangedNews DEF Layer1
    <3> QED  BY <2>1, <3>1, <3>2, <3>3, Layer1Quiet DEF OthersKept
  <2> QED  BY <2>2, <2>3
<1>10. ASSUME NEW w \in PolicyWorkers, RunBegin(w) PROVE Layer1'
  <2>1. pw[w].at \in Holding \ {"New", "return"} /\ pw[w].slot \in SlotId
    BY <1>10 DEF RunBegin, Holding, References
  <2>2. slotState[pw[w].slot] = "Policy"
    BY <2>1 DEF Layer1, StateIsTheOwners
  <2>3. PICK to \in {"request", "response"} : pw' = [pw EXCEPT ![w].at = to]
    BY <1>10, <2>2 DEF RunBegin
  <2>4. /\ OthersKept(w) /\ pw'[w].at \in Running /\ pw'[w].slot = pw[w].slot
        /\ pw'[w].at \in Holding \ {"New", "return"}
    BY <2>3 DEF TypeOK, WorkerRec, OthersKept, Running, Holding
  <2>5. lock' = [lock EXCEPT ![pw[w].slot] = w] /\ UNCHANGED <<storeVars, queue, ing>>
    BY <1>10, <2>2 DEF RunBegin
  <2>6. lock'[pw[w].slot] = w /\ \A s \in SlotId : s # pw[w].slot => lock'[s] = lock[s]
    BY <2>1, <2>5 DEF TypeOK
  <2> QED  BY <2>1, <2>4, <2>5, <2>6, Layer1Works DEF SameIngress
<1>11. ASSUME NEW w \in PolicyWorkers, RunRequest(w) PROVE Layer1'
  <2>1. pw[w].at \in Running /\ "request" \in Running /\ "forward" \in Running
    BY <1>11 DEF RunRequest, Running, Registering
  <2>2. pw[w].slot \in SlotId
    BY <2>1 DEF References, Holding
  <2>3. NoOne \in QueryOrNone /\ SendWire(w) \in QueryOrNone
    BY <2>2, SendWireType, ConstantTypes
  <2> QED  BY <1>11, <2>1, <2>3, Layer1Runs DEF RunRequest
<1>12. ASSUME NEW w \in PolicyWorkers, RunResponse(w) PROVE Layer1'
  <2>1. pw[w].at \in Running /\ "response" \in Running /\ "forward" \in Running
    BY <1>12 DEF RunResponse, Running, Registering
  <2>2. pw[w].slot \in SlotId
    BY <2>1 DEF References, Holding
  <2>3. NoOne \in QueryOrNone /\ SendWire(w) \in QueryOrNone
    BY <2>2, SendWireType, ConstantTypes
  <2> QED  BY <1>12, <2>1, <2>3, Layer1Runs DEF RunResponse
<1>13. ASSUME NEW w \in PolicyWorkers, RegisterKey(w) PROVE Layer1'
  <2>1. pw[w].at \in Running /\ "forward" \in Running /\ "forward" \in Running
    BY <1>13 DEF RegisterKey, Running, Registering
  <2>2. pw[w].slot \in SlotId
    BY <2>1 DEF References, Holding
  <2>3. NoOne \in QueryOrNone /\ SendWire(w) \in QueryOrNone
    BY <2>2, SendWireType, ConstantTypes
  <2> QED  BY <1>13, <2>1, <2>3, Layer1Runs DEF RegisterKey
<1>14. ASSUME NEW w \in PolicyWorkers, TryAcquire(w) PROVE Layer1'
  <2>1. pw[w].at \in Running /\ "track" \in Running /\ "refuse" \in Running
    BY <1>14 DEF TryAcquire, Step, Running, Registering
  <2> QED  BY <1>14, <2>1, Layer1Runs DEF TryAcquire
<1>15. ASSUME NEW w \in PolicyWorkers, RefuseAtCap(w) PROVE Layer1'
  <2>1. pw[w].at \in Running /\ "refuse" \in Running /\ "forward" \in Running
    BY <1>15 DEF RefuseAtCap, Running, Registering
  <2>2. pw[w].slot \in SlotId
    BY <2>1 DEF References, Holding
  <2>3. NoOne \in QueryOrNone /\ SendWire(w) \in QueryOrNone
    BY <2>2, SendWireType, ConstantTypes
  <2> QED  BY <1>15, <2>1, <2>3, Layer1Runs DEF RefuseAtCap
<1>16. ASSUME NEW w \in PolicyWorkers, TrackPending(w) PROVE Layer1'
  <2>1. pw[w].at \in Running /\ "send" \in Running
    BY <1>16 DEF TrackPending, Running, Registering
  <2>2. pw[w].slot \in SlotId
    BY <2>1 DEF References, Holding
  <2>3. SendWire(w) \in QueryOrNone
    BY <2>2, SendWireType
  <2> QED  BY <1>16, <2>1, <2>3, Layer1Runs DEF TrackPending
<1>17. ASSUME NEW w \in PolicyWorkers, SendUpstream(w) PROVE Layer1'
  <2>1. pw[w].at \in Running /\ "park" \in Running /\ "unregister" \in Running
    BY <1>17 DEF SendUpstream, Step, Running, Registering
  <2> QED  BY <1>17, <2>1, Layer1Runs DEF SendUpstream
<1>18. ASSUME NEW w \in PolicyWorkers, Unregister(w) PROVE Layer1'
  <2>1. pw[w].at \in Running /\ "cancel" \in Running
    BY <1>18 DEF Unregister, Step, Running, Registering
  <2> QED  BY <1>18, <2>1, Layer1Runs DEF Unregister
<1>19. ASSUME NEW w \in PolicyWorkers, CancelPending(w) PROVE Layer1'
  <2>1. pw[w].at \in Running /\ "cancel" \in Running /\ "forward" \in Running
    BY <1>19 DEF CancelPending, Running, Registering
  <2>2. pw[w].slot \in SlotId
    BY <2>1 DEF References, Holding
  <2>3. NoOne \in QueryOrNone /\ SendWire(w) \in QueryOrNone
    BY <2>2, SendWireType, ConstantTypes
  <2> QED  BY <1>19, <2>1, <2>3, Layer1Runs DEF CancelPending
<1>20. ASSUME NEW w \in PolicyWorkers, Park(w) PROVE Layer1'
  <2>1. pw[w].at = "park" /\ pw[w].at \in Running /\ pw[w].at \in Holding
    BY <1>20 DEF Park, Running, Holding
  <2>2. pw[w].slot \in InUse /\ ~HasNew(pw[w].slot) /\ lock[pw[w].slot] = w /\ pw[w].slot \in SlotId
    BY <2>1 DEF Layer1, OwnedIsInUse, OneOwner, LockIsTheRunners, References
  <2>3. OthersKept(w) /\ pw'[w].at = "idle"
    BY <1>20, IdleEffect DEF Park
  <2>4. /\ slotState' = [slotState EXCEPT ![pw[w].slot] = "IoWait"]
        /\ UNCHANGED <<freeList, allocated, queue, ing>>
        /\ lock' = [lock EXCEPT ![pw[w].slot] = NoOne]
    BY <1>20 DEF Park, SetState
  <2>5. pw'[w].at \notin Holding /\ pw'[w].at \notin Running /\ pw'[w].at # "New"
    BY <2>3 DEF Holding, Running, Registering
  <2> QED  BY <2>1, <2>2, <2>3, <2>4, <2>5, Layer1SetState
<1>21. ASSUME NEW w \in PolicyWorkers, DeliverReply(w) PROVE Layer1'
  <2>1. /\ OthersKept(w) /\ pw[w].at = "deliver" /\ pw'[w].at = "readpool"
        /\ pw'[w].slot = pw[w].slot
    BY <1>21, DeliverEffect
  <2>2. /\ pw[w].at \in Holding \ Running /\ pw[w].at \in Holding \ {"New", "return"}
        /\ pw'[w].at \in Holding \ {"New", "return"} /\ pw'[w].at \notin Running
    BY <2>1 DEF Holding, Running, Registering
  <2>3. UNCHANGED <<storeVars, queue, lock>> /\ lock[pw[w].slot] = NoOne
    BY <1>21, <2>2, LockIsFree DEF DeliverReply
  <2>4. SameIngress
    BY <1>21, DeliverEffect
  <2> QED  BY <2>1, <2>2, <2>3, <2>4, Layer1Works
<1>22. ASSUME NEW w \in PolicyWorkers, ReadPool(w) PROVE Layer1'
  <2>1. PICK held \in BOOLEAN : pw' = [pw EXCEPT ![w].at = "clear", ![w].pool = held]
    BY <1>22 DEF ReadPool
  <2>2. /\ OthersKept(w) /\ pw[w].at = "readpool" /\ pw'[w].at = "clear"
        /\ pw'[w].slot = pw[w].slot
    BY <1>22, <2>1, ReadPoolEffect DEF ReadPool
  <2>3. /\ pw[w].at \in Holding \ Running /\ pw[w].at \in Holding \ {"New", "return"}
        /\ pw'[w].at \in Holding \ {"New", "return"} /\ pw'[w].at \notin Running
    BY <2>2 DEF Holding, Running, Registering
  <2>4. UNCHANGED <<storeVars, queue, lock, ing>> /\ lock[pw[w].slot] = NoOne
    BY <1>22, <2>3, LockIsFree DEF ReadPool
  <2> QED  BY <2>2, <2>3, <2>4, Layer1Works DEF SameIngress
<1>23. ASSUME NEW w \in PolicyWorkers, ReleaseClear(w) PROVE Layer1'
  <2>1. pw[w].at = "clear" /\ pw[w].at \in Holding \ Running
    BY <1>23 DEF ReleaseClear, Holding, Running, Registering
  <2>2. /\ slotState[pw[w].slot] = "Policy" /\ pw[w].slot \in InUse /\ pw[w].slot \in SlotId
        /\ ~HasNew(pw[w].slot) /\ lock[pw[w].slot] = NoOne
    BY <2>1, LockIsFree DEF Layer1, StateIsTheOwners, OwnedIsInUse, OneOwner, References
  <2>3. pw' = [pw EXCEPT ![w].at = "return"]
    BY <1>23, <2>2 DEF ReleaseClear, ShouldReturn
  <2>4. OthersKept(w) /\ pw'[w].at = "return" /\ pw'[w].slot = pw[w].slot
    BY <2>3 DEF TypeOK, WorkerRec, OthersKept
  <2>5. /\ slotState' = [slotState EXCEPT ![pw[w].slot] = "Free"]
        /\ UNCHANGED <<freeList, allocated, queue, ing, lock>>
    BY <1>23 DEF ReleaseClear, ClearSlot
  <2>6. lock' = [lock EXCEPT ![pw[w].slot] = NoOne]
    BY <2>2, <2>5, LockKept
  <2>7. pw'[w].at \notin Running /\ \A v \in PolicyWorkers : lock[pw[w].slot] # v
    BY <2>2, <2>4, SplitIoAssumption DEF Running, Registering
  <2> QED  BY <2>1, <2>2, <2>4, <2>5, <2>6, <2>7, Layer1SetState
<1>24. ASSUME NEW w \in PolicyWorkers, ReleaseReturn(w) PROVE Layer1'
  BY <1>24, Layer1Return
<1>25. ASSUME NEW w \in PolicyWorkers, ReleasePool(w) PROVE Layer1'
  <2>1. UNCHANGED <<storeVars, lock, ing, queue>> /\ pw' = [pw EXCEPT ![w] = IdleWorker]
    BY <1>25 DEF ReleasePool
  <2>2. OthersKept(w) /\ pw'[w].at \notin Holding /\ pw[w].at \notin Holding
    BY <1>25, <2>1, IdleEffect DEF ReleasePool, Holding, Running, Registering
  <2>3. SameNews
    BY <2>1, QueueUnchangedNews DEF Layer1
  <2> QED  BY <2>1, <2>2, <2>3, Layer1Quiet DEF OthersKept
<1>26. ASSUME NEW m \in sent, HandleReply(m) PROVE Layer1'
  <2>1. UNCHANGED <<storeVars, lock, ing, pw, queue>>
    BY <1>26 DEF HandleReply, IoComplete, threadVars
  <2>2. SameNews
    BY <2>1, QueueUnchangedNews DEF Layer1
  <2> QED  BY <2>1, <2>2, Layer1Quiet
<1>27. ASSUME NEW m \in sent, UpstreamDone(m) PROVE Layer1'
  <2>1. UNCHANGED <<storeVars, lock, ing, pw, queue>>
    BY <1>27 DEF UpstreamDone, threadVars
  <2>2. SameNews
    BY <2>1, QueueUnchangedNews DEF Layer1
  <2> QED  BY <2>1, <2>2, Layer1Quiet
<1>28. ASSUME NEW k \in DnsId, PollTimeouts(k) PROVE Layer1'
  <2>1. UNCHANGED <<storeVars, lock, ing, pw, queue>>
    BY <1>28 DEF PollTimeouts, IoComplete, threadVars
  <2>2. SameNews
    BY <2>1, QueueUnchangedNews DEF Layer1
  <2> QED  BY <2>1, <2>2, Layer1Quiet
<1>29. CASE IoTableRemove
  <2>1. UNCHANGED <<storeVars, lock, ing, pw, queue>>
    BY <1>29 DEF IoTableRemove, threadVars
  <2>2. SameNews
    BY <2>1, QueueUnchangedNews DEF Layer1
  <2> QED  BY <2>1, <2>2, Layer1Quiet
<1>30. CASE IoSendResume
  <2>1. UNCHANGED <<storeVars, lock, ing, pw, queue>>
    BY <1>30 DEF IoSendResume, threadVars
  <2>2. SameNews
    BY <2>1, QueueUnchangedNews DEF Layer1
  <2> QED  BY <2>1, <2>2, Layer1Quiet
<1>31. CASE ForwardResume
  <2>1. UNCHANGED <<storeVars, lock, ing, pw>>
    BY <1>31 DEF ForwardResume, threadVars
  <2>2. Head(resumeCh) \in ResumeRec
    BY <1>31, TailOfSeq DEF TypeOK, ForwardResume
  <2>3. /\ Head(resumeCh).slot \in SlotId /\ Resume(Head(resumeCh).done) \in Item
        /\ Resume(Head(resumeCh).done).kind # "New"
    BY <2>2 DEF ResumeRec, Resume, Item
  <2>4. SameNews
    BY <1>31, <2>3, PushResumeNews DEF ForwardResume, Layer1
  <2> QED  BY <2>1, <2>4, Layer1Quiet
<1>32. CASE Reload
  <2>1. UNCHANGED <<storeVars, lock, ing, pw, queue>>
    BY <1>32 DEF Reload, threadVars
  <2>2. SameNews
    BY <2>1, QueueUnchangedNews DEF Layer1
  <2> QED  BY <2>1, <2>2, Layer1Quiet
<1>33. CASE UNCHANGED vars
  <2>1. UNCHANGED <<storeVars, lock, ing, pw, queue>>
    BY <1>33 DEF vars, storeVars, threadVars
  <2>2. SameNews
    BY <2>1, QueueUnchangedNews DEF Layer1
  <2> QED  BY <2>1, <2>2, Layer1Quiet
<1> QED
  BY <1>1, <1>2, <1>3, <1>4, <1>5, <1>6, <1>7, <1>8, <1>9, <1>10, <1>11, <1>12,
     <1>13, <1>14, <1>15, <1>16, <1>17, <1>18, <1>19, <1>20, <1>21, <1>22,
     <1>23, <1>24, <1>25, <1>26, <1>27, <1>28, <1>29, <1>30, <1>31, <1>32, <1>33
     DEF Next, IngressStep, PolicyStep, IoStep

(***************************************************************************)
(* What a thread refers to keeps existing.                                 *)
(***************************************************************************)
LEMMA RefWorker ==
    ASSUME References, NEW w \in PolicyWorkers, OthersKept(w), SameIngress, UNCHANGED io,
           pw'[w].at \in Holding \cup {"Resume"} => pw'[w].slot \in SlotId,
           pw'[w].at \in Registering \cup {"park"} => pw'[w].key \in DnsId
    PROVE  References'
  BY DEF References, OthersKept, SameIngress

LEMMA RefIngress ==
    ASSUME References, NEW i \in Ingress, OtherIngressKept(i), UNCHANGED <<pw, io>>,
           ing'[i].at \in IngressHolds => ing'[i].slot \in SlotId,
           ing'[i].at # "recv" => ing'[i].q \in Queries
    PROVE  References'
  BY DEF References, OtherIngressKept

LEMMA RefFinish ==
    ASSUME TypeOK, References, NEW w \in PolicyWorkers, pw[w].slot \in SlotId,
           NEW out \in QueryOrNone, Finish(w, out), UNCHANGED <<ing, io>>
    PROVE  References'
<1>1. /\ OthersKept(w) /\ pw'[w].at \in {"readpool", "deliver"} /\ pw'[w].slot = pw[w].slot
  BY FinishEffect
<1>2. pw'[w].at \notin Registering \cup {"park"}
  BY <1>1 DEF Registering
<1> QED
  BY <1>1, <1>2, RefWorker DEF SameIngress

LEMMA RefMove ==
    ASSUME TypeOK, References, NEW w \in PolicyWorkers, NEW from, NEW to \in WorkerAt,
           Step(w, from, to), UNCHANGED <<ing, io>>,
           to \in Holding \cup {"Resume"} => from \in Holding \cup {"Resume"},
           to \in Registering \cup {"park"} => from \in Registering \cup {"park"}
    PROVE  References'
<1>1. /\ OthersKept(w) /\ pw[w].at = from /\ pw'[w].at = to
      /\ pw'[w].slot = pw[w].slot /\ pw'[w].key = pw[w].key
  BY StepEffect
<1>2. /\ pw'[w].at \in Holding \cup {"Resume"} => pw'[w].slot \in SlotId
      /\ pw'[w].at \in Registering \cup {"park"} => pw'[w].key \in DnsId
  BY <1>1 DEF References
<1> QED
  BY <1>1, <1>2, RefWorker DEF SameIngress

LEMMA RefStep ==
    ASSUME TypeOK, References, [Next]_vars
    PROVE  References'
<1> USE DEF ioVars
<1>1. ASSUME NEW i \in Ingress, IngressPublish(i) PROVE References'
  <2>1. /\ OtherIngressKept(i) /\ ing[i].at = "publish"
        /\ ing'[i].slot = ing[i].slot /\ ing'[i].q = ing[i].q
    BY <1>1, IngressEffect, ConstantTypes DEF IngressPublish
  <2> QED  BY <1>1, <2>1, RefIngress DEF IngressPublish, References, IngressHolds
<1>2. ASSUME NEW i \in Ingress, IngressSetup(i) PROVE References'
  <2>1. /\ OtherIngressKept(i) /\ ing[i].at = "setup"
        /\ ing'[i].slot = ing[i].slot /\ ing'[i].q = ing[i].q
    BY <1>2, IngressEffect, ConstantTypes DEF IngressSetup
  <2> QED  BY <1>2, <2>1, RefIngress DEF IngressSetup, References, IngressHolds
<1>3. ASSUME NEW i \in Ingress, IngressRoute(i) PROVE References'
  <2>1. /\ OtherIngressKept(i) /\ ing[i].at = "route"
        /\ ing'[i].slot = ing[i].slot /\ ing'[i].q = ing[i].q
    BY <1>3, IngressEffect, ConstantTypes DEF IngressRoute
  <2> QED  BY <1>3, <2>1, RefIngress DEF IngressRoute, References, IngressHolds
<1>4. ASSUME NEW i \in Ingress, IngressPush(i) PROVE References'
  <2>1. CASE i \in TcpIngress
    <3>1. ing' = [ing EXCEPT ![i].at = "await"]
      BY <1>4, <2>1 DEF IngressPush
    <3>2. OtherIngressKept(i) /\ ing'[i].at = "await" /\ ing'[i].q = ing[i].q
      BY <3>1, IngressEffect, ConstantTypes
    <3> QED  BY <1>4, <3>2, RefIngress DEF IngressPush, References, IngressHolds
  <2>2. CASE i \notin TcpIngress
    <3>1. OtherIngressKept(i) /\ ing'[i].at = "recv"
      BY <1>4, <2>2, IdleIngressEffect DEF IngressPush
    <3> QED  BY <1>4, <3>1, RefIngress DEF IngressPush, IngressHolds
  <2> QED  BY <2>1, <2>2
<1>5. ASSUME NEW i \in Ingress, IngressAwait(i) PROVE References'
  <2>1. OtherIngressKept(i) /\ ing'[i].at = "recv"
    BY <1>5, IdleIngressEffect DEF IngressAwait
  <2> QED  BY <1>5, <2>1, RefIngress DEF IngressAwait, IngressHolds
<1>6. ASSUME NEW i \in Ingress, NEW q \in Queries, IngressAcquire(i, q) PROVE References'
  <2>1. CASE UNCHANGED ing
    BY <1>6, <2>1 DEF IngressAcquire, References
  <2>2. ASSUME NEW id \in SlotId, ing' = [ing EXCEPT ![i] = [at |-> "publish", q |-> q,
                                               slot |-> id, inbox |-> NoOne]]
        PROVE  References'
    <3>1. OtherIngressKept(i) /\ ing'[i].slot = id /\ ing'[i].q = q
      BY <2>2 DEF TypeOK, OtherIngressKept
    <3> QED  BY <1>6, <3>1, RefIngress DEF IngressAcquire
  <2> QED  BY <1>6, <2>1, <2>2 DEF IngressAcquire
<1>7. ASSUME NEW w \in PolicyWorkers, NEW s \in SlotId, Pop(w, s) PROVE References'
  <2>1. /\ OthersKept(w) /\ pw'[w].at \in {"New", "Resume"} /\ pw'[w].slot = s
    BY <1>7, PopEffect
  <2>2. pw'[w].at \notin Registering \cup {"park"}
    BY <2>1 DEF Registering
  <2> QED  BY <1>7, <2>1, <2>2, RefWorker DEF Pop, SameIngress
<1>8. ASSUME NEW w \in PolicyWorkers, ProcessNew(w) PROVE References'
  <2>1. UNCHANGED <<ing, io>>
    BY <1>8 DEF ProcessNew
  <2>2. CASE Step(w, "New", "first")
    BY <2>1, <2>2, RefMove, ConstantTypes DEF Holding, Running, Registering
  <2>3. CASE Step(w, "New", "clear")
    BY <2>1, <2>3, RefMove, ConstantTypes DEF Holding, Running, Registering
  <2> QED  BY <1>8, <2>2, <2>3 DEF ProcessNew
<1>9. ASSUME NEW w \in PolicyWorkers, ProcessResume(w) PROVE References'
  <2>1. UNCHANGED <<ing, io>>
    BY <1>9 DEF ProcessResume
  <2>2. CASE Step(w, "Resume", "again")
    BY <2>1, <2>2, RefMove, ConstantTypes DEF Holding, Running, Registering
  <2>3. CASE pw' = [pw EXCEPT ![w] = IdleWorker]
    <3>1. OthersKept(w) /\ pw'[w].at \notin Holding \cup {"Resume"} /\ pw'[w].at # "park"
          /\ pw'[w].at \notin Registering
      BY <2>3, IdleEffect DEF Holding, Running, Registering
    <3> QED  BY <2>1, <3>1, RefWorker DEF SameIngress
  <2> QED  BY <1>9, <2>2, <2>3 DEF ProcessResume
<1>10. ASSUME NEW w \in PolicyWorkers, RunBegin(w) PROVE References'
  <2>1. UNCHANGED <<ing, io>>
    BY <1>10 DEF RunBegin
  <2>2. PICK to \in {"request", "response", "readpool"} : pw' = [pw EXCEPT ![w].at = to]
    BY <1>10 DEF RunBegin
  <2>3. Step(w, pw[w].at, to) /\ to \in WorkerAt
    BY <2>2, ConstantTypes DEF Step
  <2>4. pw[w].at \in Holding /\ to \notin Registering \cup {"park"}
    BY <1>10, <2>2 DEF RunBegin, Holding, Registering
  <2> QED  BY <2>1, <2>3, <2>4, RefMove
<1>11. ASSUME NEW w \in PolicyWorkers, RunRequest(w) PROVE References'
  <2>1. UNCHANGED <<ing, io>> /\ pw[w].at \in Holding
    BY <1>11 DEF RunRequest, Holding, Running, Registering
  <2>2. pw[w].slot \in SlotId
    BY <2>1 DEF References
  <2>3. NoOne \in QueryOrNone /\ SendWire(w) \in QueryOrNone
    BY <2>2, SendWireType, ConstantTypes
  <2>4. ASSUME NEW out \in QueryOrNone, Finish(w, out) PROVE References'
    BY <2>1, <2>2, <2>4, RefFinish
  <2>5. CASE Step(w, "request", "forward")
    BY <2>1, <2>5, RefMove, ConstantTypes DEF Holding, Running, Registering
  <2> QED  BY <1>11, <2>3, <2>4, <2>5 DEF RunRequest
<1>12. ASSUME NEW w \in PolicyWorkers, RunResponse(w) PROVE References'
  <2>1. UNCHANGED <<ing, io>> /\ pw[w].at \in Holding
    BY <1>12 DEF RunResponse, Holding, Running, Registering
  <2>2. pw[w].slot \in SlotId
    BY <2>1 DEF References
  <2>3. NoOne \in QueryOrNone /\ SendWire(w) \in QueryOrNone
    BY <2>2, SendWireType, ConstantTypes
  <2>4. ASSUME NEW out \in QueryOrNone, Finish(w, out) PROVE References'
    BY <2>1, <2>2, <2>4, RefFinish, ZenonT(30)
  <2>5. CASE Step(w, "response", "forward")
    BY <2>1, <2>5, RefMove, ConstantTypes DEF Holding, Running, Registering
  <2> QED  BY <1>12, <2>3, <2>4, <2>5 DEF RunResponse
<1>13. ASSUME NEW w \in PolicyWorkers, RegisterKey(w) PROVE References'
  <2>1. UNCHANGED <<ing, io>> /\ pw[w].at \in Holding
    BY <1>13 DEF RegisterKey, Holding, Running, Registering
  <2>2. pw[w].slot \in SlotId
    BY <2>1 DEF References
  <2>3. NoOne \in QueryOrNone /\ SendWire(w) \in QueryOrNone
    BY <2>2, SendWireType, ConstantTypes
  <2>4. ASSUME NEW out \in QueryOrNone, Finish(w, out) PROVE References'
    BY <2>1, <2>2, <2>4, RefFinish, ZenonT(30)
  <2>5. ASSUME NEW k \in DnsId, pw' = [pw EXCEPT ![w].at = "reserve", ![w].key = k]
        PROVE  References'
    <3>1. OthersKept(w) /\ pw'[w].key = k /\ pw'[w].slot = pw[w].slot
      BY <2>5 DEF TypeOK, WorkerRec, OthersKept
    <3> QED  BY <2>1, <2>2, <3>1, RefWorker DEF SameIngress
  <2> QED  BY <1>13, <2>3, <2>4, <2>5 DEF RegisterKey
<1>14. ASSUME NEW w \in PolicyWorkers, TryAcquire(w) PROVE References'
  <2>1. UNCHANGED <<ing, io>>
    BY <1>14 DEF TryAcquire
  <2>2. CASE Step(w, "reserve", "track")
    BY <2>1, <2>2, RefMove, ConstantTypes DEF Holding, Running, Registering
  <2>3. CASE Step(w, "reserve", "refuse")
    BY <2>1, <2>3, RefMove, ConstantTypes DEF Holding, Running, Registering
  <2> QED  BY <1>14, <2>2, <2>3 DEF TryAcquire
<1>15. ASSUME NEW w \in PolicyWorkers, RefuseAtCap(w) PROVE References'
  <2>1. UNCHANGED <<ing, io>> /\ pw[w].at \in Holding
    BY <1>15 DEF RefuseAtCap, Holding, Running, Registering
  <2>2. pw[w].slot \in SlotId
    BY <2>1 DEF References
  <2>3. NoOne \in QueryOrNone /\ SendWire(w) \in QueryOrNone
    BY <2>2, SendWireType, ConstantTypes
  <2>4. ASSUME NEW out \in QueryOrNone, Finish(w, out) PROVE References'
    BY <2>1, <2>2, <2>4, RefFinish, ZenonT(30)
  <2> QED  BY <1>15, <2>3, <2>4 DEF RefuseAtCap
<1>16. ASSUME NEW w \in PolicyWorkers, TrackPending(w) PROVE References'
  <2>1. UNCHANGED <<ing, io>> /\ pw[w].at \in Holding
    BY <1>16 DEF TrackPending, Holding, Running, Registering
  <2>2. pw[w].slot \in SlotId
    BY <2>1 DEF References
  <2>3. NoOne \in QueryOrNone /\ SendWire(w) \in QueryOrNone
    BY <2>2, SendWireType, ConstantTypes
  <2>4. ASSUME NEW out \in QueryOrNone, Finish(w, out) PROVE References'
    BY <2>1, <2>2, <2>4, RefFinish, ZenonT(30)
  <2>5. CASE Step(w, "track", "send")
    BY <2>1, <2>5, RefMove, ConstantTypes DEF Holding, Running, Registering
  <2> QED  BY <1>16, <2>3, <2>4, <2>5 DEF TrackPending
<1>17. ASSUME NEW w \in PolicyWorkers, SendUpstream(w) PROVE References'
  <2>1. UNCHANGED <<ing, io>>
    BY <1>17 DEF SendUpstream
  <2>2. CASE Step(w, "send", "park")
    BY <2>1, <2>2, RefMove, ConstantTypes DEF Holding, Running, Registering
  <2>3. CASE Step(w, "send", "unregister")
    BY <2>1, <2>3, RefMove, ConstantTypes DEF Holding, Running, Registering
  <2> QED  BY <1>17, <2>2, <2>3 DEF SendUpstream
<1>18. ASSUME NEW w \in PolicyWorkers, Unregister(w) PROVE References'
  <2>1. UNCHANGED <<ing, io>>
    BY <1>18 DEF Unregister
  <2>2. CASE Step(w, "unregister", "cancel")
    BY <2>1, <2>2, RefMove, ConstantTypes DEF Holding, Running, Registering
  <2> QED  BY <1>18, <2>2 DEF Unregister
<1>19. ASSUME NEW w \in PolicyWorkers, CancelPending(w) PROVE References'
  <2>1. UNCHANGED <<ing, io>> /\ pw[w].at \in Holding
    BY <1>19 DEF CancelPending, Holding, Running, Registering
  <2>2. pw[w].slot \in SlotId
    BY <2>1 DEF References
  <2>3. NoOne \in QueryOrNone /\ SendWire(w) \in QueryOrNone
    BY <2>2, SendWireType, ConstantTypes
  <2>4. ASSUME NEW out \in QueryOrNone, Finish(w, out) PROVE References'
    BY <2>1, <2>2, <2>4, RefFinish, ZenonT(30)
  <2> QED  BY <1>19, <2>3, <2>4 DEF CancelPending
<1>20. ASSUME NEW w \in PolicyWorkers, Park(w) PROVE References'
  <2>1. UNCHANGED <<ing, io>> /\ pw' = [pw EXCEPT ![w] = IdleWorker]
    BY <1>20 DEF Park
  <2>2. OthersKept(w) /\ pw'[w].at \notin Holding \cup {"Resume"} /\ pw'[w].at # "park"
        /\ pw'[w].at \notin Registering
    BY <2>1, IdleEffect DEF Holding, Running, Registering
  <2> QED  BY <2>1, <2>2, RefWorker DEF SameIngress
<1>21. ASSUME NEW w \in PolicyWorkers, DeliverReply(w) PROVE References'
  <2>1. /\ SameIngress /\ OthersKept(w) /\ pw[w].at = "deliver" /\ pw'[w].at = "readpool"
        /\ pw'[w].slot = pw[w].slot
    BY <1>21, DeliverEffect
  <2>2. pw[w].at \in Holding /\ pw'[w].at \notin Registering \cup {"park"}
    BY <2>1 DEF Holding, Running, Registering
  <2>3. pw[w].slot \in SlotId
    BY <2>2 DEF References
  <2> QED  BY <1>21, <2>1, <2>2, <2>3, RefWorker DEF DeliverReply
<1>22. ASSUME NEW w \in PolicyWorkers, ReadPool(w) PROVE References'
  <2>1. PICK held \in BOOLEAN : pw' = [pw EXCEPT ![w].at = "clear", ![w].pool = held]
    BY <1>22 DEF ReadPool
  <2>2. OthersKept(w) /\ pw'[w].at = "clear" /\ pw'[w].slot = pw[w].slot
    BY <2>1 DEF TypeOK, WorkerRec, OthersKept
  <2>3. pw[w].at \in Holding /\ pw'[w].at \notin Registering \cup {"park"}
    BY <1>22, <2>2 DEF ReadPool, Holding, Running, Registering
  <2>4. pw[w].slot \in SlotId
    BY <2>3 DEF References
  <2> QED  BY <1>22, <2>2, <2>3, <2>4, RefWorker DEF ReadPool, SameIngress
<1>23. ASSUME NEW w \in PolicyWorkers, ReleaseClear(w) PROVE References'
  <2>1. UNCHANGED <<ing, io>>
    BY <1>23 DEF ReleaseClear
  <2>2. PICK to \in {"return", "unreserve"} : pw' = [pw EXCEPT ![w].at = to]
    BY <1>23 DEF ReleaseClear
  <2>3. Step(w, pw[w].at, to) /\ to \in WorkerAt
    BY <2>2, ConstantTypes DEF Step
  <2>4. pw[w].at \in Holding /\ to \notin Registering \cup {"park"}
    BY <1>23, <2>2 DEF ReleaseClear, Holding, Registering
  <2> QED  BY <2>1, <2>3, <2>4, RefMove
<1>24. ASSUME NEW w \in PolicyWorkers, ReleaseReturn(w) PROVE References'
  <2>1. UNCHANGED <<ing, io>>
    BY <1>24 DEF ReleaseReturn
  <2>2. CASE Step(w, "return", "unreserve")
    BY <2>1, <2>2, RefMove, ConstantTypes DEF Holding, Running, Registering
  <2> QED  BY <1>24, <2>2 DEF ReleaseReturn
<1>25. ASSUME NEW w \in PolicyWorkers, ReleasePool(w) PROVE References'
  <2>1. UNCHANGED <<ing, io>> /\ pw' = [pw EXCEPT ![w] = IdleWorker]
    BY <1>25 DEF ReleasePool
  <2>2. OthersKept(w) /\ pw'[w].at \notin Holding \cup {"Resume"} /\ pw'[w].at # "park"
        /\ pw'[w].at \notin Registering
    BY <2>1, IdleEffect DEF Holding, Running, Registering
  <2> QED  BY <2>1, <2>2, RefWorker DEF SameIngress
<1>26. ASSUME NEW m \in sent, HandleReply(m) PROVE References'
  <2>1. pending[m.id] \in SlotId /\ m.id \in DnsId
    BY <1>26 DEF TypeOK, HandleReply, IoComplete, SlotOrNone
  <2> QED  BY <1>26, <2>1 DEF References, HandleReply, IoComplete, threadVars
<1>27. ASSUME NEW m \in sent, UpstreamDone(m) PROVE References'
  BY <1>27 DEF References, UpstreamDone, threadVars
<1>28. ASSUME NEW k \in DnsId, PollTimeouts(k) PROVE References'
  <2>1. pending[k] \in SlotId
    BY <1>28 DEF TypeOK, PollTimeouts, IoComplete, SlotOrNone
  <2> QED  BY <1>28, <2>1 DEF References, PollTimeouts, IoComplete, threadVars
<1>29. CASE IoTableRemove
  BY <1>29 DEF TypeOK, IoRec, References, IoTableRemove, threadVars
<1>30. CASE IoSendResume
  BY <1>30 DEF References, IdleIo, IoSendResume, threadVars
<1>31. CASE ForwardResume
  BY <1>31 DEF References, ForwardResume, threadVars
<1>32. CASE Reload
  BY <1>32 DEF References, Reload, threadVars
<1>33. CASE UNCHANGED vars
  BY <1>33 DEF References, vars
<1> QED
  BY <1>1, <1>2, <1>3, <1>4, <1>5, <1>6, <1>7, <1>8, <1>9, <1>10, <1>11, <1>12,
     <1>13, <1>14, <1>15, <1>16, <1>17, <1>18, <1>19, <1>20, <1>21, <1>22,
     <1>23, <1>24, <1>25, <1>26, <1>27, <1>28, <1>29, <1>30, <1>31, <1>32, <1>33
     DEF Next, IngressStep, PolicyStep, IoStep

-----------------------------------------------------------------------------
LEMMA InitIsIdle ==
    ASSUME Init
    PROVE  /\ \A i \in Ingress : /\ ing[i].at = "recv" /\ ing[i].q = NoOne /\ ing[i].inbox = NoOne
                                 /\ ing[i].at \notin IngressHolds
           /\ \A w \in PolicyWorkers : pw[w].at = "idle" /\ pw[w].at \notin Holding
           /\ \A s \in SlotId : /\ Len(queue[s]) = 0 /\ slotState[s] = "Free" /\ lock[s] = NoOne
                                /\ ~HasNew(s) /\ txn[s] = NoTxn /\ route[s] = NoOne
           /\ \A k \in DnsId : table[k] = NoOne /\ pending[k] = NoOne
           /\ io.at = "idle" /\ Len(resumeCh) = 0 /\ sent = {}
           /\ \A q \in Queries : got[q] = << >> /\ life[q] = "new"
<1>1. /\ \A i \in Ingress : ing[i] = IdleIngress
      /\ \A w \in PolicyWorkers : pw[w] = IdleWorker
      /\ \A s \in SlotId : Len(queue[s]) = 0 /\ slotState[s] = "Free" /\ lock[s] = NoOne
      /\ \A s \in SlotId : txn[s] = NoTxn /\ route[s] = NoOne
      /\ \A k \in DnsId : table[k] = NoOne /\ pending[k] = NoOne
      /\ io.at = "idle" /\ Len(resumeCh) = 0 /\ sent = {}
      /\ \A q \in Queries : got[q] = << >> /\ life[q] = "new"
  BY DEF Init, StoreInit, IdleIo
<1>2. \A w \in PolicyWorkers : pw[w].at = "idle" /\ pw[w].at \notin Holding
  <2>1. IdleWorker.at = "idle" /\ "idle" \notin Holding
    BY DEF IdleWorker, Holding, Running, Registering
  <2> QED  BY <1>1, <2>1
<1>3. \A i \in Ingress : /\ ing[i].at = "recv" /\ ing[i].q = NoOne /\ ing[i].inbox = NoOne
                         /\ ing[i].at \notin IngressHolds
  <2>1. /\ IdleIngress.at = "recv" /\ IdleIngress.q = NoOne /\ IdleIngress.inbox = NoOne
        /\ "recv" \notin IngressHolds
    BY DEF IdleIngress, IngressHolds
  <2> QED  BY <1>1, <2>1
<1>4. \A s \in SlotId : ~HasNew(s)
  <2>1. 1 .. 0 = {}
    BY SMT
  <2> QED  BY <1>1, <2>1 DEF HasNew
<1> QED
  BY <1>1, <1>2, <1>3, <1>4

LEMMA InitOwned ==
    ASSUME Init
    PROVE  Owned
<1>1. TypeOK
  <2>1. StoreTypeOK
    BY TxnStoreAssumption, SMT DEF Init, StoreInit, StoreTypeOK, SlotState
  <2>2. ing \in [Ingress -> IngressRec]
    BY DEF Init, IdleIngress, IngressRec, IngressAt, QueryOrNone, SlotOrNone
  <2>3. /\ txn \in [SlotId -> TxnRec] /\ route \in [SlotId -> RouteRec \cup {NoOne}]
        /\ queue \in [SlotId -> Seq(Item)] /\ lock \in [SlotId -> PolicyWorkers \cup {NoOne}]
    BY ConstantTypes, SMT DEF Init
  <2>4. pw \in [PolicyWorkers -> WorkerRec]
    BY DEF Init, IdleWorker, WorkerRec, WorkerAt, SlotOrNone, QueryOrNone, KeyOrNone
  <2>5. /\ table \in [DnsId -> SlotOrNone] /\ nextId \in DnsId /\ pending \in [DnsId -> SlotOrNone]
        /\ inflight \in Nat /\ io \in IoRec /\ gen \in Nat
    <3>1. /\ table \in [DnsId -> SlotOrNone] /\ pending \in [DnsId -> SlotOrNone] /\ io \in IoRec
      BY ConstantTypes DEF Init
    <3>2. nextId \in DnsId /\ inflight \in Nat /\ gen \in Nat
      BY SplitIoAssumption, SMT DEF Init, DnsId
    <3> QED  BY <3>1, <3>2
  <2>6. /\ resumeCh \in Seq(ResumeRec) /\ sent \subseteq [id : DnsId, q : QueryOrNone]
        /\ got \in [Queries -> Seq(QueryOrNone)]
        /\ life \in [Queries -> {"new", "open", "shed", "rejected", "done"}]
    BY SMT DEF Init
  <2> QED  BY <2>1, <2>2, <2>3, <2>4, <2>5, <2>6 DEF TypeOK
<1>2. References
  BY InitIsIdle DEF References, Holding, Running
<1>3. Layer1
  <2>1. FreeListOk
    <3>1. freeList = << >>
      BY DEF Init, StoreInit
    <3> QED  BY <3>1, SMT DEF FreeListOk
  <2>2. OwnedIsInUse /\ OneOwner
    <3>1. \A s \in SlotId : Len(queue[s]) = 0
      BY InitIsIdle
    <3>2. 1 .. 0 = {}
      BY SMT
    <3>3. OwnedIsInUse
      BY InitIsIdle DEF OwnedIsInUse
    <3>4. \A s \in SlotId : \A m, n \in 1 .. Len(queue[s]) :
             queue[s][m].kind = "New" /\ queue[s][n].kind = "New" => m = n
      BY <3>1, <3>2
    <3> QED  BY InitIsIdle, <3>3, <3>4 DEF OneOwner
  <2>3. StateIsTheOwners /\ LockIsTheRunners
    BY InitIsIdle DEF StateIsTheOwners, LockIsTheRunners, Holding
  <2> QED  BY <2>1, <2>2, <2>3 DEF Layer1
<1> QED
  BY <1>1, <1>2, <1>3 DEF Owned

(***************************************************************************)
(* The types, and one owner per slot: for any number of slots, ingress     *)
(* threads and policy workers, a slot out of the free list belongs to one  *)
(* ingress thread, one queued New item or one worker, its state is the one *)
(* that owner gave it, and its mutex is held by the worker that runs it.   *)
(* No assumption about ids is needed for this.                             *)
(***************************************************************************)
THEOREM SlotsHaveOneOwner == Spec => []Owned
<1>1. Init => Owned
  BY InitOwned
<1>2. Owned /\ [Next]_vars => Owned'
  BY TypeStep, RefStep, Layer1Step DEF Owned, Layer1
<1> QED
  BY <1>1, <1>2, PTL DEF Spec

-----------------------------------------------------------------------------
(***************************************************************************)
(* register_unique takes ids in turn and skips registered ones.  This says *)
(* that an id comes up again only when no earlier query under it can be    *)
(* answered any more and the worker that had it is done with it: a lap of  *)
(* 65536 registrations takes longer than a forward.                        *)
(***************************************************************************)
FreshIds ==
    \A k \in DnsId : table[k] = NoOne /\ table'[k] # NoOne =>
        /\ \A m \in sent : m.id # k
        /\ \A w \in PolicyWorkers : pw[w].key # k

-----------------------------------------------------------------------------
(***************************************************************************)
(* Layer 2: who removes a registered id.                                   *)
(***************************************************************************)
KeysAreSeparate ==
    \A v, w \in PolicyWorkers :
        pw[v].at \in Registering /\ pw[w].at \in Registering /\ pw[v].key = pw[w].key => v = w

KeyIsNotSent ==
    \A w \in PolicyWorkers, m \in sent : pw[w].at \in Registering => m.id # pw[w].key

TableFollowsWorker ==
    \A w \in PolicyWorkers :
        /\ pw[w].at \in Registering \ {"cancel"} => table[pw[w].key] = pw[w].slot
        /\ pw[w].at = "cancel" => table[pw[w].key] = NoOne
        /\ pw[w].at \in Registering \ Sending => pending[pw[w].key] = NoOne
        /\ pw[w].at \in Sending => pending[pw[w].key] = pw[w].slot

TableFollowsIo ==
    io.at = "table" =>
        /\ table[io.key] = io.slot /\ pending[io.key] = NoOne
        /\ \A w \in PolicyWorkers : pw[w].at \in Registering => pw[w].key # io.key

\* A pending forward is registered, unless its worker has just unregistered it.
PendingIsInTable ==
    \A k \in DnsId : pending[k] # NoOne =>
        table[k] = pending[k] \/ \E w \in PolicyWorkers : pw[w].at = "cancel" /\ pw[w].key = k

Layer2 == /\ KeysAreSeparate /\ KeyIsNotSent /\ TableFollowsWorker /\ TableFollowsIo
          /\ PendingIsInTable /\ NoTableLeak

-----------------------------------------------------------------------------
(***************************************************************************)
(* Layer 3: the wake of a slot is in one place.                            *)
(***************************************************************************)
Pending(s) == \E k \in DnsId : pending[k] = s
Completing(s) == io.at # "idle" /\ io.slot = s
InChannel(s) == \E n \in 1 .. Len(resumeCh) : resumeCh[n].slot = s
Queued(s) == \E n \in 1 .. Len(queue[s]) : queue[s][n].kind = "Resume"
Popped(s) == \E w \in PolicyWorkers : pw[w].at = "Resume" /\ pw[w].slot = s

Woken(s) == Pending(s) \/ Completing(s) \/ InChannel(s) \/ Queued(s) \/ Popped(s)

EachPlaceOnce ==
    /\ \A j, k \in DnsId : pending[j] = pending[k] /\ pending[j] # NoOne => j = k
    /\ \A m, n \in 1 .. Len(resumeCh) : resumeCh[m].slot = resumeCh[n].slot => m = n
    /\ \A s \in SlotId : Len(queue[s]) <= 1
    /\ \A v, w \in PolicyWorkers :
          pw[v].at = "Resume" /\ pw[w].at = "Resume" /\ pw[v].slot = pw[w].slot => v = w

InOnePlace(s) ==
    /\ Pending(s) => ~Completing(s) /\ ~InChannel(s) /\ ~Queued(s) /\ ~Popped(s)
    /\ Completing(s) => ~InChannel(s) /\ ~Queued(s) /\ ~Popped(s)
    /\ InChannel(s) => ~Queued(s) /\ ~Popped(s)
    /\ Queued(s) => ~Popped(s)

OnePlace == \A s \in SlotId : InOnePlace(s)

\* The slot is parked, or the worker that is about to park it has its mutex.
Parking == Sending \cup {"park"}
MayBeWoken(s) ==
    \/ slotState[s] = "IoWait" /\ lock[s] = NoOne
    \/ \E w \in PolicyWorkers : pw[w].at \in Parking /\ pw[w].slot = s

WokenIsParked == \A s \in SlotId : Woken(s) => MayBeWoken(s)

ParkedIsWoken ==
    /\ \A s \in SlotId : slotState[s] = "IoWait" => Woken(s)
    /\ \A w \in PolicyWorkers, s \in SlotId : pw[w].at = "park" /\ pw[w].slot = s => Woken(s)

Layer3 == EachPlaceOnce /\ OnePlace /\ WokenIsParked /\ ParkedIsWoken

-----------------------------------------------------------------------------
(***************************************************************************)
(* Layer 2, by the form of the step.                                       *)
(***************************************************************************)
LeakSources == {"reserve", "refuse", "track", "unregister"}

\* The clauses of TableFollowsWorker, PendingIsInTable and NoTableLeak.
FollowedBy(w) ==
    /\ pw[w].at \in Registering \ {"cancel"} => table[pw[w].key] = pw[w].slot
    /\ pw[w].at = "cancel" => table[pw[w].key] = NoOne
    /\ pw[w].at \in Registering \ Sending => pending[pw[w].key] = NoOne
    /\ pw[w].at \in Sending => pending[pw[w].key] = pw[w].slot

PendingHas(k) ==
    pending[k] # NoOne =>
        table[k] = pending[k] \/ \E w \in PolicyWorkers : pw[w].at = "cancel" /\ pw[w].key = k

TableHas(k) ==
    table[k] # NoOne =>
        \/ pending[k] = table[k]
        \/ io.at = "table" /\ io.key = k
        \/ \E w \in PolicyWorkers : pw[w].key = k /\ pw[w].at \in LeakSources

LEMMA Layer2Clauses ==
    /\ TableFollowsWorker <=> \A w \in PolicyWorkers : FollowedBy(w)
    /\ PendingIsInTable <=> \A k \in DnsId : PendingHas(k)
    /\ NoTableLeak <=> \A k \in DnsId : TableHas(k)
<1>1. TableFollowsWorker <=> \A w \in PolicyWorkers : FollowedBy(w)
  BY DEF TableFollowsWorker, FollowedBy
<1>2. PendingIsInTable <=> \A k \in DnsId : PendingHas(k)
  BY DEF PendingIsInTable, PendingHas
<1>3. NoTableLeak <=> \A k \in DnsId : TableHas(k)
  BY DEF NoTableLeak, TableHas, LeakSources
<1> QED
  BY <1>1, <1>2, <1>3

\* A worker that does not move and whose id is left alone.
LEMMA FollowedKept ==
    ASSUME Layer2, NEW v \in PolicyWorkers, pw'[v] = pw[v],
           pw[v].at \in Registering => /\ table'[pw[v].key] = table[pw[v].key]
                                      /\ pending'[pw[v].key] = pending[pw[v].key]
    PROVE  FollowedBy(v)'
<1>1. FollowedBy(v)
  BY Layer2Clauses DEF Layer2
<1>2. CASE pw[v].at \in Registering
  BY <1>1, <1>2 DEF FollowedBy
<1>3. CASE pw[v].at \notin Registering
  <2>1. pw[v].at # "cancel" /\ pw[v].at \notin Sending
    BY <1>3 DEF Registering, Sending
  <2> QED  BY <1>3, <2>1 DEF FollowedBy
<1> QED
  BY <1>2, <1>3

LEMMA FollowedIdle ==
    ASSUME NEW w \in PolicyWorkers, pw'[w].at \notin Registering
    PROVE  FollowedBy(w)'
<1>1. pw'[w].at # "cancel" /\ pw'[w].at \notin Sending
  BY DEF Registering, Sending
<1> QED
  BY <1>1 DEF FollowedBy

\* An id that is left alone, while a worker moves that has not unregistered it.
LEMMA PendingHasKept ==
    ASSUME Layer2, NEW w \in PolicyWorkers, OthersKept(w), NEW k \in DnsId,
           pw[w].at = "cancel" => pw[w].key # k,
           table'[k] = table[k], pending'[k] = pending[k]
    PROVE  PendingHas(k)'
<1>1. PendingHas(k)
  BY Layer2Clauses DEF Layer2
<1>2. ASSUME NEW v \in PolicyWorkers, pw[v].at = "cancel", pw[v].key = k
      PROVE  pw'[v].at = "cancel" /\ pw'[v].key = k
  BY <1>2 DEF OthersKept
<1> QED
  BY <1>1, <1>2 DEF PendingHas

\* ... and while a worker moves that does not answer for it.
LEMMA TableHasKept ==
    ASSUME Layer2, NEW w \in PolicyWorkers, OthersKept(w), NEW k \in DnsId,
           pw[w].at \in LeakSources => pw[w].key # k,
           table'[k] = table[k], pending'[k] = pending[k], io' = io
    PROVE  TableHas(k)'
<1>1. TableHas(k)
  BY Layer2Clauses DEF Layer2
<1>2. ASSUME NEW v \in PolicyWorkers, pw[v].key = k, pw[v].at \in LeakSources
      PROVE  pw'[v].key = k /\ pw'[v].at \in LeakSources
  BY <1>2 DEF OthersKept
<1> QED
  BY <1>1, <1>2 DEF TableHas

LEMMA Layer2Quiet ==
    ASSUME Layer2, UNCHANGED <<table, pending, io>>, sent' \subseteq sent,
           \A v \in PolicyWorkers :
              \/ pw'[v] = pw[v]
              \/ pw[v].at \notin Registering /\ pw'[v].at \notin Registering
              \/ /\ pw'[v].key = pw[v].key /\ pw'[v].slot = pw[v].slot
                 /\ pw[v].at \in Registering \ {"cancel"} /\ pw'[v].at \in Registering \ {"cancel"}
                 /\ pw'[v].at \in Sending <=> pw[v].at \in Sending
                 /\ pw[v].at \in LeakSources => pw'[v].at \in LeakSources
    PROVE  Layer2'
<1>1. KeysAreSeparate' /\ KeyIsNotSent'
  BY DEF Layer2, KeysAreSeparate, KeyIsNotSent
<1>2. TableFollowsWorker'
  <2>1. ASSUME NEW v \in PolicyWorkers PROVE FollowedBy(v)'
    <3>1. FollowedBy(v)
      BY Layer2Clauses DEF Layer2
    <3>2. CASE pw'[v] = pw[v]
      BY <3>2, FollowedKept
    <3>3. CASE pw'[v].at \notin Registering
      BY <3>3, FollowedIdle
    <3>4. CASE /\ pw'[v].key = pw[v].key /\ pw'[v].slot = pw[v].slot
               /\ pw[v].at \in Registering \ {"cancel"} /\ pw'[v].at \in Registering \ {"cancel"}
               /\ pw'[v].at \in Sending <=> pw[v].at \in Sending
      BY <3>1, <3>4 DEF FollowedBy
    <3> QED  BY <3>2, <3>3, <3>4
  <2> QED  BY <2>1 DEF TableFollowsWorker, FollowedBy
<1>3. TableFollowsIo'
  BY DEF Layer2, TableFollowsIo
<1>4. PendingIsInTable'
  <2>1. ASSUME NEW v \in PolicyWorkers, pw[v].at = "cancel" PROVE pw'[v] = pw[v]
    <3>1. "cancel" \in Registering
      BY DEF Registering
    <3> QED  BY <2>1, <3>1
  <2>2. ASSUME NEW k \in DnsId PROVE PendingHas(k)'
    <3>1. PendingHas(k)
      BY Layer2Clauses DEF Layer2
    <3> QED  BY <2>1, <3>1 DEF PendingHas
  <2> QED  BY <2>2 DEF PendingIsInTable, PendingHas
<1>5. NoTableLeak'
  <2>1. ASSUME NEW v \in PolicyWorkers, pw[v].at \in LeakSources
        PROVE  pw'[v].key = pw[v].key /\ pw'[v].at \in LeakSources
    <3>1. pw[v].at \in Registering
      BY <2>1 DEF Registering, LeakSources
    <3> QED  BY <2>1, <3>1
  <2>2. ASSUME NEW k \in DnsId PROVE TableHas(k)'
    <3>1. TableHas(k)
      BY Layer2Clauses DEF Layer2
    <3> QED  BY <2>1, <3>1 DEF TableHas
  <2> QED  BY <2>2 DEF NoTableLeak, TableHas, LeakSources
<1> QED
  BY <1>1, <1>2, <1>3, <1>4, <1>5 DEF Layer2

\* register_unique gives out an id that nobody uses.
LEMMA Layer2Register ==
    ASSUME TypeOK, References, Layer2, FreshIds, NEW w \in PolicyWorkers, NEW k \in DnsId,
           pw[w].at = "forward", table[k] = NoOne, table' = [table EXCEPT ![k] = pw[w].slot],
           OthersKept(w), pw'[w].at = "reserve", pw'[w].key = k, pw'[w].slot = pw[w].slot,
           UNCHANGED <<pending, io, sent>>
    PROVE  Layer2'
<1>1. pw[w].slot \in SlotId /\ pw[w].slot # NoOne
  BY SplitIoAssumption DEF References, Holding, Running
<1>3. table'[k] = pw[w].slot /\ \A j \in DnsId : j # k => table'[j] = table[j]
  BY DEF TypeOK
<1>4. (\A m \in sent : m.id # k) /\ \A v \in PolicyWorkers : pw[v].key # k
  BY <1>1, <1>3 DEF FreshIds
<1>5. pending[k] = NoOne
  BY <1>1, <1>4 DEF TypeOK, SlotOrNone, Layer2, PendingIsInTable
<1>6. \A v \in PolicyWorkers : pw[v].at \in Registering => pw[v].key \in DnsId
  BY DEF References
<1>7. KeysAreSeparate' /\ KeyIsNotSent'
  <2>1. ASSUME NEW u \in PolicyWorkers, NEW v \in PolicyWorkers, pw'[u].at \in Registering,
               pw'[v].at \in Registering, pw'[u].key = pw'[v].key
        PROVE  u = v
    <3>1. (u # w => pw'[u] = pw[u]) /\ (v # w => pw'[v] = pw[v])
      BY DEF OthersKept
    <3> QED  BY <1>4, <2>1, <3>1 DEF Layer2, KeysAreSeparate
  <2>2. ASSUME NEW v \in PolicyWorkers, NEW m \in sent, pw'[v].at \in Registering
        PROVE  m.id # pw'[v].key
    <3>1. v # w => pw'[v] = pw[v]
      BY DEF OthersKept
    <3> QED  BY <1>4, <2>2, <3>1 DEF Layer2, KeyIsNotSent
  <2> QED  BY <2>1, <2>2 DEF KeysAreSeparate, KeyIsNotSent
<1>8. TableFollowsWorker'
  <2>1. FollowedBy(w)'
    <3>1. "reserve" # "cancel" /\ "reserve" \notin Sending
      BY DEF Sending
    <3> QED  BY <1>3, <1>5, <3>1 DEF FollowedBy
  <2>2. ASSUME NEW v \in PolicyWorkers, v # w PROVE FollowedBy(v)'
    <3>1. pw'[v] = pw[v]
      BY <2>2 DEF OthersKept
    <3> QED  BY <1>3, <1>4, <1>6, <3>1, FollowedKept
  <2> QED  BY <2>1, <2>2 DEF TableFollowsWorker, FollowedBy
<1>9. TableFollowsIo'
  <2>1. io.at = "table" => io.key \in DnsId /\ io.slot # NoOne
    BY SplitIoAssumption DEF References
  <2> QED  BY <1>3, <1>4, <2>1 DEF Layer2, TableFollowsIo, OthersKept
<1>10. PendingIsInTable'
  <2>1. PendingHas(k)'
    BY <1>5 DEF PendingHas
  <2>2. ASSUME NEW j \in DnsId, j # k PROVE PendingHas(j)'
    <3>1. "forward" # "cancel"
      OBVIOUS
    <3> QED  BY <1>3, <2>2, <3>1, PendingHasKept
  <2> QED  BY <2>1, <2>2 DEF PendingIsInTable, PendingHas
<1>11. NoTableLeak'
  <2>1. "reserve" \in LeakSources /\ "forward" \notin LeakSources
    BY DEF LeakSources
  <2>2. TableHas(k)'
    BY <2>1 DEF TableHas
  <2>3. ASSUME NEW j \in DnsId, j # k PROVE TableHas(j)'
    BY <1>3, <2>1, <2>3, TableHasKept
  <2> QED  BY <2>2, <2>3 DEF NoTableLeak, TableHas, LeakSources
<1> QED
  BY <1>7, <1>8, <1>9, <1>10, <1>11 DEF Layer2

\* A refused submit removes its id again.
LEMMA Layer2Refuse ==
    ASSUME TypeOK, References, Layer2, NEW w \in PolicyWorkers, pw[w].at \in {"refuse", "track"},
           OthersKept(w), pw'[w].at \notin Registering,
           table' = [table EXCEPT ![pw[w].key] = NoOne], UNCHANGED <<pending, io, sent>>
    PROVE  Layer2'
<1>1. pw[w].at \in Registering \ {"cancel"} /\ pw[w].at \notin Sending /\ pw[w].key \in DnsId
  BY DEF References, Registering, Sending
<1>2. table'[pw[w].key] = NoOne /\ \A j \in DnsId : j # pw[w].key => table'[j] = table[j]
  BY <1>1 DEF TypeOK
<1>3. pending[pw[w].key] = NoOne
  BY <1>1 DEF Layer2, TableFollowsWorker
<1>4. \A v \in PolicyWorkers : pw[v].at \in Registering => pw[v].key \in DnsId
  BY DEF References
<1>5. KeysAreSeparate' /\ KeyIsNotSent'
  BY DEF Layer2, KeysAreSeparate, KeyIsNotSent, OthersKept
<1>6. TableFollowsWorker'
  <2>1. FollowedBy(w)'
    BY FollowedIdle
  <2>2. ASSUME NEW v \in PolicyWorkers, v # w PROVE FollowedBy(v)'
    <3>1. pw'[v] = pw[v]
      BY <2>2 DEF OthersKept
    <3>2. pw[v].at \in Registering => pw[v].key \in DnsId /\ pw[v].key # pw[w].key
      BY <2>2, <1>1, <1>4 DEF Layer2, KeysAreSeparate
    <3> QED  BY <1>2, <3>1, <3>2, FollowedKept
  <2> QED  BY <2>1, <2>2 DEF TableFollowsWorker, FollowedBy
<1>7. TableFollowsIo'
  BY <1>1, <1>2 DEF Layer2, TableFollowsIo, OthersKept, References
<1>8. PendingIsInTable'
  <2>1. ASSUME NEW k \in DnsId, k = pw[w].key PROVE PendingHas(k)'
    BY <2>1, <1>3 DEF PendingHas
  <2>2. ASSUME NEW k \in DnsId, k # pw[w].key PROVE PendingHas(k)'
    BY <1>1, <1>2, <2>2, PendingHasKept
  <2> QED  BY <2>1, <2>2 DEF PendingIsInTable, PendingHas
<1>9. NoTableLeak'
  <2>1. ASSUME NEW k \in DnsId, k = pw[w].key PROVE TableHas(k)'
    BY <2>1, <1>2 DEF TableHas
  <2>2. ASSUME NEW k \in DnsId, k # pw[w].key PROVE TableHas(k)'
    BY <1>2, <2>2, TableHasKept
  <2> QED  BY <2>1, <2>2 DEF NoTableLeak, TableHas, LeakSources
<1> QED
  BY <1>5, <1>6, <1>7, <1>8, <1>9 DEF Layer2

\* track_pending: the entry takes over from the worker.
LEMMA Layer2Track ==
    ASSUME TypeOK, References, Layer2, NEW w \in PolicyWorkers, Step(w, "track", "send"),
           pending' = [pending EXCEPT ![pw[w].key] = pw[w].slot], UNCHANGED <<table, io, sent>>
    PROVE  Layer2'
<1>1. /\ OthersKept(w) /\ pw[w].at = "track" /\ pw'[w].at = "send"
      /\ pw'[w].slot = pw[w].slot /\ pw'[w].key = pw[w].key
  BY StepEffect, ConstantTypes
<1>2. pw[w].at \in Registering \ {"cancel"} /\ pw[w].at \notin Sending /\ pw[w].key \in DnsId
  BY <1>1 DEF References, Registering, Sending
<1>3. /\ pending'[pw[w].key] = pw[w].slot
      /\ \A j \in DnsId : j # pw[w].key => pending'[j] = pending[j]
  BY <1>2 DEF TypeOK
<1>4. table[pw[w].key] = pw[w].slot
  BY <1>2 DEF Layer2, TableFollowsWorker
<1>5. \A v \in PolicyWorkers : pw[v].at \in Registering => pw[v].key \in DnsId
  BY DEF References
<1>6. pw'[w].at \in Registering
  BY <1>1 DEF Registering
<1>7. KeysAreSeparate' /\ KeyIsNotSent'
  <2>1. ASSUME NEW u \in PolicyWorkers, NEW v \in PolicyWorkers, pw'[u].at \in Registering,
               pw'[v].at \in Registering, pw'[u].key = pw'[v].key
        PROVE  u = v
    <3>1. (u # w => pw'[u] = pw[u]) /\ (v # w => pw'[v] = pw[v])
      BY <1>1 DEF OthersKept
    <3> QED  BY <1>1, <1>2, <2>1, <3>1 DEF Layer2, KeysAreSeparate
  <2>2. ASSUME NEW v \in PolicyWorkers, NEW m \in sent, pw'[v].at \in Registering
        PROVE  m.id # pw'[v].key
    <3>1. v # w => pw'[v] = pw[v]
      BY <1>1 DEF OthersKept
    <3> QED  BY <1>1, <1>2, <2>2, <3>1 DEF Layer2, KeyIsNotSent
  <2> QED  BY <2>1, <2>2 DEF KeysAreSeparate, KeyIsNotSent
<1>8. TableFollowsWorker'
  <2>1. FollowedBy(w)'
    <3>1. "send" # "cancel" /\ "send" \in Sending
      BY DEF Sending
    <3> QED  BY <1>1, <1>3, <1>4, <3>1 DEF FollowedBy
  <2>2. ASSUME NEW v \in PolicyWorkers, v # w PROVE FollowedBy(v)'
    <3>1. pw'[v] = pw[v]
      BY <2>2, <1>1 DEF OthersKept
    <3>2. pw[v].at \in Registering => pw[v].key \in DnsId /\ pw[v].key # pw[w].key
      BY <2>2, <1>2, <1>5 DEF Layer2, KeysAreSeparate
    <3> QED  BY <1>3, <3>1, <3>2, FollowedKept
  <2> QED  BY <2>1, <2>2 DEF TableFollowsWorker, FollowedBy
<1>9. TableFollowsIo'
  <2>1. SUFFICES ASSUME io.at = "table"
                 PROVE  /\ table[io.key] = io.slot /\ pending'[io.key] = NoOne
                        /\ \A v \in PolicyWorkers : pw'[v].at \in Registering => pw'[v].key # io.key
    BY DEF TableFollowsIo
  <2>2. /\ io.key \in DnsId /\ table[io.key] = io.slot /\ pending[io.key] = NoOne
        /\ \A v \in PolicyWorkers : pw[v].at \in Registering => pw[v].key # io.key
    BY <2>1 DEF Layer2, TableFollowsIo, References
  <2>3. pending'[io.key] = NoOne
    BY <1>2, <1>3, <2>2
  <2>4. ASSUME NEW v \in PolicyWorkers, pw'[v].at \in Registering PROVE pw'[v].key # io.key
    <3>1. v # w => pw'[v] = pw[v]
      BY <1>1 DEF OthersKept
    <3> QED  BY <1>1, <1>2, <2>2, <2>4, <3>1
  <2> QED  BY <2>2, <2>3, <2>4
<1>10. PendingIsInTable'
  <2>1. ASSUME NEW k \in DnsId, k = pw[w].key PROVE PendingHas(k)'
    BY <2>1, <1>3, <1>4 DEF PendingHas
  <2>2. ASSUME NEW k \in DnsId, k # pw[w].key PROVE PendingHas(k)'
    BY <1>1, <1>3, <2>2, PendingHasKept
  <2> QED  BY <2>1, <2>2 DEF PendingIsInTable, PendingHas
<1>11. NoTableLeak'
  <2>1. ASSUME NEW k \in DnsId, k = pw[w].key PROVE TableHas(k)'
    BY <2>1, <1>3, <1>4 DEF TableHas
  <2>2. ASSUME NEW k \in DnsId, k # pw[w].key PROVE TableHas(k)'
    BY <1>1, <1>3, <2>2, TableHasKept
  <2> QED  BY <2>1, <2>2 DEF NoTableLeak, TableHas, LeakSources
<1> QED
  BY <1>7, <1>8, <1>9, <1>10, <1>11 DEF Layer2

\* send_to: from here on the upstream may answer.
LEMMA Layer2Send ==
    ASSUME TypeOK, References, Layer2, NEW w \in PolicyWorkers, NEW q, Step(w, "send", "park"),
           sent' = sent \cup {[id |-> pw[w].key, q |-> q]}, UNCHANGED <<table, pending, io>>
    PROVE  Layer2'
<1>1. OthersKept(w) /\ pw[w].at = "send" /\ pw'[w].at = "park"
  BY StepEffect, ConstantTypes
<1>2. pw[w].at \in Registering \ {"cancel"} /\ pw[w].at \in Sending /\ pw'[w].at \notin Registering
  BY <1>1 DEF Registering, Sending
<1>3. KeysAreSeparate'
  BY <1>1, <1>2 DEF Layer2, KeysAreSeparate, OthersKept
<1>4. KeyIsNotSent'
  <2>1. ASSUME NEW v \in PolicyWorkers, NEW m \in sent', pw'[v].at \in Registering
        PROVE  m.id # pw'[v].key
    <3>1. v # w /\ pw'[v] = pw[v]
      BY <1>1, <1>2, <2>1 DEF OthersKept
    <3>2. CASE m \in sent
      BY <2>1, <3>1, <3>2 DEF Layer2, KeyIsNotSent
    <3>3. CASE m = [id |-> pw[w].key, q |-> q]
      BY <1>2, <2>1, <3>1, <3>3 DEF Layer2, KeysAreSeparate
    <3> QED  BY <3>2, <3>3
  <2> QED  BY <2>1 DEF KeyIsNotSent
<1>5. TableFollowsWorker'
  BY <1>1, <1>2 DEF Layer2, TableFollowsWorker, OthersKept, Registering, Sending
<1>6. TableFollowsIo'
  BY <1>1, <1>2 DEF Layer2, TableFollowsIo, OthersKept
<1>7. PendingIsInTable'
  <2>1. ASSUME NEW k \in DnsId PROVE PendingHas(k)'
    BY <1>1, <1>2, PendingHasKept
  <2> QED  BY <2>1 DEF PendingIsInTable, PendingHas
<1>8. NoTableLeak'
  <2>1. "send" \notin LeakSources
    BY DEF LeakSources
  <2>2. ASSUME NEW k \in DnsId PROVE TableHas(k)'
    BY <1>1, <2>1, TableHasKept
  <2> QED  BY <2>2 DEF NoTableLeak, TableHas, LeakSources
<1> QED
  BY <1>3, <1>4, <1>5, <1>6, <1>7, <1>8 DEF Layer2

LEMMA Layer2Unregister ==
    ASSUME TypeOK, References, Layer2, NEW w \in PolicyWorkers, Unregister(w)
    PROVE  Layer2'
<1>1. /\ OthersKept(w) /\ pw[w].at = "unregister" /\ pw'[w].at = "cancel"
      /\ pw'[w].slot = pw[w].slot /\ pw'[w].key = pw[w].key
  BY StepEffect, ConstantTypes DEF Unregister
<1>2. /\ pw[w].at \in Registering /\ pw[w].at \in Sending /\ pw[w].key \in DnsId
      /\ pw'[w].at \in Registering /\ pw'[w].at \in Sending
  BY <1>1 DEF References, Registering, Sending
<1>3. UNCHANGED <<pending, io, sent>> /\ table' = [table EXCEPT ![pw[w].key] = NoOne]
  BY DEF Unregister
<1>4. table'[pw[w].key] = NoOne /\ \A j \in DnsId : j # pw[w].key => table'[j] = table[j]
  BY <1>2, <1>3 DEF TypeOK
<1>5. \A v \in PolicyWorkers : pw[v].at \in Registering => pw[v].key \in DnsId
  BY DEF References
<1>6. KeysAreSeparate' /\ KeyIsNotSent'
  <2>1. ASSUME NEW u \in PolicyWorkers, NEW v \in PolicyWorkers, pw'[u].at \in Registering,
               pw'[v].at \in Registering, pw'[u].key = pw'[v].key
        PROVE  u = v
    <3>1. (u # w => pw'[u] = pw[u]) /\ (v # w => pw'[v] = pw[v])
      BY <1>1 DEF OthersKept
    <3> QED  BY <1>1, <1>2, <2>1, <3>1 DEF Layer2, KeysAreSeparate
  <2>2. ASSUME NEW v \in PolicyWorkers, NEW m \in sent, pw'[v].at \in Registering
        PROVE  m.id # pw'[v].key
    <3>1. v # w => pw'[v] = pw[v]
      BY <1>1 DEF OthersKept
    <3> QED  BY <1>1, <1>2, <2>2, <3>1 DEF Layer2, KeyIsNotSent
  <2> QED  BY <1>3, <2>1, <2>2 DEF KeysAreSeparate, KeyIsNotSent
<1>7. TableFollowsWorker'
  <2>1. FollowedBy(w)'
    <3>1. pending[pw[w].key] = pw[w].slot
      BY <1>2 DEF Layer2, TableFollowsWorker
    <3> QED  BY <1>1, <1>2, <1>3, <1>4, <3>1 DEF FollowedBy
  <2>2. ASSUME NEW v \in PolicyWorkers, v # w PROVE FollowedBy(v)'
    <3>1. pw'[v] = pw[v]
      BY <2>2, <1>1 DEF OthersKept
    <3>2. pw[v].at \in Registering => pw[v].key \in DnsId /\ pw[v].key # pw[w].key
      BY <2>2, <1>2, <1>5 DEF Layer2, KeysAreSeparate
    <3> QED  BY <1>3, <1>4, <3>1, <3>2, FollowedKept
  <2> QED  BY <2>1, <2>2 DEF TableFollowsWorker, FollowedBy
<1>8. TableFollowsIo'
  BY <1>1, <1>2, <1>3, <1>4 DEF Layer2, TableFollowsIo, OthersKept, References
<1>9. PendingIsInTable'
  <2>1. ASSUME NEW k \in DnsId, k = pw[w].key PROVE PendingHas(k)'
    BY <2>1, <1>1 DEF PendingHas
  <2>2. ASSUME NEW k \in DnsId, k # pw[w].key PROVE PendingHas(k)'
    BY <1>1, <1>3, <1>4, <2>2, PendingHasKept
  <2> QED  BY <2>1, <2>2 DEF PendingIsInTable, PendingHas
<1>10. NoTableLeak'
  <2>1. ASSUME NEW k \in DnsId, k = pw[w].key PROVE TableHas(k)'
    BY <2>1, <1>4 DEF TableHas
  <2>2. ASSUME NEW k \in DnsId, k # pw[w].key PROVE TableHas(k)'
    BY <1>1, <1>3, <1>4, <2>2, TableHasKept
  <2> QED  BY <2>1, <2>2 DEF NoTableLeak, TableHas, LeakSources
<1> QED
  BY <1>6, <1>7, <1>8, <1>9, <1>10 DEF Layer2

LEMMA Layer2Cancel ==
    ASSUME TypeOK, References, Layer2, NEW w \in PolicyWorkers, pw[w].at = "cancel",
           OthersKept(w), pw'[w].at \notin Registering,
           pending' = [pending EXCEPT ![pw[w].key] = NoOne], UNCHANGED <<table, io, sent>>
    PROVE  Layer2'
<1>1. pw[w].at \in Registering /\ pw[w].at \in Sending /\ pw[w].key \in DnsId
  BY DEF References, Registering, Sending
<1>2. /\ pending'[pw[w].key] = NoOne
      /\ \A j \in DnsId : j # pw[w].key => pending'[j] = pending[j]
  BY <1>1 DEF TypeOK
<1>3. table[pw[w].key] = NoOne
  BY DEF Layer2, TableFollowsWorker
<1>4. \A v \in PolicyWorkers : pw[v].at \in Registering => pw[v].key \in DnsId
  BY DEF References
<1>5. KeysAreSeparate' /\ KeyIsNotSent'
  BY DEF Layer2, KeysAreSeparate, KeyIsNotSent, OthersKept
<1>6. TableFollowsWorker'
  <2>1. FollowedBy(w)'
    BY FollowedIdle
  <2>2. ASSUME NEW v \in PolicyWorkers, v # w PROVE FollowedBy(v)'
    <3>1. pw'[v] = pw[v]
      BY <2>2 DEF OthersKept
    <3>2. pw[v].at \in Registering => pw[v].key \in DnsId /\ pw[v].key # pw[w].key
      BY <2>2, <1>1, <1>4 DEF Layer2, KeysAreSeparate
    <3> QED  BY <1>2, <3>1, <3>2, FollowedKept
  <2> QED  BY <2>1, <2>2 DEF TableFollowsWorker, FollowedBy
<1>7. TableFollowsIo'
  BY <1>1, <1>2 DEF Layer2, TableFollowsIo, OthersKept, References
<1>8. PendingIsInTable'
  <2>1. ASSUME NEW k \in DnsId, k = pw[w].key PROVE PendingHas(k)'
    BY <2>1, <1>2 DEF PendingHas
  <2>2. ASSUME NEW k \in DnsId, k # pw[w].key PROVE PendingHas(k)'
    BY <1>2, <2>2, PendingHasKept
  <2> QED  BY <2>1, <2>2 DEF PendingIsInTable, PendingHas
<1>9. NoTableLeak'
  <2>1. ASSUME NEW k \in DnsId, k = pw[w].key PROVE TableHas(k)'
    BY <2>1, <1>3 DEF TableHas
  <2>2. ASSUME NEW k \in DnsId, k # pw[w].key PROVE TableHas(k)'
    BY <1>2, <2>2, TableHasKept
  <2> QED  BY <2>1, <2>2 DEF NoTableLeak, TableHas, LeakSources
<1> QED
  BY <1>5, <1>6, <1>7, <1>8, <1>9 DEF Layer2

(***************************************************************************)
(* A reply or a timeout never finds the entry of a submit that is still    *)
(* under way: the id has not been sent, or send_to has returned.           *)
(***************************************************************************)
LEMMA CompletionIsSafe ==
    ASSUME TypeOK, Layer2, NEW k \in DnsId, NEW done, IoComplete(k, done),
           SubmitWithinTimeout(k) \/ \E m \in sent : m.id = k
    PROVE  \A w \in PolicyWorkers : pw[w].at \in Registering => pw[w].key # k
<1>1. SUFFICES ASSUME NEW w \in PolicyWorkers, pw[w].at \in Registering, pw[w].key = k
               PROVE  FALSE
  OBVIOUS
<1>2. CASE pw[w].at \in Sending
  BY <1>1, <1>2 DEF SubmitWithinTimeout, Sending, Layer2, KeyIsNotSent
<1>3. CASE pw[w].at \notin Sending
  BY <1>1, <1>3 DEF Layer2, TableFollowsWorker, IoComplete
<1> QED
  BY <1>2, <1>3

LEMMA Layer2Complete ==
    ASSUME TypeOK, References, Layer2, NEW k \in DnsId, NEW done, IoComplete(k, done),
           SubmitWithinTimeout(k) \/ \E m \in sent : m.id = k
    PROVE  Layer2'
<1>1. \A w \in PolicyWorkers : pw[w].at \in Registering => pw[w].key # k
  BY CompletionIsSafe
<1>2. UNCHANGED <<pw, table, sent>> /\ pending[k] # NoOne
  BY DEF IoComplete, threadVars
<1>3. io'.at = "table" /\ io'.key = k /\ io'.slot = pending[k]
  BY DEF IoComplete
<1>4. pending'[k] = NoOne /\ \A j \in DnsId : j # k => pending'[j] = pending[j]
  BY DEF TypeOK, IoComplete
<1>5. table[k] = pending[k]
  BY <1>1, <1>2 DEF Layer2, PendingIsInTable, Registering
<1>6. \A v \in PolicyWorkers : pw[v].at \in Registering => pw[v].key \in DnsId
  BY DEF References
<1>7. KeysAreSeparate' /\ KeyIsNotSent'
  BY <1>2 DEF Layer2, KeysAreSeparate, KeyIsNotSent
<1>8. TableFollowsWorker'
  BY <1>1, <1>2, <1>4, <1>6 DEF Layer2, TableFollowsWorker, Sending, Registering
<1>9. TableFollowsIo'
  BY <1>1, <1>2, <1>3, <1>4, <1>5 DEF TableFollowsIo
<1>10. PendingIsInTable'
  BY <1>2, <1>4 DEF Layer2, PendingIsInTable
<1>11. NoTableLeak'
  <2>1. io.at = "idle"
    BY DEF IoComplete
  <2>2. TableHas(k)'
    BY <1>3 DEF TableHas
  <2>3. ASSUME NEW j \in DnsId, j # k PROVE TableHas(j)'
    <3>1. TableHas(j)
      BY Layer2Clauses DEF Layer2
    <3>2. io.at # "table"
      BY <2>1
    <3> QED  BY <1>2, <1>4, <2>3, <3>1, <3>2 DEF TableHas
  <2> QED  BY <2>2, <2>3 DEF NoTableLeak, TableHas, LeakSources
<1> QED
  BY <1>7, <1>8, <1>9, <1>10, <1>11 DEF Layer2

LEMMA Layer2TableRemove ==
    ASSUME TypeOK, References, Layer2, IoTableRemove
    PROVE  Layer2'
<1>1. UNCHANGED <<pw, pending, sent>> /\ io.at = "table" /\ io.key \in DnsId
  BY DEF IoTableRemove, threadVars, References
<1>2. io'.at = "resume"
  BY DEF IoTableRemove, TypeOK, IoRec
<1>3. table'[io.key] = NoOne /\ \A j \in DnsId : j # io.key => table'[j] = table[j]
  BY <1>1 DEF IoTableRemove, TypeOK
<1>4. pending[io.key] = NoOne /\ \A w \in PolicyWorkers : pw[w].at \in Registering => pw[w].key # io.key
  BY <1>1 DEF Layer2, TableFollowsIo
<1>5. \A v \in PolicyWorkers : pw[v].at \in Registering => pw[v].key \in DnsId
  BY DEF References
<1>6. KeysAreSeparate' /\ KeyIsNotSent'
  BY <1>1 DEF Layer2, KeysAreSeparate, KeyIsNotSent
<1>7. TableFollowsWorker'
  BY <1>1, <1>3, <1>4, <1>5 DEF Layer2, TableFollowsWorker, Sending, Registering
<1>8. TableFollowsIo'
  BY <1>2 DEF TableFollowsIo
<1>9. PendingIsInTable'
  BY <1>1, <1>3, <1>4 DEF Layer2, PendingIsInTable
<1>10. NoTableLeak'
  <2>1. ASSUME NEW k \in DnsId, k = io.key PROVE TableHas(k)'
    BY <2>1, <1>3 DEF TableHas
  <2>2. ASSUME NEW k \in DnsId, k # io.key PROVE TableHas(k)'
    <3>1. TableHas(k)
      BY Layer2Clauses DEF Layer2
    <3> QED  BY <1>1, <1>3, <2>2, <3>1 DEF TableHas
  <2> QED  BY <2>1, <2>2 DEF NoTableLeak, TableHas, LeakSources
<1> QED
  BY <1>6, <1>7, <1>8, <1>9, <1>10 DEF Layer2

(***************************************************************************)
(* Layer 2 is preserved.                                                   *)
(***************************************************************************)
\* A step of a worker that has no id registered, and takes none.
LEMMA Layer2Moves ==
    ASSUME Layer2, NEW w \in PolicyWorkers, OthersKept(w), UNCHANGED <<table, pending, io, sent>>,
           pw[w].at \notin Registering, pw'[w].at \notin Registering
    PROVE  Layer2'
  BY Layer2Quiet DEF OthersKept

LEMMA Layer2Step ==
    ASSUME TypeOK, References, Layer2, FreshIds, [Next]_vars
    PROVE  Layer2'
<1> USE DEF ioVars
<1>1. ASSUME NEW i \in Ingress, IngressPublish(i) PROVE Layer2'
  BY <1>1, Layer2Quiet DEF IngressPublish, threadVars
<1>2. ASSUME NEW i \in Ingress, IngressSetup(i) PROVE Layer2'
  BY <1>2, Layer2Quiet DEF IngressSetup, threadVars
<1>3. ASSUME NEW i \in Ingress, IngressRoute(i) PROVE Layer2'
  BY <1>3, Layer2Quiet DEF IngressRoute, threadVars
<1>4. ASSUME NEW i \in Ingress, IngressPush(i) PROVE Layer2'
  BY <1>4, Layer2Quiet DEF IngressPush, threadVars
<1>5. ASSUME NEW i \in Ingress, IngressAwait(i) PROVE Layer2'
  BY <1>5, Layer2Quiet DEF IngressAwait, threadVars
<1>6. ASSUME NEW i \in Ingress, NEW q \in Queries, IngressAcquire(i, q) PROVE Layer2'
  BY <1>6, Layer2Quiet DEF IngressAcquire, threadVars
<1>7. ASSUME NEW w \in PolicyWorkers, NEW s \in SlotId, Pop(w, s) PROVE Layer2'
  <2>1. OthersKept(w) /\ pw[w].at = "idle" /\ pw'[w].at \in {"New", "Resume"}
    BY <1>7, PopEffect
  <2> QED  BY <1>7, <2>1, Layer2Moves DEF Pop, Registering
<1>8. ASSUME NEW w \in PolicyWorkers, ProcessNew(w) PROVE Layer2'
  <2>1. UNCHANGED <<table, pending, io, sent>>
    BY <1>8 DEF ProcessNew
  <2>2. CASE Step(w, "New", "first")
    <3>1. OthersKept(w) /\ pw[w].at = "New" /\ pw'[w].at = "first"
      BY <2>2, StepEffect, ConstantTypes
    <3> QED  BY <2>1, <3>1, Layer2Moves DEF Registering
  <2>3. CASE Step(w, "New", "clear")
    <3>1. OthersKept(w) /\ pw[w].at = "New" /\ pw'[w].at = "clear"
      BY <2>3, StepEffect, ConstantTypes
    <3> QED  BY <2>1, <3>1, Layer2Moves DEF Registering
  <2> QED  BY <1>8, <2>2, <2>3 DEF ProcessNew
<1>9. ASSUME NEW w \in PolicyWorkers, ProcessResume(w) PROVE Layer2'
  <2>1. UNCHANGED <<table, pending, io, sent>>
    BY <1>9 DEF ProcessResume
  <2>2. CASE Step(w, "Resume", "again")
    <3>1. OthersKept(w) /\ pw[w].at = "Resume" /\ pw'[w].at = "again"
      BY <2>2, StepEffect, ConstantTypes
    <3> QED  BY <2>1, <3>1, Layer2Moves DEF Registering
  <2>3. CASE pw' = [pw EXCEPT ![w] = IdleWorker]
    <3>1. OthersKept(w) /\ pw'[w].at = "idle" /\ pw[w].at \notin Registering
      BY <1>9, <2>3, IdleEffect DEF ProcessResume, Registering
    <3> QED  BY <2>1, <3>1, Layer2Moves DEF Registering
  <2> QED  BY <1>9, <2>2, <2>3 DEF ProcessResume
<1>10. ASSUME NEW w \in PolicyWorkers, RunBegin(w) PROVE Layer2'
  <2>1. UNCHANGED <<table, pending, io, sent>>
    BY <1>10 DEF RunBegin
  <2>2. PICK to \in {"request", "response", "readpool"} : pw' = [pw EXCEPT ![w].at = to]
    BY <1>10 DEF RunBegin
  <2>3. OthersKept(w) /\ pw[w].at \notin Registering /\ pw'[w].at \notin Registering
    BY <1>10, <2>2 DEF RunBegin, TypeOK, WorkerRec, OthersKept, Registering
  <2> QED  BY <2>1, <2>3, Layer2Moves
<1>11. ASSUME NEW w \in PolicyWorkers, RunRequest(w) PROVE Layer2'
  <2>1. pw[w].slot \in SlotId
    BY <1>11 DEF RunRequest, References, Holding, Running, Registering
  <2>2. NoOne \in QueryOrNone /\ SendWire(w) \in QueryOrNone
    BY <2>1, SendWireType, ConstantTypes
  <2>3. ASSUME NEW out \in QueryOrNone, Finish(w, out)
        PROVE  OthersKept(w) /\ pw'[w].at \notin Registering
    <3>1. OthersKept(w) /\ pw'[w].at \in {"readpool", "deliver"}
      BY <2>1, <2>3, FinishEffect
    <3> QED  BY <3>1 DEF Registering
  <2>4. UNCHANGED <<table, pending, io, sent>> /\ pw[w].at \notin Registering
    BY <1>11 DEF RunRequest, Registering
  <2>5. CASE Step(w, "request", "forward")
    <3>1. OthersKept(w) /\ pw'[w].at = "forward"
      BY <2>5, StepEffect, ConstantTypes
    <3> QED  BY <2>4, <3>1, Layer2Moves DEF Registering
  <2>6. ASSUME NEW out \in QueryOrNone, Finish(w, out) PROVE Layer2'
    BY <2>3, <2>4, <2>6, Layer2Moves
  <2> QED  BY <1>11, <2>2, <2>5, <2>6 DEF RunRequest
<1>12. ASSUME NEW w \in PolicyWorkers, RunResponse(w) PROVE Layer2'
  <2>1. pw[w].slot \in SlotId
    BY <1>12 DEF RunResponse, References, Holding, Running, Registering
  <2>2. NoOne \in QueryOrNone /\ SendWire(w) \in QueryOrNone
    BY <2>1, SendWireType, ConstantTypes
  <2>3. ASSUME NEW out \in QueryOrNone, Finish(w, out)
        PROVE  OthersKept(w) /\ pw'[w].at \notin Registering
    <3>1. OthersKept(w) /\ pw'[w].at \in {"readpool", "deliver"}
      BY <2>1, <2>3, FinishEffect
    <3> QED  BY <3>1 DEF Registering
  <2>4. UNCHANGED <<table, pending, io, sent>> /\ pw[w].at \notin Registering
    BY <1>12 DEF RunResponse, Registering
  <2>5. CASE Step(w, "response", "forward")
    <3>1. OthersKept(w) /\ pw'[w].at = "forward"
      BY <2>5, StepEffect, ConstantTypes
    <3> QED  BY <2>4, <3>1, Layer2Moves DEF Registering
  <2>6. ASSUME NEW out \in QueryOrNone, Finish(w, out) PROVE Layer2'
    BY <2>3, <2>4, <2>6, Layer2Moves
  <2> QED  BY <1>12, <2>2, <2>5, <2>6 DEF RunResponse
<1>13. ASSUME NEW w \in PolicyWorkers, RegisterKey(w) PROVE Layer2'
  <2>1. pw[w].slot \in SlotId
    BY <1>13 DEF RegisterKey, References, Holding, Running, Registering
  <2>2. NoOne \in QueryOrNone /\ SendWire(w) \in QueryOrNone
    BY <2>1, SendWireType, ConstantTypes
  <2>3. ASSUME NEW out \in QueryOrNone, Finish(w, out)
        PROVE  OthersKept(w) /\ pw'[w].at \notin Registering
    <3>1. OthersKept(w) /\ pw'[w].at \in {"readpool", "deliver"}
      BY <2>1, <2>3, FinishEffect
    <3> QED  BY <3>1 DEF Registering
  <2>4. UNCHANGED <<pending, io, sent>> /\ pw[w].at = "forward" /\ pw[w].at \notin Registering
    BY <1>13 DEF RegisterKey, Registering
  <2>5. CASE Finish(w, SendWire(w)) /\ UNCHANGED table
    BY <2>2, <2>3, <2>4, <2>5, Layer2Moves
  <2>6. ASSUME NEW k \in DnsId, FreeId(k), table' = [table EXCEPT ![k] = pw[w].slot],
               pw' = [pw EXCEPT ![w].at = "reserve", ![w].key = k]
        PROVE  Layer2'
    <3>1. /\ OthersKept(w) /\ pw'[w].at = "reserve" /\ pw'[w].key = k
          /\ pw'[w].slot = pw[w].slot
      BY <2>6 DEF TypeOK, WorkerRec, OthersKept
    <3>2. table[k] = NoOne
      BY <2>6 DEF FreeId
    <3> QED  BY <2>4, <2>6, <3>1, <3>2, Layer2Register
  <2> QED  BY <1>13, <2>5, <2>6 DEF RegisterKey
<1>14. ASSUME NEW w \in PolicyWorkers, TryAcquire(w) PROVE Layer2'
  <2>1. UNCHANGED <<table, pending, io, sent>>
    BY <1>14 DEF TryAcquire
  <2>2. PICK to \in {"track", "refuse"} : Step(w, "reserve", to)
    BY <1>14 DEF TryAcquire
  <2>3. /\ OthersKept(w) /\ pw[w].at = "reserve" /\ pw'[w].at = to
        /\ pw'[w].slot = pw[w].slot /\ pw'[w].key = pw[w].key
    <3>1. to \in WorkerAt
      BY ConstantTypes
    <3> QED  BY <2>2, <3>1, StepEffect
  <2> QED  BY <2>1, <2>3, Layer2Quiet DEF OthersKept, Registering, Sending, LeakSources
<1>15. ASSUME NEW w \in PolicyWorkers, RefuseAtCap(w) PROVE Layer2'
  <2>1. pw[w].slot \in SlotId
    BY <1>15 DEF RefuseAtCap, References, Holding, Running, Registering
  <2>2. NoOne \in QueryOrNone /\ SendWire(w) \in QueryOrNone
    BY <2>1, SendWireType, ConstantTypes
  <2>3. ASSUME NEW out \in QueryOrNone, Finish(w, out)
        PROVE  OthersKept(w) /\ pw'[w].at \notin Registering
    <3>1. OthersKept(w) /\ pw'[w].at \in {"readpool", "deliver"}
      BY <2>1, <2>3, FinishEffect
    <3> QED  BY <3>1 DEF Registering
  <2> QED  BY <1>15, <2>2, <2>3, Layer2Refuse DEF RefuseAtCap
<1>16. ASSUME NEW w \in PolicyWorkers, TrackPending(w) PROVE Layer2'
  <2>1. pw[w].slot \in SlotId
    BY <1>16 DEF TrackPending, References, Holding, Running, Registering
  <2>2. NoOne \in QueryOrNone /\ SendWire(w) \in QueryOrNone
    BY <2>1, SendWireType, ConstantTypes
  <2>3. ASSUME NEW out \in QueryOrNone, Finish(w, out)
        PROVE  OthersKept(w) /\ pw'[w].at \notin Registering
    <3>1. OthersKept(w) /\ pw'[w].at \in {"readpool", "deliver"}
      BY <2>1, <2>3, FinishEffect
    <3> QED  BY <3>1 DEF Registering
  <2>4. UNCHANGED <<io, sent>> /\ pw[w].at \in {"refuse", "track"}
    BY <1>16 DEF TrackPending
  <2>5. CASE Step(w, "track", "send") /\ UNCHANGED table
             /\ pending' = [pending EXCEPT ![pw[w].key] = pw[w].slot]
    BY <2>4, <2>5, Layer2Track
  <2>6. CASE Finish(w, SendWire(w)) /\ UNCHANGED pending
             /\ table' = [table EXCEPT ![pw[w].key] = NoOne]
    BY <2>2, <2>3, <2>4, <2>6, Layer2Refuse
  <2> QED  BY <1>16, <2>5, <2>6 DEF TrackPending
<1>17. ASSUME NEW w \in PolicyWorkers, SendUpstream(w) PROVE Layer2'
  <2>1. UNCHANGED <<table, pending, io>>
    BY <1>17 DEF SendUpstream
  <2>2. CASE Step(w, "send", "unregister") /\ UNCHANGED sent
    <3>1. /\ OthersKept(w) /\ pw[w].at = "send" /\ pw'[w].at = "unregister"
          /\ pw'[w].slot = pw[w].slot /\ pw'[w].key = pw[w].key
      <4>1. "unregister" \in WorkerAt
        BY ConstantTypes
      <4> QED  BY <2>2, <4>1, StepEffect
    <3> QED  BY <2>1, <2>2, <3>1, Layer2Quiet DEF OthersKept, Registering, Sending, LeakSources
  <2>3. CASE Step(w, "send", "park") /\ sent' = sent \cup {[id |-> pw[w].key, q |-> Txn(w).q]}
    BY <2>1, <2>3, Layer2Send
  <2> QED  BY <1>17, <2>2, <2>3 DEF SendUpstream
<1>18. ASSUME NEW w \in PolicyWorkers, Unregister(w) PROVE Layer2'
  BY <1>18, Layer2Unregister
<1>19. ASSUME NEW w \in PolicyWorkers, CancelPending(w) PROVE Layer2'
  <2>1. pw[w].slot \in SlotId
    BY <1>19 DEF CancelPending, References, Holding, Running, Registering
  <2>2. NoOne \in QueryOrNone /\ SendWire(w) \in QueryOrNone
    BY <2>1, SendWireType, ConstantTypes
  <2>3. ASSUME NEW out \in QueryOrNone, Finish(w, out)
        PROVE  OthersKept(w) /\ pw'[w].at \notin Registering
    <3>1. OthersKept(w) /\ pw'[w].at \in {"readpool", "deliver"}
      BY <2>1, <2>3, FinishEffect
    <3> QED  BY <3>1 DEF Registering
  <2> QED  BY <1>19, <2>2, <2>3, Layer2Cancel DEF CancelPending
<1>20. ASSUME NEW w \in PolicyWorkers, Park(w) PROVE Layer2'
  <2>1. UNCHANGED <<table, pending, io, sent>>
    BY <1>20 DEF Park
  <2>2. CASE pw' = [pw EXCEPT ![w] = IdleWorker]
    <3>1. OthersKept(w) /\ pw'[w].at = "idle" /\ pw[w].at \notin Registering
      BY <1>20, <2>2, IdleEffect DEF Park, Registering
    <3> QED  BY <2>1, <3>1, Layer2Moves DEF Registering
  <2> QED  BY <1>20, <2>2 DEF Park
<1>21. ASSUME NEW w \in PolicyWorkers, DeliverReply(w) PROVE Layer2'
  <2>1. OthersKept(w) /\ pw[w].at = "deliver" /\ pw'[w].at = "readpool"
    BY <1>21, DeliverEffect
  <2> QED  BY <1>21, <2>1, Layer2Moves DEF DeliverReply, Registering
<1>22. ASSUME NEW w \in PolicyWorkers, ReadPool(w) PROVE Layer2'
  <2>1. UNCHANGED <<table, pending, io, sent>>
    BY <1>22 DEF ReadPool
  <2>2. PICK held \in BOOLEAN : pw' = [pw EXCEPT ![w].at = "clear", ![w].pool = held]
    BY <1>22 DEF ReadPool
  <2>3. OthersKept(w) /\ pw[w].at \notin Registering /\ pw'[w].at \notin Registering
    <3>1. OthersKept(w) /\ pw'[w].at = "clear"
      BY <2>2, ReadPoolEffect
    <3> QED  BY <1>22, <3>1 DEF ReadPool, Registering
  <2> QED  BY <2>1, <2>3, Layer2Moves
<1>23. ASSUME NEW w \in PolicyWorkers, ReleaseClear(w) PROVE Layer2'
  <2>1. UNCHANGED <<table, pending, io, sent>>
    BY <1>23 DEF ReleaseClear
  <2>2. PICK to \in {"return", "unreserve"} : pw' = [pw EXCEPT ![w].at = to]
    BY <1>23 DEF ReleaseClear
  <2>3. OthersKept(w) /\ pw[w].at \notin Registering /\ pw'[w].at \notin Registering
    <3>1. OthersKept(w) /\ pw'[w].at = to
      BY <2>2, MoveEffect
    <3> QED  BY <1>23, <3>1 DEF ReleaseClear, Registering
  <2> QED  BY <2>1, <2>3, Layer2Moves
<1>24. ASSUME NEW w \in PolicyWorkers, ReleaseReturn(w) PROVE Layer2'
  <2>1. UNCHANGED <<table, pending, io, sent>>
    BY <1>24 DEF ReleaseReturn
  <2>2. CASE Step(w, "return", "unreserve")
    <3>1. OthersKept(w) /\ pw[w].at = "return" /\ pw'[w].at = "unreserve"
      BY <2>2, StepEffect, ConstantTypes
    <3> QED  BY <2>1, <3>1, Layer2Moves DEF Registering
  <2> QED  BY <1>24, <2>2 DEF ReleaseReturn
<1>25. ASSUME NEW w \in PolicyWorkers, ReleasePool(w) PROVE Layer2'
  <2>1. UNCHANGED <<table, pending, io, sent>>
    BY <1>25 DEF ReleasePool
  <2>2. CASE pw' = [pw EXCEPT ![w] = IdleWorker]
    <3>1. OthersKept(w) /\ pw'[w].at = "idle" /\ pw[w].at \notin Registering
      BY <1>25, <2>2, IdleEffect DEF ReleasePool, Registering
    <3> QED  BY <2>1, <3>1, Layer2Moves DEF Registering
  <2> QED  BY <1>25, <2>2 DEF ReleasePool
<1>26. ASSUME NEW m \in sent, HandleReply(m) PROVE Layer2'
  <2>1. m.id \in DnsId
    BY DEF TypeOK
  <2> QED  BY <1>26, <2>1, Layer2Complete DEF HandleReply
<1>27. ASSUME NEW m \in sent, UpstreamDone(m) PROVE Layer2'
  BY <1>27, Layer2Quiet DEF UpstreamDone, threadVars
<1>28. ASSUME NEW k \in DnsId, PollTimeouts(k) PROVE Layer2'
  BY <1>28, Layer2Complete DEF PollTimeouts
<1>29. CASE IoTableRemove
  BY <1>29, Layer2TableRemove
<1>30. CASE IoSendResume
  <2>1. UNCHANGED <<pw, table, pending, sent>> /\ io.at = "resume" /\ io'.at = "idle"
    BY <1>30 DEF IoSendResume, threadVars, IdleIo
  <2>2. KeysAreSeparate' /\ KeyIsNotSent' /\ TableFollowsWorker' /\ PendingIsInTable'
    BY <2>1 DEF Layer2, KeysAreSeparate, KeyIsNotSent, TableFollowsWorker, PendingIsInTable
  <2>3. TableFollowsIo' /\ NoTableLeak'
    BY <2>1 DEF Layer2, TableFollowsIo, NoTableLeak
  <2> QED  BY <2>2, <2>3 DEF Layer2
<1>31. CASE ForwardResume
  BY <1>31, Layer2Quiet DEF ForwardResume, threadVars
<1>32. CASE Reload
  BY <1>32, Layer2Quiet DEF Reload, threadVars
<1>33. CASE UNCHANGED vars
  BY <1>33, Layer2Quiet DEF vars
<1> QED
  BY <1>1, <1>2, <1>3, <1>4, <1>5, <1>6, <1>7, <1>8, <1>9, <1>10, <1>11, <1>12,
     <1>13, <1>14, <1>15, <1>16, <1>17, <1>18, <1>19, <1>20, <1>21, <1>22,
     <1>23, <1>24, <1>25, <1>26, <1>27, <1>28, <1>29, <1>30, <1>31, <1>32, <1>33
     DEF Next, IngressStep, PolicyStep, IoStep

-----------------------------------------------------------------------------
(***************************************************************************)
(* Layer 3.  Nothing wakes a slot that has an owner, unless the owner is   *)
(* the worker that is about to park it.                                    *)
(***************************************************************************)
LEMMA OwnedIsNotWoken ==
    ASSUME References, Layer1, Layer3, NEW s \in SlotId,
           \/ \E i \in Ingress : ing[i].at \in IngressHolds /\ ing[i].slot = s
           \/ HasNew(s)
           \/ \E w \in PolicyWorkers : pw[w].at \in Holding \ Parking /\ pw[w].slot = s
    PROVE  ~Woken(s)
<1>1. Parking \subseteq Holding /\ Parking \subseteq Running
  BY DEF Parking, Sending, Holding, Running, Registering
<1>2. slotState[s] # "IoWait"
  <2>1. SUFFICES ASSUME slotState[s] = "IoWait" PROVE FALSE
    OBVIOUS
  <2> QED  BY <2>1, ParkedHasNoOwner
<1>3. ASSUME NEW v \in PolicyWorkers, pw[v].at \in Parking, pw[v].slot = s PROVE FALSE
  BY <1>1, <1>3 DEF Layer1, OneOwner
<1>4. ~MayBeWoken(s)
  BY <1>2, <1>3 DEF MayBeWoken
<1> QED
  BY <1>4 DEF Layer3, WokenIsParked

SameTokens ==
    /\ UNCHANGED <<pending, io, resumeCh, queue>>
    /\ \A v \in PolicyWorkers :
          /\ pw'[v].at = "Resume" <=> pw[v].at = "Resume"
          /\ pw[v].at = "Resume" => pw'[v].slot = pw[v].slot

SameWakes(s) ==
    /\ Pending(s)' <=> Pending(s)
    /\ Completing(s)' <=> Completing(s)
    /\ InChannel(s)' <=> InChannel(s)
    /\ Queued(s)' <=> Queued(s)
    /\ Popped(s)' <=> Popped(s)

LEMMA TokensStay ==
    ASSUME Layer3, SameTokens
    PROVE  /\ EachPlaceOnce' /\ OnePlace'
           /\ \A s \in SlotId : SameWakes(s) /\ (Woken(s)' <=> Woken(s))
<1>1. EachPlaceOnce'
  <2>1. UNCHANGED <<pending, resumeCh, queue>>
    BY DEF SameTokens
  <2>2. ASSUME NEW u \in PolicyWorkers, NEW v \in PolicyWorkers, pw'[u].at = "Resume",
               pw'[v].at = "Resume", pw'[u].slot = pw'[v].slot
        PROVE  u = v
    <3>1. /\ pw[u].at = "Resume" /\ pw'[u].slot = pw[u].slot
          /\ pw[v].at = "Resume" /\ pw'[v].slot = pw[v].slot
      BY <2>2 DEF SameTokens
    <3> QED  BY <2>2, <3>1 DEF Layer3, EachPlaceOnce
  <2> QED  BY <2>1, <2>2 DEF Layer3, EachPlaceOnce
<1>2. \A s \in SlotId : /\ Pending(s)' <=> Pending(s)
                        /\ Completing(s)' <=> Completing(s)
                        /\ InChannel(s)' <=> InChannel(s)
                        /\ Queued(s)' <=> Queued(s)
  BY DEF SameTokens, Pending, Completing, InChannel, Queued
<1>3. \A s \in SlotId : Popped(s)' <=> Popped(s)
  BY DEF SameTokens, Popped
<1>4. OnePlace'
  BY <1>2, <1>3 DEF Layer3, OnePlace, InOnePlace
<1>5. \A s \in SlotId : SameWakes(s) /\ (Woken(s)' <=> Woken(s))
  BY <1>2, <1>3 DEF Woken, SameWakes
<1> QED
  BY <1>1, <1>4, <1>5

\* A step on a slot that nothing wakes, and that is not parked by it.
LEMMA Layer3Elsewhere ==
    ASSUME Layer3, SameTokens, NEW t \in SlotId, ~Woken(t), slotState'[t] # "IoWait",
           \A s \in SlotId : s # t => slotState'[s] = slotState[s] /\ lock'[s] = lock[s],
           \A v \in PolicyWorkers :
              \/ pw'[v] = pw[v]
              \/ pw'[v].at # "park" /\ (pw[v].at \in Parking => pw[v].slot = t)
    PROVE  Layer3'
<1>1. /\ EachPlaceOnce' /\ OnePlace'
      /\ \A s \in SlotId : Woken(s)' <=> Woken(s)
  BY TokensStay
<1>2. WokenIsParked'
  <2>1. ASSUME NEW s \in SlotId, Woken(s), s # t PROVE MayBeWoken(s)'
    <3>1. CASE slotState[s] = "IoWait" /\ lock[s] = NoOne
      BY <2>1, <3>1 DEF MayBeWoken
    <3>2. ASSUME NEW v \in PolicyWorkers, pw[v].at \in Parking, pw[v].slot = s
          PROVE  MayBeWoken(s)'
      BY <2>1, <3>2 DEF MayBeWoken
    <3> QED  BY <2>1, <3>1, <3>2 DEF Layer3, WokenIsParked, MayBeWoken
  <2> QED  BY <1>1, <2>1 DEF WokenIsParked
<1>3. ParkedIsWoken'
  <2>1. ASSUME NEW s \in SlotId, slotState'[s] = "IoWait" PROVE Woken(s)'
    BY <1>1, <2>1 DEF Layer3, ParkedIsWoken
  <2>2. ASSUME NEW v \in PolicyWorkers, NEW s \in SlotId, pw'[v].at = "park", pw'[v].slot = s
        PROVE  Woken(s)'
    <3>1. pw[v].at = "park" /\ pw[v].slot = s
      BY <2>2
    <3> QED  BY <1>1, <3>1 DEF Layer3, ParkedIsWoken
  <2> QED  BY <2>1, <2>2 DEF ParkedIsWoken
<1> QED
  BY <1>1, <1>2, <1>3 DEF Layer3

\* A step that touches no slot and no token.
LEMMA Layer3Same ==
    ASSUME Layer3, SameTokens, UNCHANGED <<slotState, lock>>,
           \A v \in PolicyWorkers :
              pw'[v] = pw[v] \/ (pw[v].at \notin Parking /\ pw'[v].at # "park")
    PROVE  Layer3'
<1>1. /\ EachPlaceOnce' /\ OnePlace'
      /\ \A s \in SlotId : Woken(s)' <=> Woken(s)
  BY TokensStay
<1>2. WokenIsParked'
  <2>1. ASSUME NEW s \in SlotId, MayBeWoken(s) PROVE MayBeWoken(s)'
    BY <2>1 DEF MayBeWoken
  <2> QED  BY <1>1, <2>1 DEF Layer3, WokenIsParked
<1>3. ParkedIsWoken'
  <2>1. ASSUME NEW s \in SlotId, slotState'[s] = "IoWait" PROVE Woken(s)'
    BY <1>1, <2>1 DEF Layer3, ParkedIsWoken
  <2>2. ASSUME NEW v \in PolicyWorkers, NEW s \in SlotId, pw'[v].at = "park", pw'[v].slot = s
        PROVE  Woken(s)'
    <3>1. pw[v].at = "park" /\ pw[v].slot = s
      BY <2>2
    <3> QED  BY <1>1, <3>1 DEF Layer3, ParkedIsWoken
  <2> QED  BY <2>1, <2>2 DEF ParkedIsWoken
<1> QED
  BY <1>1, <1>2, <1>3 DEF Layer3


\* A step that moves, adds or takes the wake of slot t.
LEMMA Layer3Frame ==
    ASSUME Layer3, NEW t \in SlotId, EachPlaceOnce', InOnePlace(t)',
           \A s \in SlotId : s # t =>
              SameWakes(s) /\ slotState'[s] = slotState[s] /\ lock'[s] = lock[s],
           Woken(t)' => MayBeWoken(t)', slotState'[t] = "IoWait" => Woken(t)',
           \A v \in PolicyWorkers :
              \/ pw'[v] = pw[v]
              \/ /\ pw[v].at \in Parking => pw[v].slot = t
                 /\ pw'[v].at = "park" => pw'[v].slot = t,
           \A v \in PolicyWorkers : pw'[v].at = "park" /\ pw'[v].slot = t => Woken(t)'
    PROVE  Layer3'
<1>1. OnePlace'
  BY DEF OnePlace, InOnePlace, SameWakes, Layer3
<1>2. \A s \in SlotId : s # t => (Woken(s)' <=> Woken(s))
  BY DEF SameWakes, Woken
<1>3. WokenIsParked'
  <2>1. ASSUME NEW s \in SlotId, Woken(s), s # t PROVE MayBeWoken(s)'
    <3>1. CASE slotState[s] = "IoWait" /\ lock[s] = NoOne
      BY <2>1, <3>1 DEF MayBeWoken
    <3>2. ASSUME NEW v \in PolicyWorkers, pw[v].at \in Parking, pw[v].slot = s
          PROVE  MayBeWoken(s)'
      BY <2>1, <3>2 DEF MayBeWoken
    <3> QED  BY <2>1, <3>1, <3>2 DEF Layer3, WokenIsParked, MayBeWoken
  <2> QED  BY <1>2, <2>1 DEF WokenIsParked
<1>4. ParkedIsWoken'
  <2>1. ASSUME NEW s \in SlotId, slotState'[s] = "IoWait" PROVE Woken(s)'
    BY <1>2, <2>1 DEF Layer3, ParkedIsWoken
  <2>2. ASSUME NEW v \in PolicyWorkers, NEW s \in SlotId, pw'[v].at = "park", pw'[v].slot = s
        PROVE  Woken(s)'
    <3>1. CASE s = t
      BY <2>2, <3>1
    <3>2. CASE s # t
      <4>1. pw[v].at = "park" /\ pw[v].slot = s
        BY <2>2, <3>2
      <4> QED  BY <1>2, <3>2, <4>1 DEF Layer3, ParkedIsWoken
    <3> QED  BY <3>1, <3>2
  <2> QED  BY <2>1, <2>2 DEF ParkedIsWoken
<1> QED
  BY <1>1, <1>3, <1>4 DEF Layer3

\* A worker that does not take a resume leaves the popped ones apart.
LEMMA PoppedOnceKept ==
    ASSUME Layer3, NEW w \in PolicyWorkers, OthersKept(w), pw'[w].at # "Resume"
    PROVE  \A u, v \in PolicyWorkers :
              pw'[u].at = "Resume" /\ pw'[v].at = "Resume" /\ pw'[u].slot = pw'[v].slot => u = v
<1>1. ASSUME NEW u \in PolicyWorkers, NEW v \in PolicyWorkers, pw'[u].at = "Resume",
             pw'[v].at = "Resume", pw'[u].slot = pw'[v].slot
      PROVE  u = v
  <2>1. pw'[u] = pw[u] /\ pw'[v] = pw[v]
    BY <1>1 DEF OthersKept
  <2> QED  BY <1>1, <2>1 DEF Layer3, EachPlaceOnce
<1> QED
  BY <1>1

\* The same for the pending entries, when one is removed or a new slot gets one.
LEMMA PendingOnceKept ==
    ASSUME Layer3, NEW k \in DnsId, \A j \in DnsId : j # k => pending'[j] = pending[j],
           \/ pending'[k] = NoOne
           \/ \A j \in DnsId : pending[j] # pending'[k]
    PROVE  \A i, j \in DnsId : pending'[i] = pending'[j] /\ pending'[i] # NoOne => i = j
<1>1. ASSUME NEW i \in DnsId, NEW j \in DnsId, pending'[i] = pending'[j], pending'[i] # NoOne
      PROVE  i = j
  <2>1. CASE i = k \/ j = k
    BY <1>1, <2>1
  <2>2. CASE i # k /\ j # k
    <3>1. pending'[i] = pending[i] /\ pending'[j] = pending[j]
      BY <2>2
    <3> QED  BY <1>1, <3>1 DEF Layer3, EachPlaceOnce
  <2> QED  BY <2>1, <2>2
<1> QED
  BY <1>1

LEMMA ElementOfSeq ==
    ASSUME NEW S, NEW f \in Seq(S), NEW n \in 1 .. Len(f)
    PROVE  f[n] \in S
  BY SMT

\* The positions of a sequence after an element is appended, and after its head is taken.
LEMMA PositionsPlus ==
    ASSUME NEW m \in Nat
    PROVE  /\ \A n \in 1 .. (m + 1) : n \in 1 .. m \/ n = m + 1
           /\ \A n \in 1 .. m : n \in 1 .. (m + 1)
           /\ m + 1 \in 1 .. (m + 1)
  BY SMT

LEMMA PositionsMinus ==
    ASSUME NEW m \in Nat \ {0}
    PROVE  /\ 1 \in 1 .. m
           /\ \A n \in 1 .. m : n = 1 \/ (n - 1 \in 1 .. (m - 1) /\ (n - 1) + 1 = n)
           /\ \A n \in 1 .. (m - 1) : n + 1 \in 1 .. m /\ n + 1 # 1
           /\ \A i, j \in 1 .. (m - 1) : i + 1 = j + 1 => i = j
  BY SMT

\* Small facts about positions in a sequence.
LEMMA Positions ==
    /\ 1 .. 0 = {}
    /\ 1 .. 1 = {1}
    /\ 0 + 1 = 1 /\ 1 <= 1 /\ 0 <= 1
    /\ \A n \in Nat : n # 0 => 1 \in 1 .. n
<1>1. 1 .. 0 = {} /\ 1 .. 1 = {1}
  BY SMT
<1>2. 0 + 1 = 1 /\ 1 <= 1 /\ 0 <= 1
  BY SMT
<1>3. \A n \in Nat : n # 0 => 1 \in 1 .. n
  BY SMT
<1> QED
  BY <1>1, <1>2, <1>3

\* IngressPush: the slot of a New item is not woken by anything.
LEMMA Layer3Push ==
    ASSUME TypeOK, References, Layer1, Layer3, NEW i \in Ingress, IngressPush(i)
    PROVE  Layer3'
<1>1. /\ ing[i].at \in IngressHolds /\ ing[i].slot \in SlotId /\ New \in Item
      /\ queue' = [queue EXCEPT ![ing[i].slot] = Append(@, New)]
  BY ConstantTypes DEF IngressPush, IngressHolds, References
<1>2. PICK t \in SlotId : t = ing[i].slot
  BY <1>1
<1>3. ~Woken(t) /\ ~HasNew(t)
  BY <1>1, <1>2, OwnedIsNotWoken DEF Layer1, OneOwner
<1>4. /\ \A s \in SlotId : s # t => queue'[s] = queue[s]
      /\ Len(queue[t]) \in Nat /\ Len(queue'[t]) = Len(queue[t]) + 1
      /\ queue'[t][Len(queue[t]) + 1] = New
      /\ \A n \in 1 .. Len(queue[t]) : queue'[t][n] = queue[t][n]
  BY <1>1, <1>2, PushItem
<1>5. Len(queue[t]) = 0
  <2>1. SUFFICES ASSUME Len(queue[t]) # 0 PROVE FALSE
    OBVIOUS
  <2>2. 1 \in 1 .. Len(queue[t]) /\ queue[t][1] \in Item
    <3>1. 1 \in 1 .. Len(queue[t])
      BY <1>4, <2>1, Positions
    <3>2. queue[t] \in Seq(Item)
      BY DEF TypeOK
    <3>3. queue[t][1] \in Item
      BY <3>1, <3>2, ElementOfSeq
    <3> QED  BY <3>1, <3>3
  <2> QED  BY <1>3, <2>2 DEF Woken, Queued, HasNew, Item
<1>6. UNCHANGED <<pending, io, resumeCh, pw, slotState, lock>>
  BY DEF IngressPush, ioVars, storeVars
<1>7. EachPlaceOnce'
  <2>1. \A s \in SlotId : Len(queue[s]) <= 1
    BY DEF Layer3, EachPlaceOnce
  <2>2. Len(queue'[t]) = 1
    BY <1>4, <1>5, Positions
  <2>3. \A s \in SlotId : Len(queue'[s]) <= 1
    BY <1>4, <2>1, <2>2, Positions
  <2> QED  BY <1>6, <2>3 DEF Layer3, EachPlaceOnce
<1>8. \A s \in SlotId : SameWakes(s)
  <2>1. ~Queued(t)' /\ ~Queued(t)
    <3>1. Len(queue'[t]) = 1 /\ queue'[t][1] = New
      BY <1>4, <1>5, Positions
    <3>2. New.kind # "Resume"
      BY DEF New
    <3>3. ~Queued(t)'
      BY <3>1, <3>2, Positions DEF Queued
    <3> QED  BY <1>3, <3>3 DEF Woken
  <2>2. \A s \in SlotId : Queued(s)' <=> Queued(s)
    BY <1>4, <2>1 DEF Queued
  <2> QED  BY <1>6, <2>2 DEF SameWakes, Pending, Completing, InChannel, Popped
<1>9. InOnePlace(t)' /\ ~Woken(t)'
  BY <1>3, <1>8 DEF SameWakes, InOnePlace, Woken
<1>10. slotState'[t] # "IoWait"
  BY <1>3, <1>6 DEF Layer3, ParkedIsWoken
<1>11. \A v \in PolicyWorkers : ~(pw[v].at = "park" /\ pw[v].slot = t)
  BY <1>3 DEF Layer3, ParkedIsWoken
<1> QED
  BY <1>6, <1>7, <1>8, <1>9, <1>10, <1>11, Layer3Frame


\* Pop: the wake, if the item is one, moves from the queue to the worker.
LEMMA Layer3Pop ==
    ASSUME TypeOK, References, Layer3, NEW w \in PolicyWorkers, NEW t \in SlotId, Pop(w, t)
    PROVE  Layer3'
<1>1. /\ OthersKept(w) /\ pw[w].at = "idle" /\ queue[t] # << >>
      /\ pw'[w].at = Head(queue[t]).kind /\ pw'[w].slot = t
      /\ Head(queue[t]).kind \in {"New", "Resume"}
  BY PopEffect
<1>2. UNCHANGED <<pending, io, resumeCh, slotState, lock>> /\ queue' = [queue EXCEPT ![t] = Tail(@)]
  BY DEF Pop, ioVars, storeVars
<1>3. /\ \A s \in SlotId : s # t => queue'[s] = queue[s]
      /\ Len(queue[t]) \in Nat \ {0} /\ Len(queue'[t]) = Len(queue[t]) - 1
      /\ Head(queue[t]) = queue[t][1]
  BY <1>1, <1>2, PopItem
<1>4. Len(queue[t]) = 1 /\ Len(queue'[t]) = 0
  <2>1. Len(queue[t]) <= 1
    BY DEF Layer3, EachPlaceOnce
  <2>2. \A n \in Nat \ {0} : n <= 1 => n = 1 /\ n - 1 = 0
    BY SMT
  <2>3. Len(queue[t]) \in Nat \ {0} /\ Len(queue'[t]) = Len(queue[t]) - 1
    BY <1>3
  <2> QED  BY <2>1, <2>2, <2>3
<1>5. Queued(t) <=> Head(queue[t]).kind = "Resume"
  BY <1>3, <1>4, Positions DEF Queued
<1>6. ~Queued(t)'
  BY <1>4, Positions DEF Queued
<1>7. \A s \in SlotId : s # t => SameWakes(s)
  <2>1. ASSUME NEW s \in SlotId, s # t PROVE SameWakes(s)
    <3>1. queue'[s] = queue[s]
      BY <1>3, <2>1
    <3>2. ASSUME NEW v \in PolicyWorkers
          PROVE  pw'[v].at = "Resume" /\ pw'[v].slot = s <=> pw[v].at = "Resume" /\ pw[v].slot = s
      <4>1. CASE v = w
        BY <1>1, <2>1, <4>1
      <4>2. CASE v # w
        BY <1>1, <4>2 DEF OthersKept
      <4> QED  BY <4>1, <4>2
    <3>3. Popped(s)' <=> Popped(s)
      BY <3>2 DEF Popped
    <3>4. /\ Pending(s)' <=> Pending(s)
          /\ Completing(s)' <=> Completing(s)
          /\ InChannel(s)' <=> InChannel(s)
          /\ Queued(s)' <=> Queued(s)
      BY <1>2, <3>1 DEF Pending, Completing, InChannel, Queued
    <3> QED  BY <3>3, <3>4 DEF SameWakes
  <2> QED  BY <2>1
<1>8. /\ Pending(t)' <=> Pending(t)
      /\ Completing(t)' <=> Completing(t)
      /\ InChannel(t)' <=> InChannel(t)
  BY <1>2 DEF Pending, Completing, InChannel
<1>9. Popped(t)' <=> Popped(t) \/ Queued(t)
  BY <1>1, <1>5 DEF Popped, OthersKept
<1>10. InOnePlace(t)
  BY DEF Layer3, OnePlace
<1>11. InOnePlace(t)' /\ (Woken(t)' <=> Woken(t))
  BY <1>6, <1>8, <1>9, <1>10 DEF InOnePlace, Woken
<1>12. EachPlaceOnce'
  <2>1. \A s \in SlotId : Len(queue'[s]) <= 1
    <3>1. \A s \in SlotId : Len(queue[s]) <= 1
      BY DEF Layer3, EachPlaceOnce
    <3> QED  BY <1>3, <1>4, <3>1, Positions
  <2>2. \A u, v \in PolicyWorkers :
          pw'[u].at = "Resume" /\ pw'[v].at = "Resume" /\ pw'[u].slot = pw'[v].slot => u = v
    <3>1. ASSUME pw'[w].at = "Resume", NEW v \in PolicyWorkers, v # w, pw'[v].at = "Resume"
          PROVE  pw'[v].slot # t
      <4>1. ~Popped(t)
        BY <1>1, <1>5, <1>10, <3>1 DEF InOnePlace
      <4>2. pw'[v] = pw[v]
        BY <1>1, <3>1 DEF OthersKept
      <4> QED  BY <3>1, <4>1, <4>2 DEF Popped
    <3>2. ASSUME NEW u \in PolicyWorkers, NEW v \in PolicyWorkers, u # w, v # w,
                 pw'[u].at = "Resume", pw'[v].at = "Resume", pw'[u].slot = pw'[v].slot
          PROVE  u = v
      <4>1. pw'[u] = pw[u] /\ pw'[v] = pw[v]
        BY <1>1, <3>2 DEF OthersKept
      <4> QED  BY <3>2, <4>1 DEF Layer3, EachPlaceOnce
    <3> QED  BY <1>1, <3>1, <3>2
  <2> QED  BY <1>2, <2>1, <2>2 DEF Layer3, EachPlaceOnce
<1>13. pw[w].at \notin Parking /\ pw'[w].at # "park"
  BY <1>1 DEF Parking, Sending
<1>14. MayBeWoken(t) => MayBeWoken(t)'
  BY <1>1, <1>2, <1>13 DEF MayBeWoken, OthersKept
<1>15. Woken(t)' => MayBeWoken(t)'
  BY <1>11, <1>14 DEF Layer3, WokenIsParked
<1>16. /\ slotState'[t] = "IoWait" => Woken(t)'
       /\ \A v \in PolicyWorkers : pw'[v].at = "park" /\ pw'[v].slot = t => Woken(t)'
  BY <1>1, <1>2, <1>11, <1>13 DEF Layer3, ParkedIsWoken, OthersKept
<1>17. \A v \in PolicyWorkers :
          pw'[v] = pw[v] \/ (pw[v].at \notin Parking /\ pw'[v].at # "park")
  BY <1>1, <1>13 DEF OthersKept
<1> QED
  BY <1>2, <1>7, <1>11, <1>12, <1>15, <1>16, <1>17, Layer3Frame

(***************************************************************************)
(* ProcessResume: the resume a worker has popped is the slot's only wake   *)
(* and finds the slot parked, so none is ever dropped.                     *)
(***************************************************************************)
LEMMA ResumeFindsParked ==
    ASSUME TypeOK, References, Layer1, Layer3, NEW w \in PolicyWorkers,
           pw[w].at = "Resume", Unlocked(w)
    PROVE  pw[w].slot \in SlotId /\ slotState[pw[w].slot] = "IoWait"
<1>1. PICK t \in SlotId : t = pw[w].slot
  BY DEF References
<1>2. MayBeWoken(t)
  BY <1>1 DEF Layer3, WokenIsParked, Woken, Popped
<1>3. ASSUME NEW v \in PolicyWorkers, pw[v].at \in Parking, pw[v].slot = t PROVE FALSE
  <2>1. pw[v].at \in Running
    BY <1>3 DEF Parking, Sending, Running, Registering
  <2>2. lock[t] = v
    BY <1>3, <2>1 DEF Layer1, LockIsTheRunners
  <2> QED  BY <1>1, <2>2, SplitIoAssumption DEF Unlocked
<1> QED
  BY <1>1, <1>2, <1>3 DEF MayBeWoken

LEMMA Layer3Resume ==
    ASSUME TypeOK, References, Layer1, Layer3, NEW w \in PolicyWorkers, ProcessResume(w)
    PROVE  Layer3'
<1>1. PICK t \in SlotId : t = pw[w].slot
  BY DEF References, ProcessResume
<1>2. slotState[t] = "IoWait" /\ pw[w].at = "Resume"
  BY <1>1, ResumeFindsParked DEF ProcessResume
<1>3. /\ slotState' = [slotState EXCEPT ![t] = "Policy"] /\ Step(w, "Resume", "again")
      /\ UNCHANGED <<pending, io, resumeCh, queue, lock>>
  BY <1>1, <1>2 DEF ProcessResume, SetState, ioVars
<1>4. OthersKept(w) /\ pw'[w].at = "again"
  BY <1>3, StepEffect, ConstantTypes
<1>5. slotState'[t] # "IoWait" /\ \A s \in SlotId : s # t => slotState'[s] = slotState[s]
  BY <1>3 DEF TypeOK, StoreTypeOK
<1>6. \A s \in SlotId : s # t => SameWakes(s)
  BY <1>1, <1>2, <1>3, <1>4
     DEF SameWakes, Pending, Completing, InChannel, Queued, Popped, OthersKept
<1>7. InOnePlace(t) /\ Popped(t)
  BY <1>1, <1>2 DEF Layer3, OnePlace, Popped
<1>8. ~Popped(t)'
  BY <1>1, <1>2, <1>4 DEF Layer3, EachPlaceOnce, Popped, OthersKept
<1>9. ~Pending(t)' /\ ~Completing(t)' /\ ~InChannel(t)' /\ ~Queued(t)'
  BY <1>3, <1>7 DEF InOnePlace, Pending, Completing, InChannel, Queued
<1>10. ~Woken(t)' /\ InOnePlace(t)'
  BY <1>8, <1>9 DEF Woken, InOnePlace
<1>11. EachPlaceOnce'
  <2>1. \A u, v \in PolicyWorkers :
          pw'[u].at = "Resume" /\ pw'[v].at = "Resume" /\ pw'[u].slot = pw'[v].slot => u = v
    BY <1>4, PoppedOnceKept
  <2> QED  BY <1>3, <2>1 DEF Layer3, EachPlaceOnce
<1>12. pw[w].at \notin Parking
  BY <1>2 DEF Parking, Sending
<1>13. \A v \in PolicyWorkers : ~(pw'[v].at = "park" /\ pw'[v].slot = t)
  <2>1. \A v \in PolicyWorkers : pw[v].at = "park" => pw[v].slot # t
    BY <1>2, ParkedHasNoOwner DEF Holding, Running
  <2> QED  BY <1>4, <2>1 DEF OthersKept
<1>14. \A v \in PolicyWorkers :
          pw'[v] = pw[v] \/ (pw[v].at \notin Parking /\ pw'[v].at # "park")
  BY <1>4, <1>12 DEF OthersKept
<1> QED
  BY <1>3, <1>5, <1>6, <1>10, <1>11, <1>13, <1>14, Layer3Frame


LEMMA NoOneIsNoSlot == NoOne \notin SlotId
  BY SplitIoAssumption

\* track_pending: the entry is the slot's only wake.
LEMMA Layer3Track ==
    ASSUME TypeOK, References, Layer1, Layer2, Layer3, NEW w \in PolicyWorkers, Step(w, "track", "send"),
           pending' = [pending EXCEPT ![pw[w].key] = pw[w].slot],
           UNCHANGED <<io, resumeCh, queue, slotState, lock>>
    PROVE  Layer3'
<1>1. /\ OthersKept(w) /\ pw[w].at = "track" /\ pw'[w].at = "send"
      /\ pw'[w].slot = pw[w].slot
  BY StepEffect, ConstantTypes
<1>2. pw[w].key \in DnsId /\ pw[w].slot \in SlotId /\ pw[w].at \in Holding \ Parking
  BY <1>1 DEF References, Holding, Running, Registering, Parking, Sending
<1>3. PICK t \in SlotId : t = pw[w].slot
  BY <1>2
<1>4. ~Woken(t)
  BY <1>2, <1>3, OwnedIsNotWoken
<1>5. PICK k \in DnsId : k = pw[w].key
  BY <1>2
<1>6. pending'[k] = t /\ \A j \in DnsId : j # k => pending'[j] = pending[j]
  BY <1>3, <1>5 DEF TypeOK
<1>7. \A s \in SlotId : s # t => SameWakes(s)
  <2>1. pending[k] = NoOne
    BY <1>1, <1>5 DEF Layer2, TableFollowsWorker, Registering, Sending
  <2>2. \A s \in SlotId : s # t => (Pending(s)' <=> Pending(s))
    BY <1>6, <2>1, NoOneIsNoSlot DEF Pending
  <2> QED  BY <1>1, <2>2 DEF SameWakes, Completing, InChannel, Queued, Popped, OthersKept
<1>8. ~Completing(t)' /\ ~InChannel(t)' /\ ~Queued(t)' /\ ~Popped(t)'
  BY <1>1, <1>4 DEF Woken, Completing, InChannel, Queued, Popped, OthersKept
<1>9. InOnePlace(t)' /\ Woken(t)'
  BY <1>6, <1>8 DEF InOnePlace, Woken, Pending
<1>10. EachPlaceOnce'
  <2>1. \A j \in DnsId : pending[j] # t
    BY <1>4 DEF Woken, Pending
  <2>2. \A i, j \in DnsId : pending'[i] = pending'[j] /\ pending'[i] # NoOne => i = j
    BY <1>6, <2>1, PendingOnceKept
  <2>3. \A u, v \in PolicyWorkers :
          pw'[u].at = "Resume" /\ pw'[v].at = "Resume" /\ pw'[u].slot = pw'[v].slot => u = v
    BY <1>1, PoppedOnceKept
  <2> QED  BY <2>2, <2>3 DEF Layer3, EachPlaceOnce
<1>11. MayBeWoken(t)'
  BY <1>1, <1>3 DEF MayBeWoken, Parking, Sending
<1>12. \A v \in PolicyWorkers :
          pw'[v] = pw[v] \/ (pw[v].at \notin Parking /\ pw'[v].at # "park")
  BY <1>1, <1>2 DEF OthersKept
<1> QED
  BY <1>7, <1>9, <1>10, <1>11, <1>12, Layer3Frame

\* cancel_pending takes the only wake of a slot that goes on to its reply.
LEMMA Layer3Cancel ==
    ASSUME TypeOK, References, Layer1, Layer2, Layer3, NEW w \in PolicyWorkers,
           pw[w].at = "cancel", OthersKept(w), pw'[w].at \in {"readpool", "deliver"},
           pending' = [pending EXCEPT ![pw[w].key] = NoOne],
           \A s \in SlotId : s # pw[w].slot => lock'[s] = lock[s],
           UNCHANGED <<io, resumeCh, queue, slotState>>
    PROVE  Layer3'
<1>1. pw[w].key \in DnsId /\ pw[w].slot \in SlotId /\ pw[w].at \in Holding
  BY DEF References, Holding, Running, Registering
<1>2. PICK t \in SlotId : t = pw[w].slot
  BY <1>1
<1>3. PICK k \in DnsId : k = pw[w].key
  BY <1>1
<1>4. pending[k] = t
  BY <1>2, <1>3 DEF Layer2, TableFollowsWorker, Sending
<1>5. pending'[k] = NoOne /\ \A j \in DnsId : j # k => pending'[j] = pending[j]
  BY <1>3 DEF TypeOK
<1>6. \A v \in PolicyWorkers : pw'[v].at = "Resume" <=> pw[v].at = "Resume"
  BY DEF OthersKept
<1>7. \A s \in SlotId : s # t => SameWakes(s)
  <2>1. \A s \in SlotId : s # t => (Pending(s)' <=> Pending(s))
    BY <1>4, <1>5, NoOneIsNoSlot DEF Pending
  <2> QED  BY <1>6, <2>1 DEF SameWakes, Completing, InChannel, Queued, Popped, OthersKept
<1>8. ~Pending(t)'
  <2>1. ASSUME NEW j \in DnsId, pending'[j] = t PROVE FALSE
    <3>1. j # k
      BY <1>5, <2>1, NoOneIsNoSlot
    <3>2. pending[j] = t
      BY <1>5, <2>1, <3>1
    <3> QED  BY <1>4, <3>1, <3>2, NoOneIsNoSlot DEF Layer3, EachPlaceOnce
  <2> QED  BY <2>1 DEF Pending
<1>9. ~Completing(t)' /\ ~InChannel(t)' /\ ~Queued(t)' /\ ~Popped(t)'
  <2>1. Pending(t) /\ InOnePlace(t)
    BY <1>4 DEF Pending, Layer3, OnePlace
  <2> QED  BY <1>6, <2>1 DEF InOnePlace, Completing, InChannel, Queued, Popped, OthersKept
<1>10. InOnePlace(t)' /\ ~Woken(t)'
  BY <1>8, <1>9 DEF InOnePlace, Woken
<1>11. EachPlaceOnce'
  <2>1. \A i, j \in DnsId : pending'[i] = pending'[j] /\ pending'[i] # NoOne => i = j
    BY <1>5, PendingOnceKept
  <2>2. \A u, v \in PolicyWorkers :
          pw'[u].at = "Resume" /\ pw'[v].at = "Resume" /\ pw'[u].slot = pw'[v].slot => u = v
    BY PoppedOnceKept
  <2> QED  BY <2>1, <2>2 DEF Layer3, EachPlaceOnce
<1>12. slotState[t] # "IoWait"
  BY <1>2 DEF Layer1, StateIsTheOwners, Holding, Running, Registering
<1>13. \A v \in PolicyWorkers : ~(pw'[v].at = "park" /\ pw'[v].slot = t)
  <2>1. ASSUME NEW v \in PolicyWorkers, pw'[v].at = "park", pw'[v].slot = t PROVE FALSE
    <3>1. v # w
      BY <2>1
    <3>2. pw[v].at = "park" /\ pw[v].slot = t
      BY <2>1, <3>1 DEF OthersKept
    <3>3. "park" \in Holding
      BY DEF Holding, Running
    <3> QED  BY <1>1, <1>2, <3>1, <3>2, <3>3 DEF Layer1, OneOwner
  <2> QED  BY <2>1
<1>14. \A v \in PolicyWorkers :
          pw'[v] = pw[v] \/ (pw[v].slot = t /\ pw'[v].at # "park")
  BY <1>2 DEF OthersKept
<1> QED
  BY <1>2, <1>7, <1>10, <1>11, <1>12, <1>13, <1>14, Layer3Frame

\* Park: the slot is woken by what could already wake it under the mutex.
LEMMA Layer3Park ==
    ASSUME TypeOK, References, Layer1, Layer3, NEW w \in PolicyWorkers, Park(w)
    PROVE  Layer3'
<1>1. pw[w].at = "park" /\ pw[w].slot \in SlotId /\ pw[w].at \in Holding
  BY DEF Park, References, Holding, Running
<1>2. PICK t \in SlotId : t = pw[w].slot
  BY <1>1
<1>3. OthersKept(w) /\ pw'[w].at = "idle"
  BY IdleEffect DEF Park
<1>4. /\ UNCHANGED <<pending, io, resumeCh, queue>>
      /\ slotState' = [slotState EXCEPT ![t] = "IoWait"] /\ lock' = [lock EXCEPT ![t] = NoOne]
  BY <1>2 DEF Park, SetState, ioVars
<1>5. /\ slotState'[t] = "IoWait" /\ lock'[t] = NoOne
      /\ \A s \in SlotId : s # t => slotState'[s] = slotState[s] /\ lock'[s] = lock[s]
  BY <1>4 DEF TypeOK, StoreTypeOK
<1>6. SameTokens
  BY <1>1, <1>3, <1>4 DEF SameTokens, OthersKept
<1>7. /\ EachPlaceOnce' /\ OnePlace'
      /\ \A s \in SlotId : SameWakes(s) /\ (Woken(s)' <=> Woken(s))
  BY <1>6, TokensStay
<1>8. Woken(t)' /\ InOnePlace(t)'
  BY <1>1, <1>2, <1>7 DEF Layer3, ParkedIsWoken, OnePlace
<1>9. MayBeWoken(t)'
  BY <1>5 DEF MayBeWoken
<1>10. \A v \in PolicyWorkers :
          pw'[v] = pw[v] \/ (pw[v].slot = t /\ pw'[v].at # "park")
  BY <1>2, <1>3 DEF OthersKept
<1> QED
  BY <1>5, <1>7, <1>8, <1>9, <1>10, Layer3Frame


\* The I/O thread and the forwarder move a wake and touch no slot.
LEMMA Layer3Passed ==
    ASSUME Layer3, NEW t \in SlotId, UNCHANGED <<slotState, lock, pw>>, EachPlaceOnce',
           \A s \in SlotId : s # t => SameWakes(s), InOnePlace(t)', Woken(t), Woken(t)'
    PROVE  Layer3'
<1>1. MayBeWoken(t)'
  BY DEF Layer3, WokenIsParked, MayBeWoken
<1> QED
  BY <1>1, Layer3Frame

LEMMA Layer3Complete ==
    ASSUME TypeOK, Layer3, NEW k \in DnsId, NEW done, IoComplete(k, done)
    PROVE  Layer3'
<1>1. pending[k] \in SlotId /\ io.at = "idle"
  BY DEF IoComplete, TypeOK, SlotOrNone
<1>2. PICK t \in SlotId : t = pending[k]
  BY <1>1
<1>3. /\ UNCHANGED <<slotState, lock, pw, resumeCh, queue>>
      /\ io'.at # "idle" /\ io'.slot = t
  BY <1>2 DEF IoComplete, storeVars, threadVars
<1>4. pending'[k] = NoOne /\ \A j \in DnsId : j # k => pending'[j] = pending[j]
  BY DEF IoComplete, TypeOK
<1>5. \A s \in SlotId : s # t => SameWakes(s)
  <2>1. \A s \in SlotId : s # t => (Pending(s)' <=> Pending(s))
    BY <1>2, <1>4, NoOneIsNoSlot DEF Pending
  <2>2. \A s \in SlotId : s # t => (Completing(s)' <=> Completing(s))
    BY <1>1, <1>3 DEF Completing
  <2> QED  BY <1>3, <2>1, <2>2 DEF SameWakes, InChannel, Queued, Popped
<1>6. Pending(t) /\ InOnePlace(t)
  BY <1>2 DEF Pending, Layer3, OnePlace
<1>7. ~InChannel(t)' /\ ~Queued(t)' /\ ~Popped(t)'
  BY <1>3, <1>6 DEF InOnePlace, InChannel, Queued, Popped
<1>8. ~Pending(t)' /\ Completing(t)'
  BY <1>2, <1>3, <1>4, NoOneIsNoSlot DEF Layer3, EachPlaceOnce, Pending, Completing
<1>9. InOnePlace(t)' /\ Woken(t) /\ Woken(t)'
  BY <1>6, <1>7, <1>8 DEF InOnePlace, Woken
<1>10. EachPlaceOnce'
  <2>1. \A i, j \in DnsId : pending'[i] = pending'[j] /\ pending'[i] # NoOne => i = j
    BY <1>4 DEF Layer3, EachPlaceOnce
  <2> QED  BY <1>3, <2>1 DEF Layer3, EachPlaceOnce
<1> QED
  BY <1>3, <1>5, <1>9, <1>10, Layer3Passed

LEMMA Layer3SendResume ==
    ASSUME TypeOK, References, Layer3, IoSendResume
    PROVE  Layer3'
<1>1. PICK t \in SlotId : t = io.slot
  BY DEF References, IoSendResume
<1>2. PICK e \in ResumeRec : e = [slot |-> io.slot, done |-> io.done]
  BY <1>1 DEF TypeOK, IoRec, ResumeRec
<1>3. /\ UNCHANGED <<slotState, lock, pw, pending, queue>>
      /\ io.at # "idle" /\ io'.at = "idle" /\ resumeCh' = Append(resumeCh, e)
  BY <1>2 DEF IoSendResume, storeVars, threadVars, IdleIo
<1>4. /\ Len(resumeCh) \in Nat /\ Len(resumeCh') = Len(resumeCh) + 1
      /\ resumeCh'[Len(resumeCh) + 1] = e
      /\ \A n \in 1 .. Len(resumeCh) : resumeCh'[n] = resumeCh[n]
  <2>1. resumeCh \in Seq(ResumeRec) /\ e \in ResumeRec
    BY <1>2 DEF TypeOK
  <2>2. /\ Len(resumeCh) \in Nat /\ Len(Append(resumeCh, e)) = Len(resumeCh) + 1
        /\ Append(resumeCh, e)[Len(resumeCh) + 1] = e
        /\ \A n \in 1 .. Len(resumeCh) : Append(resumeCh, e)[n] = resumeCh[n]
    BY <2>1, AppendToSeq, SMT
  <2> QED  BY <1>3, <2>2
<1>5. /\ \A n \in 1 .. Len(resumeCh') : n \in 1 .. Len(resumeCh) \/ n = Len(resumeCh) + 1
      /\ \A n \in 1 .. Len(resumeCh) : n \in 1 .. Len(resumeCh')
      /\ Len(resumeCh) + 1 \in 1 .. Len(resumeCh') /\ e.slot = t
  <2>1. e.slot = t
    BY <1>1, <1>2
  <2> QED  BY <1>4, <2>1, PositionsPlus
<1>6. \A s \in SlotId : InChannel(s)' <=> InChannel(s) \/ s = t
  BY <1>4, <1>5 DEF InChannel
<1>7. \A s \in SlotId : s # t => SameWakes(s)
  BY <1>1, <1>3, <1>6 DEF SameWakes, Pending, Completing, Queued, Popped
<1>8. Completing(t) /\ InOnePlace(t)
  BY <1>1, <1>3 DEF Completing, Layer3, OnePlace
<1>9. ~Pending(t)' /\ ~Completing(t)' /\ InChannel(t)' /\ ~Queued(t)' /\ ~Popped(t)'
  BY <1>3, <1>6, <1>8 DEF InOnePlace, Pending, Completing, Queued, Popped
<1>10. InOnePlace(t)' /\ Woken(t) /\ Woken(t)'
  BY <1>8, <1>9 DEF InOnePlace, Woken
<1>11. EachPlaceOnce'
  <2>1. \A n \in 1 .. Len(resumeCh) : resumeCh[n].slot # t
    BY <1>8 DEF InOnePlace, InChannel
  <2>2. \A m, n \in 1 .. Len(resumeCh') : resumeCh'[m].slot = resumeCh'[n].slot => m = n
    BY <1>4, <1>5, <2>1 DEF Layer3, EachPlaceOnce
  <2> QED  BY <1>3, <2>2 DEF Layer3, EachPlaceOnce
<1> QED
  BY <1>3, <1>7, <1>10, <1>11, Layer3Passed

LEMMA Layer3Forward ==
    ASSUME TypeOK, References, Layer1, Layer3, ForwardResume
    PROVE  Layer3'
<1>1. /\ Head(resumeCh) \in ResumeRec /\ Head(resumeCh) = resumeCh[1]
      /\ Len(resumeCh) \in Nat \ {0} /\ Len(resumeCh') = Len(resumeCh) - 1
      /\ \A n \in 1 .. Len(resumeCh') : resumeCh'[n] = resumeCh[n + 1]
  BY TailOfSeq DEF TypeOK, ForwardResume
<1>2. PICK t \in SlotId : t = Head(resumeCh).slot
  BY <1>1 DEF ResumeRec
<1>3. PICK e \in Item : e = Resume(Head(resumeCh).done)
  BY <1>1 DEF ResumeRec, Item, Resume
<1>4. /\ UNCHANGED <<slotState, lock, pw, pending, io>>
      /\ queue' = [queue EXCEPT ![t] = Append(@, e)]
  BY <1>2, <1>3 DEF ForwardResume, storeVars, threadVars
<1>5. /\ \A s \in SlotId : s # t => queue'[s] = queue[s]
      /\ Len(queue[t]) \in Nat /\ Len(queue'[t]) = Len(queue[t]) + 1
      /\ queue'[t][Len(queue[t]) + 1] = e
  BY <1>4, PushItem
<1>6. 1 \in 1 .. Len(resumeCh) /\ InChannel(t) /\ Woken(t) /\ InOnePlace(t)
  <2>1. 1 \in 1 .. Len(resumeCh)
    BY <1>1, PositionsMinus
  <2> QED  BY <1>1, <1>2, <2>1 DEF InChannel, Woken, Layer3, OnePlace
<1>7. Len(queue[t]) = 0
  <2>1. SUFFICES ASSUME Len(queue[t]) # 0 PROVE FALSE
    OBVIOUS
  <2>2. 1 \in 1 .. Len(queue[t]) /\ queue[t][1] \in Item
    <3>1. 1 \in 1 .. Len(queue[t])
      BY <1>5, <2>1, Positions
    <3>2. queue[t] \in Seq(Item)
      BY DEF TypeOK
    <3>3. queue[t][1] \in Item
      BY <3>1, <3>2, ElementOfSeq
    <3> QED  BY <3>1, <3>3
  <2>3. HasNew(t)
    BY <1>6, <2>2 DEF InOnePlace, Queued, HasNew, Item
  <2> QED  BY <1>6, <2>3, OwnedIsNotWoken
<1>8. \A m \in 1 .. Len(resumeCh) : m = 1 \/ (m - 1 \in 1 .. Len(resumeCh') /\ resumeCh'[m - 1] = resumeCh[m])
  <2>1. ASSUME NEW m \in 1 .. Len(resumeCh), m # 1
        PROVE  m - 1 \in 1 .. Len(resumeCh') /\ (m - 1) + 1 = m
    BY <1>1, <2>1, PositionsMinus
  <2>2. \A n \in 1 .. Len(resumeCh') : resumeCh'[n] = resumeCh[n + 1]
    BY <1>1
  <2> QED  BY <2>1, <2>2
<1>9. \A n \in 1 .. Len(resumeCh') : n + 1 \in 1 .. Len(resumeCh) /\ n + 1 # 1
  BY <1>1, PositionsMinus
<1>10. \A n \in 1 .. Len(resumeCh') : resumeCh'[n].slot # t
  BY <1>1, <1>2, <1>6, <1>9 DEF Layer3, EachPlaceOnce
<1>11. \A s \in SlotId : s # t => SameWakes(s)
  <2>1. \A s \in SlotId : s # t /\ InChannel(s) => InChannel(s)'
    BY <1>1, <1>2, <1>8 DEF InChannel
  <2>2. \A n \in 1 .. Len(resumeCh') : resumeCh'[n] = resumeCh[n + 1]
    BY <1>1
  <2>3. \A s \in SlotId : InChannel(s)' => InChannel(s)
    BY <1>9, <2>2 DEF InChannel
  <2> QED  BY <1>4, <1>5, <2>1, <2>3 DEF SameWakes, Pending, Completing, Queued, Popped
<1>12. ~InChannel(t)' /\ ~Pending(t)' /\ ~Completing(t)' /\ ~Popped(t)'
  BY <1>4, <1>6, <1>10 DEF InOnePlace, InChannel, Pending, Completing, Popped
<1>13. Queued(t)'
  <2>1. Len(queue'[t]) = 1 /\ queue'[t][1] = e
    BY <1>5, <1>7, Positions
  <2>2. e.kind = "Resume"
    BY <1>3 DEF Resume
  <2>3. 1 \in 1 .. 1
    BY Positions
  <2> QED  BY <2>1, <2>2, <2>3 DEF Queued
<1>14. InOnePlace(t)' /\ Woken(t)'
  BY <1>12, <1>13 DEF InOnePlace, Woken
<1>15. EachPlaceOnce'
  <2>1. \A s \in SlotId : Len(queue[s]) <= 1
    BY DEF Layer3, EachPlaceOnce
  <2>2. Len(queue'[t]) = 1
    BY <1>5, <1>7, Positions
  <2>3. \A s \in SlotId : Len(queue'[s]) <= 1
    BY <1>5, <2>1, <2>2, Positions
  <2>4. \A m, n \in 1 .. Len(resumeCh') : resumeCh'[m].slot = resumeCh'[n].slot => m = n
    <3>1. ASSUME NEW m \in 1 .. Len(resumeCh'), NEW n \in 1 .. Len(resumeCh'),
                 resumeCh'[m].slot = resumeCh'[n].slot
          PROVE  m = n
      <4>1. resumeCh'[m] = resumeCh[m + 1] /\ resumeCh'[n] = resumeCh[n + 1]
        BY <1>1
      <4>2. m + 1 = n + 1
        BY <1>9, <3>1, <4>1 DEF Layer3, EachPlaceOnce
      <4> QED  BY <1>1, <4>2, PositionsMinus
    <3> QED  BY <3>1
  <2> QED  BY <1>4, <2>3, <2>4 DEF Layer3, EachPlaceOnce
<1> QED
  BY <1>4, <1>6, <1>11, <1>14, <1>15, Layer3Passed
=============================================================================
