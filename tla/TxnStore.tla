------------------------------ MODULE TxnStore ------------------------------
(***************************************************************************)
(* The process-wide transaction slot pool                                  *)
(* (crates/conduit-core/src/txn_store/mod.rs, SharedTxnStore).             *)
(*                                                                         *)
(* The pool has two kinds of locks: the meta lock, which protects the slot *)
(* arena and the free list, and one mutex per slot.  Neither operation     *)
(* holds both, so acquire and release_active are TWO steps each, and other *)
(* threads run between them.  This module holds the state of the pool and  *)
(* one operator per critical section; the runtimes that use the pool say   *)
(* which thread is at which step.                                          *)
(***************************************************************************)
EXTENDS Integers, Sequences

CONSTANTS Capacity,     \* orchestrator.txn_table_capacity
          ChunkSize     \* dataplane.slot_chunk_size

ASSUME TxnStoreAssumption == Capacity \in Nat \ {0} /\ ChunkSize \in Nat \ {0}

VARIABLES freeList,     \* SharedTxnMeta.free_list, a stack of slot ids
          allocated,    \* SharedTxnMeta.slots.len()
          slotState     \* TxnSlot.state of every slot the arena may grow to

storeVars == <<freeList, allocated, slotState>>

SlotId == 0 .. Capacity - 1

(***************************************************************************)
(* The states the runtimes give a slot.  SidecarWait, ReplyPending,        *)
(* IngressSend and Terminal are declared by the enum and set by no code of *)
(* the dataplane.                                                          *)
(***************************************************************************)
SlotState == {"Free", "Ingress", "Policy", "IoWait"}

StoreInit ==
    /\ freeList = << >>
    /\ allocated = 0
    /\ slotState = [s \in SlotId |-> "Free"]

(***************************************************************************)
(* grow_chunk: one chunk, cut at the capacity.  It is called only with an  *)
(* empty free list, so the new ids are the whole list afterwards.          *)
(***************************************************************************)
GrowBy ==
    IF ChunkSize < Capacity - allocated THEN ChunkSize ELSE Capacity - allocated

FreeAfterGrow ==
    IF freeList = << >> THEN [i \in 1 .. GrowBy |-> allocated + i - 1]
                        ELSE freeList

\* Mutant: gives up instead of growing.
Exhausted_NoGrowth == freeList = << >>

Exhausted == freeList = << >> /\ allocated >= Capacity

\* Mutant: the id is read and stays on the list.
PopFree_Peek(id) ==
    LET f == FreeAfterGrow
    IN  /\ ~Exhausted
        /\ id = f[Len(f)]
        /\ freeList' = f
        /\ allocated' = IF freeList = << >> THEN allocated + GrowBy ELSE allocated
        /\ UNCHANGED slotState

(***************************************************************************)
(* acquire, the section under the meta lock: grow when the list is empty,  *)
(* then pop the id on top.  The slot itself is still Free.                 *)
(***************************************************************************)
PopFree(id) ==
    LET f == FreeAfterGrow
    IN  /\ ~Exhausted
        /\ id = f[Len(f)]
        /\ freeList' = SubSeq(f, 1, Len(f) - 1)
        /\ allocated' = IF freeList = << >> THEN allocated + GrowBy ELSE allocated
        /\ UNCHANGED slotState

\* acquire, the section under the slot mutex
PublishIngress(id) ==
    /\ slotState' = [slotState EXCEPT ![id] = "Ingress"]
    /\ UNCHANGED <<freeList, allocated>>

\* transition(id, from, to), when the slot is in state `from'
SetState(id, to) ==
    /\ slotState' = [slotState EXCEPT ![id] = to]
    /\ UNCHANGED <<freeList, allocated>>

(***************************************************************************)
(* release_active, the section under the slot mutex: a slot that is Free   *)
(* already is left alone, and the caller does not return it a second time. *)
(***************************************************************************)
ClearSlot(id) ==
    /\ slotState' = [slotState EXCEPT ![id] = "Free"]
    /\ UNCHANGED <<freeList, allocated>>

ShouldReturn(id) == slotState[id] # "Free"

\* return_to_free, under the meta lock
ReturnToFree(id) ==
    /\ freeList' = Append(freeList, id)
    /\ UNCHANGED <<allocated, slotState>>

FreeSet == {freeList[i] : i \in 1 .. Len(freeList)}

InUse == {s \in SlotId : s < allocated} \ FreeSet

StoreTypeOK ==
    /\ freeList \in Seq(SlotId)
    /\ allocated \in 0 .. Capacity
    /\ slotState \in [SlotId -> SlotState]
=============================================================================
