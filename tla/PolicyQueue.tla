---------------------------- MODULE PolicyQueue -----------------------------
(***************************************************************************)
(* The sharded handoff queue between the ingress and I/O threads and the   *)
(* policy workers of split_io                                              *)
(* (crates/conduit-dataplane/src/runtime/split_io/queue.rs).               *)
(*                                                                         *)
(* A push locks one shard, appends, unlocks, and then notifies the condvar *)
(* of every shard, one after another and without their locks.  A worker    *)
(* looks at its home shard, steals from the others in ring order, looks at *)
(* home once more under the lock it will sleep with, and sleeps on the     *)
(* home condvar for at most 100 ms.  A notification sent while a worker    *)
(* has passed the shard but is not asleep yet is lost.                     *)
(***************************************************************************)
EXTENDS Naturals, Sequences, FiniteSets

CONSTANTS PolicyWorkers,    \* numbered 0 .. n-1 in the code
          Producers,        \* ingress threads, the resume forwarder, cache wakes
          Slots,            \* slot ids that appear in work items
          MaxItems,         \* bound on the number of pushes
          HomeOf            \* home shard of each worker (worker_idx % shards)

MaxQueueShards == 64

\* Smallest power of two >= n, for the n the clamp below lets through
NextPowerOfTwo(n) == CHOOSE p \in {1, 2, 4, 8, 16, 32, 64} :
                        p >= n /\ \A r \in {1, 2, 4, 8, 16, 32, 64} : r >= n => p <= r

DeriveShardCount(policyWorkers) ==
    LET n == IF policyWorkers > 4 THEN policyWorkers ELSE 4
    IN  IF n > MaxQueueShards THEN MaxQueueShards ELSE NextPowerOfTwo(n)

NumShards == DeriveShardCount(Cardinality(PolicyWorkers))

Shard == 0 .. NumShards - 1

ShardForSlot(slot) == slot % NumShards

Items == [slot : Slots, n : 1 .. MaxItems]

ASSUME PolicyQueueAssumption ==
    /\ IsFiniteSet(PolicyWorkers) /\ PolicyWorkers # {}
    /\ Slots \subseteq Nat /\ MaxItems \in Nat
    /\ HomeOf \in [PolicyWorkers -> Shard]

VARIABLES inner,        \* the VecDeque of each shard
          prod,         \* each producer: the shards it still has to notify
          pushes,       \* number of pushes so far
          pop,          \* each worker: where it is inside pop
          asleep,       \* each worker: in wait_timeout and not notified
          taken,        \* items returned by pop
          shutdown

vars == <<inner, prod, pushes, pop, asleep, taken, shutdown>>

Init ==
    /\ inner = [i \in Shard |-> << >>]
    /\ prod = [p \in Producers |-> << >>]
    /\ pushes = 0
    /\ pop = [w \in PolicyWorkers |-> [at |-> "top", offset |-> 0]]
    /\ asleep = {}
    /\ taken = {}
    /\ shutdown = FALSE

-----------------------------------------------------------------------------
(***************************************************************************)
(* push: append under the shard's lock ...                                 *)
(***************************************************************************)
\* the owner shard first, then the others in index order
NotifyOrder(idx) ==
    LET others == [i \in 1 .. NumShards - 1 |-> IF i - 1 < idx THEN i - 1 ELSE i]
    IN  <<idx>> \o others

PushBack(p, slot) ==
    /\ prod[p] = << >>
    /\ pushes < MaxItems
    /\ LET idx == ShardForSlot(slot)
       IN  /\ inner' = [inner EXCEPT ![idx] = Append(@, [slot |-> slot, n |-> pushes + 1])]
           /\ prod' = [prod EXCEPT ![p] = NotifyOrder(idx)]
    /\ pushes' = pushes + 1
    /\ UNCHANGED <<pop, asleep, taken, shutdown>>

\* ... then notify_one on each condvar: one sleeper of that shard, if any
NotifyOne(p) ==
    /\ prod[p] # << >>
    /\ prod' = [prod EXCEPT ![p] = Tail(@)]
    /\ LET sleepers == {w \in asleep : HomeOf[w] = Head(prod[p])}
       IN  IF sleepers = {} THEN asleep' = asleep
                            ELSE \E w \in sleepers : asleep' = asleep \ {w}
    /\ UNCHANGED <<inner, pushes, pop, taken, shutdown>>

-----------------------------------------------------------------------------
(***************************************************************************)
(* pop.                                                                    *)
(***************************************************************************)
Goto(w, at, offset) == pop' = [pop EXCEPT ![w] = [at |-> at, offset |-> offset]]

PopTop(w) ==
    /\ pop[w].at = "top"
    /\ IF shutdown THEN Goto(w, "none", 0) ELSE Goto(w, "try", 0)
    /\ UNCHANGED <<inner, prod, pushes, asleep, taken, shutdown>>

\* Mutant: pop_back instead of pop_front.
TryPopShard_Back(w) ==
    /\ pop[w].at = "try"
    /\ LET idx == (HomeOf[w] + pop[w].offset) % NumShards
           len == Len(inner[idx])
       IN  IF inner[idx] # << >>
             THEN /\ inner' = [inner EXCEPT ![idx] = SubSeq(@, 1, len - 1)]
                  /\ taken' = taken \cup {inner[idx][len]}
                  /\ Goto(w, "top", 0)
             ELSE /\ IF pop[w].offset + 1 < NumShards
                       THEN Goto(w, "try", pop[w].offset + 1)
                       ELSE Goto(w, "recheck", 0)
                  /\ UNCHANGED <<inner, taken>>
    /\ UNCHANGED <<prod, pushes, asleep, shutdown>>

\* try_pop_shard on home (offset 0) and then on home + 1, home + 2, ...
TryPopShard(w) ==
    /\ pop[w].at = "try"
    /\ LET idx == (HomeOf[w] + pop[w].offset) % NumShards
       IN  IF inner[idx] # << >>
             THEN /\ inner' = [inner EXCEPT ![idx] = Tail(@)]
                  /\ taken' = taken \cup {Head(inner[idx])}
                  /\ Goto(w, "top", 0)    \* process the item, then pop again
             ELSE /\ IF pop[w].offset + 1 < NumShards
                       THEN Goto(w, "try", pop[w].offset + 1)
                       ELSE Goto(w, "recheck", 0)
                  /\ UNCHANGED <<inner, taken>>
    /\ UNCHANGED <<prod, pushes, asleep, shutdown>>

\* Mutant: sleeps without looking at the home shard again.
RecheckHome_NoRecheck(w) ==
    /\ pop[w].at = "recheck"
    /\ IF shutdown
         THEN Goto(w, "none", 0) /\ UNCHANGED asleep
         ELSE Goto(w, "wait", 0) /\ asleep' = asleep \cup {w}
    /\ UNCHANGED <<inner, prod, pushes, taken, shutdown>>

\* under the home lock: shutdown, work that arrived meanwhile, or sleep
RecheckHome(w) ==
    /\ pop[w].at = "recheck"
    /\ IF shutdown
         THEN Goto(w, "none", 0) /\ UNCHANGED asleep
       ELSE IF inner[HomeOf[w]] # << >>
         THEN Goto(w, "top", 0) /\ UNCHANGED asleep
         ELSE Goto(w, "wait", 0) /\ asleep' = asleep \cup {w}
    /\ UNCHANGED <<inner, prod, pushes, taken, shutdown>>

\* wait_timeout returns after a notification ...
Awake(w) ==
    /\ pop[w].at = "wait" /\ w \notin asleep
    /\ Goto(w, "top", 0)
    /\ UNCHANGED <<inner, prod, pushes, asleep, taken, shutdown>>

\* Mutant: wait instead of wait_timeout.
WaitTimeout_Never(w) == FALSE /\ w \in asleep /\ UNCHANGED vars

\* ... or after 100 ms
WaitTimeout(w) ==
    /\ pop[w].at = "wait" /\ w \in asleep
    /\ asleep' = asleep \ {w}
    /\ Goto(w, "top", 0)
    /\ UNCHANGED <<inner, prod, pushes, taken, shutdown>>

\* DataplaneShutdown::signal sets the flag and notifies nobody
SignalShutdown ==
    /\ ~shutdown
    /\ shutdown' = TRUE
    /\ UNCHANGED <<inner, prod, pushes, pop, asleep, taken>>

-----------------------------------------------------------------------------
PopStep(w) ==
    PopTop(w) \/ TryPopShard(w) \/ RecheckHome(w) \/ Awake(w) \/ WaitTimeout(w)

Next ==
    \/ \E p \in Producers : NotifyOne(p) \/ \E slot \in Slots : PushBack(p, slot)
    \/ \E w \in PolicyWorkers : PopStep(w)
    \/ SignalShutdown

\* Threads are scheduled and wait_timeout returns; nobody is obliged to push.
Fairness ==
    /\ \A p \in Producers : WF_vars(NotifyOne(p))
    /\ \A w \in PolicyWorkers : WF_vars(PopStep(w))

Spec == Init /\ [][Next]_vars /\ Fairness

-----------------------------------------------------------------------------
\* The queue as its users see it: per slot, first in first out, exactly once.
Waiting == {item \in Items : \E i \in Shard : \E k \in 1 .. Len(inner[i]) : inner[i][k] = item}

Abstract == INSTANCE WorkQueue WITH waiting <- Waiting

(***************************************************************************)
(* Sharding and stealing keep the order of one slot's work items and       *)
(* return each item to exactly one worker.                                 *)
(***************************************************************************)
ImplementsWorkQueue == Abstract!Spec

(***************************************************************************)
(* A worker never sleeps on a home shard that has work whose producer has  *)
(* already notified it: for the home shard the recheck under the lock      *)
(* closes the window, so a home wakeup is never lost.                      *)
(***************************************************************************)
NoLostHomeWakeup ==
    \A i \in Shard :
        LET home == {w \in PolicyWorkers : HomeOf[w] = i}
        IN  /\ home # {}
            /\ inner[i] # << >>
            /\ \A p \in Producers : \A j \in 1 .. Len(prod[p]) : prod[p][j] # i
            => \E w \in home : w \notin asleep

(***************************************************************************)
(* Every pushed item is taken unless the process shuts down: work on a     *)
(* shard no worker calls home, and wakeups lost in the window between the  *)
(* scan and the sleep, are found after the 100 ms timeout at the latest.   *)
(* Every worker leaves pop after shutdown, although signal wakes nobody.   *)
(***************************************************************************)
EveryItemTaken ==
    /\ \A k \in 1 .. MaxItems : pushes >= k ~> (shutdown \/ \E item \in taken : item.n = k)
    /\ shutdown ~> \A w \in PolicyWorkers : pop[w].at = "none"
=============================================================================
