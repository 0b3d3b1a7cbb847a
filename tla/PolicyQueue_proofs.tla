------------------------- MODULE PolicyQueue_proofs -------------------------
(***************************************************************************)
(* For any set of workers, producers and slots, any assignment of home     *)
(* shards and any number of items: the sharded queue implements WorkQueue, *)
(* and no wakeup of a home worker is lost.                                 *)
(***************************************************************************)
EXTENDS PolicyQueue, FiniteSetTheorems, TLAPS

PopStates == [at : {"top", "try", "recheck", "wait", "none"}, offset : Shard]

TypeOK ==
    /\ inner \in [Shard -> Seq(Items)]
    /\ prod \in [Producers -> Seq(Shard)]
    /\ pushes \in 0 .. MaxItems
    /\ pop \in [PolicyWorkers -> PopStates]
    /\ asleep \subseteq PolicyWorkers
    /\ taken \subseteq Items
    /\ shutdown \in BOOLEAN

\* A shard holds items of its own slots only, in the order of their pushes.
ShardsInOrder ==
    \A i \in Shard :
        /\ \A k \in 1 .. Len(inner[i]) : ShardForSlot(inner[i][k].slot) = i
        /\ \A j, k \in 1 .. Len(inner[i]) : j < k => inner[i][j].n < inner[i][k].n

\* No item carries the number of a push that is still to come.
NumbersAreOld ==
    /\ \A i \in Shard : \A k \in 1 .. Len(inner[i]) : inner[i][k].n <= pushes
    /\ \A item \in taken : item.n <= pushes

IInv == TypeOK /\ ShardsInOrder /\ NumbersAreOld /\ NoLostHomeWakeup

-----------------------------------------------------------------------------
(* derive_shard_count gives a power of two from 4 to 64, so a slot id      *)
(* taken modulo the count is the index of a shard.                         *)
LEMMA ShardCount == NumShards \in 4 .. 64
<1>1. Cardinality(PolicyWorkers) \in Nat
  BY PolicyQueueAssumption, FS_CardinalityType
<1> DEFINE c == Cardinality(PolicyWorkers)
           n == IF c > 4 THEN c ELSE 4
<1>2. n \in Nat /\ n >= 4
  BY <1>1
<1>3. CASE n > 64
  BY <1>3 DEF NumShards, DeriveShardCount, MaxQueueShards
<1>4. CASE ~(n > 64)
  <2> HIDE DEF n
  <2> DEFINE P(p) == p >= n /\ \A r \in {1, 2, 4, 8, 16, 32, 64} : r >= n => p <= r
  <2>1. \E p \in {1, 2, 4, 8, 16, 32, 64} : P(p)
    BY <1>2, <1>4
  <2>2. NextPowerOfTwo(n) \in {1, 2, 4, 8, 16, 32, 64} /\ P(NextPowerOfTwo(n))
    BY <2>1 DEF NextPowerOfTwo
  <2>3. NextPowerOfTwo(n) \in 4 .. 64
    BY <2>2, <1>2
  <2> QED
    BY <2>3, <1>4 DEF NumShards, DeriveShardCount, MaxQueueShards, n
<1> QED
  BY <1>3, <1>4

LEMMA SlotsHaveShards ==
    ASSUME NEW slot \in Slots
    PROVE  ShardForSlot(slot) \in Shard
BY ShardCount, PolicyQueueAssumption DEF ShardForSlot, Shard

LEMMA ZeroIsAShard == 0 \in Shard
BY ShardCount DEF Shard

(* The ring of shards a worker steals from.                                *)
LEMMA StealsFromShards ==
    ASSUME TypeOK, NEW w \in PolicyWorkers
    PROVE  (HomeOf[w] + pop[w].offset) % NumShards \in Shard
<1>1. pop[w].offset \in Shard
  BY DEF TypeOK, PopStates
<1>2. HomeOf[w] \in Shard
  BY PolicyQueueAssumption
<1> QED
  BY <1>1, <1>2, ShardCount DEF Shard

LEMMA GotoType ==
    ASSUME TypeOK, NEW w \in PolicyWorkers,
           NEW at \in {"top", "try", "recheck", "wait", "none"}, NEW offset \in Shard,
           Goto(w, at, offset)
    PROVE  pop' \in [PolicyWorkers -> PopStates]
BY DEF TypeOK, Goto, PopStates

(* push notifies the shard it appended to, first of all, and only shards.  *)
LEMMA NotifiesOwner ==
    ASSUME NEW idx \in Shard
    PROVE  NotifyOrder(idx) \in Seq(Shard) /\ Len(NotifyOrder(idx)) >= 1
           /\ NotifyOrder(idx)[1] = idx
<1> DEFINE others == [i \in 1 .. NumShards - 1 |-> IF i - 1 < idx THEN i - 1 ELSE i]
<1>1. others \in Seq(Shard) /\ Len(others) = NumShards - 1
  BY ShardCount DEF Shard
<1> HIDE DEF others
<1>2. <<idx>> \o others \in Seq(Shard) /\ Len(<<idx>> \o others) >= 1
      /\ (<<idx>> \o others)[1] = idx
  BY <1>1, ShardCount
<1> QED
  BY <1>2, Zenon DEF NotifyOrder, others

-----------------------------------------------------------------------------
(* The empty queue.                                                        *)
LEMMA InitIInv == Init => IInv
<1> SUFFICES ASSUME Init PROVE IInv
  OBVIOUS
<1>1. TypeOK
  BY ZeroIsAShard, PolicyQueueAssumption DEF Init, TypeOK, PopStates
<1>2. ShardsInOrder /\ NumbersAreOld /\ NoLostHomeWakeup
  BY DEF Init, ShardsInOrder, NumbersAreOld, NoLostHomeWakeup
<1> QED
  BY <1>1, <1>2 DEF IInv

LEMMA TypeStep == TypeOK /\ [Next]_vars => TypeOK'
<1> SUFFICES ASSUME TypeOK, [Next]_vars PROVE TypeOK'
  OBVIOUS
<1> USE ZeroIsAShard DEF TypeOK
<1>1. ASSUME NEW p \in Producers, NEW slot \in Slots, PushBack(p, slot) PROVE TypeOK'
  <2> DEFINE item == [slot |-> slot, n |-> pushes + 1]
             idx == ShardForSlot(slot)
  <2>1. item \in Items /\ pushes' \in 0 .. MaxItems
    BY <1>1, PolicyQueueAssumption DEF PushBack, Items
  <2>2. idx \in Shard /\ NotifyOrder(idx) \in Seq(Shard)
    BY SlotsHaveShards, NotifiesOwner
  <2>3. Append(inner[idx], item) \in Seq(Items)
    BY <2>1, <2>2
  <2>4. inner' = [inner EXCEPT ![idx] = Append(@, item)]
        /\ prod' = [prod EXCEPT ![p] = NotifyOrder(idx)]
    BY <1>1 DEF PushBack
  <2> HIDE DEF item, idx
  <2>5. inner' \in [Shard -> Seq(Items)] /\ prod' \in [Producers -> Seq(Shard)]
    BY <2>2, <2>3, <2>4
  <2> QED
    BY <1>1, <2>1, <2>5 DEF PushBack
<1>2. ASSUME NEW p \in Producers, NotifyOne(p) PROVE TypeOK'
  <2>1. Tail(prod[p]) \in Seq(Shard)
    BY <1>2 DEF NotifyOne
  <2>2. asleep' \subseteq asleep
    BY <1>2 DEF NotifyOne
  <2> QED
    BY <1>2, <2>1, <2>2 DEF NotifyOne
<1>3. ASSUME NEW w \in PolicyWorkers, PopTop(w) PROVE TypeOK'
  BY <1>3, GotoType DEF PopTop
<1>4. ASSUME NEW w \in PolicyWorkers, TryPopShard(w) PROVE TypeOK'
  <2> DEFINE idx == (HomeOf[w] + pop[w].offset) % NumShards
  <2>1. idx \in Shard
    BY StealsFromShards
  <2>2. CASE inner[idx] # << >>
    <3>1. Tail(inner[idx]) \in Seq(Items) /\ Head(inner[idx]) \in Items
      BY <2>1, <2>2
    <3>2. inner' = [inner EXCEPT ![idx] = Tail(@)] /\ taken' = taken \cup {Head(inner[idx])}
      BY <1>4, <2>2 DEF TryPopShard
    <3>3. pop' \in [PolicyWorkers -> PopStates]
      BY <1>4, <2>2, GotoType DEF TryPopShard
    <3> HIDE DEF idx
    <3> QED
      BY <1>4, <2>1, <3>1, <3>2, <3>3 DEF TryPopShard
  <2>3. CASE inner[idx] = << >>
    <3>1. inner' = inner /\ taken' = taken
      BY <1>4, <2>3 DEF TryPopShard
    <3>2. pop' \in [PolicyWorkers -> PopStates]
      <4>1. CASE pop[w].offset + 1 < NumShards
        <5>1. pop[w].offset + 1 \in Shard
          BY <4>1, ShardCount DEF PopStates, Shard
        <5> QED
          BY <1>4, <2>3, <4>1, <5>1, GotoType DEF TryPopShard
      <4>2. CASE ~(pop[w].offset + 1 < NumShards)
        BY <1>4, <2>3, <4>2, GotoType DEF TryPopShard
      <4> QED
        BY <4>1, <4>2
    <3> QED
      BY <1>4, <3>1, <3>2 DEF TryPopShard
  <2> QED
    BY <2>2, <2>3
<1>5. ASSUME NEW w \in PolicyWorkers, RecheckHome(w) PROVE TypeOK'
  BY <1>5, GotoType DEF RecheckHome
<1>6. ASSUME NEW w \in PolicyWorkers, Awake(w) \/ WaitTimeout(w) PROVE TypeOK'
  BY <1>6, GotoType DEF Awake, WaitTimeout
<1>7. CASE SignalShutdown \/ UNCHANGED vars
  BY <1>7, Zenon DEF SignalShutdown, vars
<1> QED
  BY <1>1, <1>2, <1>3, <1>4, <1>5, <1>6, <1>7 DEF Next, PopStep

-----------------------------------------------------------------------------
(* What the two steps that change a shard do to it, position by position.  *)
LEMMA PushAppends ==
    ASSUME IInv, NEW p \in Producers, NEW slot \in Slots, PushBack(p, slot)
    PROVE  LET idx == ShardForSlot(slot)
               item == [slot |-> slot, n |-> pushes + 1]
               len == Len(inner[idx])
           IN  /\ idx \in Shard /\ item \in Items /\ len \in Nat
               /\ \A i \in Shard \ {idx} : inner'[i] = inner[i]
               /\ Len(inner'[idx]) = len + 1
               /\ \A k \in 1 .. len : inner'[idx][k] = inner[idx][k]
               /\ inner'[idx][len + 1] = item
<1> DEFINE idx == ShardForSlot(slot)
           item == [slot |-> slot, n |-> pushes + 1]
<1>1. idx \in Shard
  BY SlotsHaveShards
<1>2. item \in Items
  BY PolicyQueueAssumption DEF PushBack, Items, IInv, TypeOK
<1>3. inner' = [inner EXCEPT ![idx] = Append(@, item)]
  BY DEF PushBack
<1>4. inner \in [Shard -> Seq(Items)]
  BY DEF IInv, TypeOK
<1> HIDE DEF idx, item
<1>5. /\ idx \in Shard /\ item \in Items /\ Len(inner[idx]) \in Nat
      /\ \A i \in Shard \ {idx} : inner'[i] = inner[i]
      /\ Len(inner'[idx]) = Len(inner[idx]) + 1
      /\ \A k \in 1 .. Len(inner[idx]) : inner'[idx][k] = inner[idx][k]
      /\ inner'[idx][Len(inner[idx]) + 1] = item
  BY <1>1, <1>2, <1>3, <1>4
<1> QED
  BY <1>5 DEF idx, item

LEMMA PopRemovesHead ==
    ASSUME IInv, NEW w \in PolicyWorkers, TryPopShard(w)
    PROVE  \/ inner' = inner /\ taken' = taken
           \/ \E idx \in Shard :
                 /\ inner[idx] # << >> /\ Len(inner[idx]) \in Nat
                 /\ \A i \in Shard \ {idx} : inner'[i] = inner[i]
                 /\ Len(inner'[idx]) = Len(inner[idx]) - 1
                 /\ \A k \in 1 .. Len(inner[idx]) - 1 : inner'[idx][k] = inner[idx][k + 1]
                 /\ taken' = taken \cup {inner[idx][1]}
<1> DEFINE idx == (HomeOf[w] + pop[w].offset) % NumShards
<1>1. idx \in Shard
  BY StealsFromShards DEF IInv
<1>2. CASE inner[idx] = << >>
  BY <1>2 DEF TryPopShard
<1>3. CASE inner[idx] # << >>
  <2>1. inner' = [inner EXCEPT ![idx] = Tail(@)] /\ taken' = taken \cup {Head(inner[idx])}
    BY <1>3 DEF TryPopShard
  <2>2. inner \in [Shard -> Seq(Items)]
    BY DEF IInv, TypeOK
  <2> HIDE DEF idx
  <2>3. inner[idx] \in Seq(Items) /\ inner'[idx] = Tail(inner[idx])
        /\ \A i \in Shard \ {idx} : inner'[i] = inner[i]
    BY <1>1, <2>1, <2>2
  <2>4. /\ Len(inner[idx]) \in Nat /\ Len(Tail(inner[idx])) = Len(inner[idx]) - 1
        /\ \A k \in 1 .. Len(inner[idx]) - 1 : Tail(inner[idx])[k] = inner[idx][k + 1]
        /\ Head(inner[idx]) = inner[idx][1]
    BY <1>3, <2>3
  <2> QED
    BY <1>1, <1>3, <2>1, <2>3, <2>4, Zenon
<1> QED
  BY <1>2, <1>3

LEMMA ItemsInShards ==
    ASSUME TypeOK
    PROVE  \A i \in Shard : \A k \in 1 .. Len(inner[i]) : inner[i][k] \in Items
BY DEF TypeOK

LEMMA OrderStep == IInv /\ [Next]_vars => ShardsInOrder' /\ NumbersAreOld'
<1> SUFFICES ASSUME IInv, [Next]_vars PROVE ShardsInOrder' /\ NumbersAreOld'
  OBVIOUS
<1> USE DEF ShardsInOrder, NumbersAreOld
<1>1. ASSUME NEW p \in Producers, NEW slot \in Slots, PushBack(p, slot)
      PROVE  ShardsInOrder' /\ NumbersAreOld'
  <2> DEFINE idx == ShardForSlot(slot)
             item == [slot |-> slot, n |-> pushes + 1]
             len == Len(inner[idx])
  <2>1. /\ idx \in Shard /\ item \in Items /\ len \in Nat
        /\ \A i \in Shard \ {idx} : inner'[i] = inner[i]
        /\ Len(inner'[idx]) = len + 1
        /\ \A k \in 1 .. len : inner'[idx][k] = inner[idx][k]
        /\ inner'[idx][len + 1] = item
    BY <1>1, PushAppends
  <2>2. item.n = pushes + 1 /\ ShardForSlot(item.slot) = idx /\ pushes \in Nat
    BY PolicyQueueAssumption DEF IInv, TypeOK
  <2>3. pushes' = pushes + 1 /\ taken' = taken
    BY <1>1 DEF PushBack
  <2>4. \A i \in Shard : \A k \in 1 .. Len(inner[i]) : inner[i][k].n \in Nat
    BY ItemsInShards DEF IInv, Items
  <2>5. \A other \in taken : other.n \in Nat
    BY DEF IInv, TypeOK, Items
  <2> HIDE DEF idx, item
  <2>6. ASSUME NEW i \in Shard, NEW k \in 1 .. Len(inner'[i])
        PROVE  /\ ShardForSlot(inner'[i][k].slot) = i
               /\ inner'[i][k].n <= pushes'
               /\ \A j \in 1 .. Len(inner'[i]) : j < k => inner'[i][j].n < inner'[i][k].n
    <3>1. CASE i # idx
      <4>1. inner'[i] = inner[i] /\ k \in 1 .. Len(inner[i])
        BY <2>1, <3>1
      <4>2. inner[i][k].n <= pushes /\ inner[i][k].n \in Nat
        BY <2>4, <4>1 DEF IInv
      <4>3. inner[i][k].n <= pushes'
        BY <2>2, <2>3, <4>2
      <4>4. ShardForSlot(inner[i][k].slot) = i
            /\ \A j \in 1 .. Len(inner[i]) : j < k => inner[i][j].n < inner[i][k].n
        BY <4>1 DEF IInv
      <4> QED
        BY <4>1, <4>3, <4>4
    <3>2. CASE i = idx
      <4>1. CASE k = len + 1
        <5>1. inner'[i][k] = item
          BY <2>1, <3>2, <4>1
        <5>2. ASSUME NEW j \in 1 .. Len(inner'[i]), j < k PROVE inner'[i][j].n < inner'[i][k].n
          <6>1. j \in 1 .. len /\ inner'[i][j] = inner[i][j]
            BY <2>1, <3>2, <4>1, <5>2
          <6>2. inner[i][j].n <= pushes /\ inner[i][j].n \in Nat
            BY <2>4, <3>2, <6>1 DEF IInv
          <6> QED
            BY <2>2, <5>1, <6>1, <6>2
        <5> QED
          BY <2>2, <2>3, <3>2, <5>1, <5>2
      <4>2. CASE k \in 1 .. len
        <5>1. inner'[i][k] = inner[i][k]
          BY <2>1, <3>2, <4>2
        <5>2. inner[i][k].n <= pushes /\ inner[i][k].n \in Nat
          BY <2>4, <3>2, <4>2 DEF IInv
        <5>3. ASSUME NEW j \in 1 .. Len(inner'[i]), j < k PROVE inner'[i][j].n < inner'[i][k].n
          <6>1. j \in 1 .. len /\ inner'[i][j] = inner[i][j]
            BY <2>1, <3>2, <4>2, <5>3
          <6> QED
            BY <3>2, <4>2, <5>1, <5>3, <6>1 DEF IInv
        <5> QED
          BY <2>2, <2>3, <3>2, <4>2, <5>1, <5>2, <5>3 DEF IInv
      <4> QED
        BY <2>1, <2>6, <3>2, <4>1, <4>2
    <3> QED
      BY <3>1, <3>2
  <2>7. \A other \in taken' : other.n <= pushes'
    BY <2>2, <2>3, <2>5 DEF IInv
  <2> QED
    BY <2>6, <2>7
<1>2. ASSUME NEW w \in PolicyWorkers, TryPopShard(w)
      PROVE  ShardsInOrder' /\ NumbersAreOld'
  <2>1. pushes' = pushes
    BY <1>2 DEF TryPopShard
  <2>2. CASE inner' = inner /\ taken' = taken
    BY <2>1, <2>2 DEF IInv
  <2>3. ASSUME NEW idx \in Shard,
               inner[idx] # << >> /\ Len(inner[idx]) \in Nat,
               \A i \in Shard \ {idx} : inner'[i] = inner[i],
               Len(inner'[idx]) = Len(inner[idx]) - 1,
               \A k \in 1 .. Len(inner[idx]) - 1 : inner'[idx][k] = inner[idx][k + 1],
               taken' = taken \cup {inner[idx][1]}
        PROVE  ShardsInOrder' /\ NumbersAreOld'
    <3>1. Len(inner[idx]) >= 1
      BY <2>3 DEF IInv, TypeOK
    <3>2. ASSUME NEW i \in Shard, NEW k \in 1 .. Len(inner'[i])
          PROVE  /\ ShardForSlot(inner'[i][k].slot) = i
                 /\ inner'[i][k].n <= pushes'
                 /\ \A j \in 1 .. Len(inner'[i]) : j < k => inner'[i][j].n < inner'[i][k].n
      <4>1. CASE i # idx
        BY <2>1, <2>3, <3>2, <4>1 DEF IInv
      <4>2. CASE i = idx
        <5>1. k + 1 \in 1 .. Len(inner[i]) /\ inner'[i][k] = inner[i][k + 1]
          BY <2>3, <3>2, <4>2
        <5>2. ASSUME NEW j \in 1 .. Len(inner'[i]), j < k PROVE inner'[i][j].n < inner'[i][k].n
          <6>1. j + 1 \in 1 .. Len(inner[i]) /\ j + 1 < k + 1 /\ inner'[i][j] = inner[i][j + 1]
            BY <2>3, <3>2, <4>2, <5>2
          <6> QED
            BY <5>1, <6>1 DEF IInv
        <5> QED
          BY <2>1, <5>1, <5>2 DEF IInv
      <4> QED
        BY <4>1, <4>2
    <3>3. \A other \in taken' : other.n <= pushes'
      BY <2>1, <2>3, <3>1 DEF IInv
    <3> QED
      BY <3>2, <3>3
  <2> QED
    BY <1>2, <2>2, <2>3, PopRemovesHead
<1>3. CASE UNCHANGED <<inner, pushes, taken>>
  BY <1>3 DEF IInv
<1> QED
  BY <1>1, <1>2, <1>3
  DEF Next, PopStep, NotifyOne, PopTop, RecheckHome, Awake, WaitTimeout, SignalShutdown, vars

-----------------------------------------------------------------------------
(* Only an append makes an empty shard busy, and the push that appends has *)
(* the shard's notification still to send; a notification leaves a home    *)
(* worker awake; and a worker falls asleep only under the lock of its      *)
(* empty home shard.                                                       *)
LEMMA WakeupStep == IInv /\ [Next]_vars => NoLostHomeWakeup'
<1> SUFFICES ASSUME IInv, [Next]_vars,
                    NEW i \in Shard,
                    NEW h \in PolicyWorkers, HomeOf[h] = i,
                    inner'[i] # << >>,
                    \A p \in Producers : \A j \in 1 .. Len(prod'[p]) : prod'[p][j] # i
             PROVE  \E w \in PolicyWorkers : HomeOf[w] = i /\ w \notin asleep'
  BY DEF NoLostHomeWakeup
<1> DEFINE Notified == \A p \in Producers : \A j \in 1 .. Len(prod[p]) : prod[p][j] # i
           Served == \E w \in PolicyWorkers : HomeOf[w] = i /\ w \notin asleep
<1>1. inner[i] # << >> /\ Notified => Served
  BY DEF IInv, NoLostHomeWakeup
<1>2. TypeOK
  BY DEF IInv
<1> HIDE DEF Served
<1>3. ASSUME NEW p \in Producers, NEW slot \in Slots, PushBack(p, slot) PROVE Served'
  <2> DEFINE idx == ShardForSlot(slot)
  <2>1. idx \in Shard /\ Len(NotifyOrder(idx)) >= 1 /\ NotifyOrder(idx)[1] = idx
    BY SlotsHaveShards, NotifiesOwner
  <2>2. prod' = [prod EXCEPT ![p] = NotifyOrder(idx)] /\ prod[p] = << >> /\ asleep' = asleep
    BY <1>3 DEF PushBack
  <2>3. inner' = [inner EXCEPT ![idx] = Append(@, [slot |-> slot, n |-> pushes + 1])]
    BY <1>3 DEF PushBack
  <2>4. NotifyOrder(idx) \in Seq(Shard)
    BY <2>1, NotifiesOwner
  <2> HIDE DEF idx
  <2>5. prod'[p] = NotifyOrder(idx)
    BY <1>2, <2>2 DEF TypeOK
  <2>6. i # idx
    BY <2>1, <2>4, <2>5
  <2>7. inner[i] # << >>
    BY <1>2, <2>3, <2>6 DEF TypeOK
  <2>8. ASSUME NEW q \in Producers, NEW j \in 1 .. Len(prod[q]) PROVE prod[q][j] # i
    <3>1. q # p
      BY <2>2, <2>8
    <3>2. prod'[q] = prod[q]
      BY <1>2, <2>2, <3>1 DEF TypeOK
    <3> QED
      BY <2>8, <3>2
  <2> QED
    BY <1>1, <2>2, <2>7, <2>8 DEF Served
<1>4. ASSUME NEW p \in Producers, NotifyOne(p) PROVE Served'
  <2> DEFINE sleepers == {w \in asleep : HomeOf[w] = Head(prod[p])}
  <2>1. prod[p] # << >> /\ prod' = [prod EXCEPT ![p] = Tail(@)] /\ inner' = inner
    BY <1>4 DEF NotifyOne
  <2>2. IF sleepers = {} THEN asleep' = asleep ELSE \E w \in sleepers : asleep' = asleep \ {w}
    BY <1>4 DEF NotifyOne
  <2>3. CASE Head(prod[p]) = i
    <3>1. CASE h \in asleep
      BY <1>2, <2>2, <2>3, <3>1 DEF TypeOK, Served
    <3>2. CASE h \notin asleep
      BY <2>2, <3>2 DEF Served
    <3> QED
      BY <3>1, <3>2
  <2>4. CASE Head(prod[p]) # i
    <3>1. ASSUME NEW q \in Producers, NEW j \in 1 .. Len(prod[q]) PROVE prod[q][j] # i
      <4>1. CASE q # p
        BY <1>2, <2>1, <3>1, <4>1 DEF TypeOK
      <4>2. CASE q = p /\ j = 1
        BY <1>2, <2>4, <4>2 DEF TypeOK
      <4>3. CASE q = p /\ j > 1
        <5>1. prod'[p] = Tail(prod[p]) /\ prod[p] \in Seq(Shard)
          BY <1>2, <2>1 DEF TypeOK
        <5>2. j - 1 \in 1 .. Len(prod'[p]) /\ prod'[p][j - 1] = prod[p][j]
          <6>1. /\ Len(prod[p]) \in Nat /\ Len(Tail(prod[p])) = Len(prod[p]) - 1
                /\ \A k \in 1 .. Len(prod[p]) - 1 : Tail(prod[p])[k] = prod[p][k + 1]
            BY <2>1, <5>1
          <6>2. j \in 1 .. Len(prod[p])
            BY <4>3
          <6>3. j - 1 \in 1 .. Len(prod[p]) - 1 /\ (j - 1) + 1 = j
            BY <4>3, <6>1, <6>2
          <6> QED
            BY <5>1, <6>1, <6>3
        <5> QED
          BY <4>3, <5>2
      <4> QED
        BY <4>1, <4>2, <4>3
    <3>2. Served
      BY <1>1, <2>1, <3>1
    <3> QED
      BY <2>2, <3>2 DEF Served
  <2> QED
    BY <2>3, <2>4
<1>5. ASSUME NEW w \in PolicyWorkers, TryPopShard(w) PROVE Served'
  <2>1. prod' = prod /\ asleep' = asleep
    BY <1>5 DEF TryPopShard
  <2>2. inner[i] # << >>
    <3> DEFINE idx == (HomeOf[w] + pop[w].offset) % NumShards
    <3>1. inner' = inner \/ (inner[idx] # << >> /\ inner' = [inner EXCEPT ![idx] = Tail(@)])
      BY <1>5 DEF TryPopShard
    <3> HIDE DEF idx
    <3> QED
      BY <1>2, <3>1 DEF TypeOK
  <2> QED
    BY <1>1, <2>1, <2>2 DEF Served
<1>6. ASSUME NEW w \in PolicyWorkers, RecheckHome(w) PROVE Served'
  <2>1. inner' = inner /\ prod' = prod
    BY <1>6 DEF RecheckHome
  <2>2. Served
    BY <1>1, <2>1
  <2>3. asleep' = asleep \/ (asleep' = asleep \cup {w} /\ inner[HomeOf[w]] = << >>)
    BY <1>6 DEF RecheckHome
  <2> QED
    BY <2>1, <2>2, <2>3 DEF Served
<1>7. ASSUME inner' = inner, prod' = prod, asleep' \subseteq asleep PROVE Served'
  BY <1>1, <1>7 DEF Served
<1>8. ASSUME NEW w \in PolicyWorkers, PopTop(w) \/ Awake(w) \/ WaitTimeout(w) PROVE Served'
  BY <1>7, <1>8 DEF PopTop, Awake, WaitTimeout
<1>9. ASSUME SignalShutdown \/ UNCHANGED vars PROVE Served'
  BY <1>7, <1>9 DEF SignalShutdown, vars
<1>10. Served'
  BY <1>3, <1>4, <1>5, <1>6, <1>8, <1>9 DEF Next, PopStep
<1> QED
  BY <1>10 DEF Served

(* The queue keeps its invariant.                                          *)
THEOREM Inductive == Spec => []IInv
<1>1. IInv /\ [Next]_vars => IInv'
  BY TypeStep, OrderStep, WakeupStep DEF IInv
<1> QED
  BY <1>1, InitIInv, PTL DEF Spec

(* A home worker is never left asleep on a shard with work whose producer  *)
(* has already notified it, whatever the workers, homes and producers.     *)
THEOREM HomeWakeupsAreNeverLost == Spec => []NoLostHomeWakeup
<1>1. IInv => NoLostHomeWakeup
  BY DEF IInv
<1> QED
  BY <1>1, Inductive, PTL

-----------------------------------------------------------------------------
(* Which items wait, shard by shard.                                       *)
LEMMA WaitingInShard ==
    ASSUME IInv, NEW item \in Waiting
    PROVE  item \in Items /\ \E k \in 1 .. Len(inner[ShardForSlot(item.slot)]) :
                                inner[ShardForSlot(item.slot)][k] = item
BY DEF Waiting, IInv, ShardsInOrder

(* A push is the push of an item with the largest number so far.           *)
LEMMA PushRefines ==
    ASSUME IInv, NEW p \in Producers, NEW slot \in Slots, PushBack(p, slot)
    PROVE  \E item \in Items : Abstract!Push(item)
<1> DEFINE idx == ShardForSlot(slot)
           item == [slot |-> slot, n |-> pushes + 1]
           len == Len(inner[idx])
<1>1. /\ idx \in Shard /\ item \in Items /\ len \in Nat
      /\ \A i \in Shard \ {idx} : inner'[i] = inner[i]
      /\ Len(inner'[idx]) = len + 1
      /\ \A k \in 1 .. len : inner'[idx][k] = inner[idx][k]
      /\ inner'[idx][len + 1] = item
  BY PushAppends
<1>2. item.n = pushes + 1 /\ pushes \in Nat /\ taken' = taken
  BY PolicyQueueAssumption DEF PushBack, IInv, TypeOK
<1>3. \A other \in Waiting \cup taken : other.n < item.n
  <2> SUFFICES ASSUME NEW other \in Waiting \cup taken PROVE other.n < item.n
    OBVIOUS
  <2>1. other.n \in Nat
    BY DEF Waiting, IInv, TypeOK, Items
  <2>2. other.n <= pushes
    BY DEF Waiting, IInv, NumbersAreOld
  <2> QED
    BY <1>2, <2>1, <2>2
<1> HIDE DEF idx, item
<1>4. Waiting' = Waiting \cup {item}
  <2>1. ASSUME NEW x \in Waiting PROVE x \in Waiting'
    <3>1. PICK i \in Shard : \E k \in 1 .. Len(inner[i]) : inner[i][k] = x
      BY <2>1 DEF Waiting
    <3>2. PICK k \in 1 .. Len(inner[i]) : inner[i][k] = x
      BY <3>1
    <3>3. k \in 1 .. Len(inner'[i]) /\ inner'[i][k] = x
      BY <1>1, <3>2
    <3> QED
      BY <2>1, <3>3 DEF Waiting
  <2>2. item \in Waiting'
    <3>1. len + 1 \in 1 .. Len(inner'[idx])
      BY <1>1
    <3> QED
      BY <1>1, <3>1 DEF Waiting
  <2>3. ASSUME NEW x \in Waiting' PROVE x \in Waiting \cup {item}
    <3>1. PICK i \in Shard : \E k \in 1 .. Len(inner'[i]) : inner'[i][k] = x
      BY <2>3 DEF Waiting
    <3>2. PICK k \in 1 .. Len(inner'[i]) : inner'[i][k] = x
      BY <3>1
    <3>3. CASE i = idx /\ k = len + 1
      BY <1>1, <3>2, <3>3
    <3>4. CASE ~(i = idx /\ k = len + 1)
      <4>1. k \in 1 .. Len(inner[i]) /\ inner[i][k] = x
        BY <1>1, <3>2, <3>4
      <4> QED
        BY <2>3, <4>1 DEF Waiting
    <3> QED
      BY <3>3, <3>4
  <2> QED
    BY <2>1, <2>2, <2>3
<1> QED
  BY <1>1, <1>2, <1>3, <1>4 DEF Abstract!Push

(* A pop takes the oldest waiting item of its slot, or none.               *)
LEMMA PopRefines ==
    ASSUME IInv, NEW w \in PolicyWorkers, TryPopShard(w)
    PROVE  (\E item \in Items : Abstract!Take(item)) \/ UNCHANGED <<Waiting, taken>>
<1>1. CASE inner' = inner /\ taken' = taken
  BY <1>1 DEF Waiting
<1>2. ASSUME NEW idx \in Shard,
             inner[idx] # << >> /\ Len(inner[idx]) \in Nat,
             \A i \in Shard \ {idx} : inner'[i] = inner[i],
             Len(inner'[idx]) = Len(inner[idx]) - 1,
             \A k \in 1 .. Len(inner[idx]) - 1 : inner'[idx][k] = inner[idx][k + 1],
             taken' = taken \cup {inner[idx][1]}
      PROVE  \E item \in Items : Abstract!Take(item)
  <2> DEFINE item == inner[idx][1]
  <2>1. 1 \in 1 .. Len(inner[idx])
    BY <1>2 DEF IInv, TypeOK
  <2>2. item \in Items /\ item \in Waiting
    BY <2>1, ItemsInShards DEF Waiting, IInv
  <2>3. ShardForSlot(item.slot) = idx
    BY <2>1 DEF IInv, ShardsInOrder
  <2>4. ASSUME NEW k \in 1 .. Len(inner[idx]), k # 1 PROVE item.n < inner[idx][k].n
    BY <2>1, <2>4 DEF IInv, ShardsInOrder
  <2>5. item.n \in Nat
    BY <2>2 DEF Items
  <2>6. ASSUME NEW other \in Waiting, other.slot = item.slot PROVE item.n <= other.n
    <3>1. PICK k \in 1 .. Len(inner[idx]) : inner[idx][k] = other
      BY <2>3, <2>6, WaitingInShard
    <3>2. other.n \in Nat
      BY DEF Waiting, Items
    <3>3. CASE k = 1
      BY <2>5, <3>1, <3>3
    <3>4. CASE k # 1
      BY <2>4, <2>5, <3>1, <3>2, <3>4
    <3> QED
      BY <3>3, <3>4
  <2> HIDE DEF item
  <2>7. Waiting' = Waiting \ {item}
    <3>1. ASSUME NEW x \in Waiting, x # item PROVE x \in Waiting'
      <4>1. PICK i \in Shard : \E k \in 1 .. Len(inner[i]) : inner[i][k] = x
        BY DEF Waiting
      <4>2. PICK k \in 1 .. Len(inner[i]) : inner[i][k] = x
        BY <4>1
      <4>3. CASE i # idx
        BY <1>2, <4>2, <4>3 DEF Waiting
      <4>4. CASE i = idx
        <5>1. k # 1
          BY <3>1, <4>2, <4>4 DEF item
        <5>2. k - 1 \in 1 .. Len(inner'[idx]) /\ k - 1 \in 1 .. Len(inner[idx]) - 1
              /\ (k - 1) + 1 = k
          BY <1>2, <4>2, <4>4, <5>1
        <5>3. inner'[idx][k - 1] = x
          BY <1>2, <4>2, <4>4, <5>2
        <5> QED
          BY <5>2, <5>3 DEF Waiting
      <4> QED
        BY <4>3, <4>4
    <3>2. ASSUME NEW x \in Waiting' PROVE x \in Waiting /\ x # item
      <4>1. PICK i \in Shard : \E k \in 1 .. Len(inner'[i]) : inner'[i][k] = x
        BY DEF Waiting
      <4>2. PICK k \in 1 .. Len(inner'[i]) : inner'[i][k] = x
        BY <4>1
      <4>3. CASE i # idx
        <5>1. inner[i][k] = x /\ k \in 1 .. Len(inner[i])
          BY <1>2, <4>2, <4>3
        <5>2. ShardForSlot(x.slot) = i
          BY <5>1 DEF IInv, ShardsInOrder
        <5> QED
          BY <2>3, <4>3, <5>1, <5>2 DEF Waiting
      <4>4. CASE i = idx
        <5>1. k + 1 \in 1 .. Len(inner[idx]) /\ k + 1 # 1 /\ inner[idx][k + 1] = x
          BY <1>2, <4>2, <4>4
        <5>2. item.n < x.n
          BY <2>4, <5>1
        <5> QED
          BY <2>5, <5>1, <5>2 DEF Waiting
      <4> QED
        BY <4>3, <4>4
    <3> QED
      BY <3>1, <3>2
  <2> QED
    BY <1>2, <2>2, <2>6, <2>7 DEF Abstract!Take, item
<1> QED
  BY <1>1, <1>2, PopRemovesHead

(* The sharded queue implements the queue its users rely on: the items of  *)
(* a slot leave in the order they were pushed, each exactly once.          *)
THEOREM RefinesWorkQueue == Spec => ImplementsWorkQueue
<1>1. Init => Abstract!Init
  BY DEF Init, Abstract!Init, Waiting
<1>2. IInv /\ [Next]_vars => [Abstract!Next]_<<Waiting, taken>>
  <2> SUFFICES ASSUME IInv, [Next]_vars PROVE [Abstract!Next]_<<Waiting, taken>>
    OBVIOUS
  <2>1. ASSUME NEW p \in Producers, NEW slot \in Slots, PushBack(p, slot)
        PROVE  Abstract!Next
    BY <2>1, PushRefines DEF Abstract!Next
  <2>2. ASSUME NEW w \in PolicyWorkers, TryPopShard(w)
        PROVE  Abstract!Next \/ UNCHANGED <<Waiting, taken>>
    BY <2>2, PopRefines DEF Abstract!Next
  <2>3. CASE UNCHANGED <<inner, taken>>
    BY <2>3 DEF Waiting
  <2> QED
    BY <2>1, <2>2, <2>3
    DEF Next, PopStep, NotifyOne, PopTop, RecheckHome, Awake, WaitTimeout, SignalShutdown, vars
<1> QED
  BY <1>1, <1>2, Inductive, PTL DEF Spec, ImplementsWorkQueue, Abstract!Spec

=============================================================================
