---------------------------- MODULE SyncRuntime -----------------------------
(***************************************************************************)
(* The sync dataplane runtime and graceful shutdown.                       *)
(*                                                                         *)
(* One thread per listener worker receives a query, takes a slot, runs the *)
(* whole pipeline holding that slot's mutex (the upstream wait included),  *)
(* gives the slot back and only then sends the reply (listener/udp.rs,     *)
(* listener/tcp.rs, query_slot.rs).  The main task drains the pool on a    *)
(* shutdown signal: it locks every slot in turn and counts the ones that   *)
(* are not Free (drain.rs), then raises the shutdown flag and joins the    *)
(* workers (listener/supervisor.rs, conduit/src/runtime/mod.rs).  Nothing  *)
(* stops the workers from admitting queries while the drain is running.    *)
(***************************************************************************)
EXTENDS TxnStore

CONSTANTS Workers,      \* listener worker threads
          Queries,      \* client queries that reach the listeners
          NoOne         \* nobody holds the mutex, no slot, no query

ASSUME NoOneAssumption == NoOne \notin Workers \cup Queries \cup SlotId

VARIABLES pc,           \* where each worker is
          cur,          \* the query a worker is serving
          slotOf,       \* the slot id a worker got from acquire
          reply,        \* the wire run_in_slot hands back to a worker
          outcome,      \* what happened to each query
          lock,         \* the holder of each slot mutex across steps
          shutdown,     \* DataplaneShutdown
          drain         \* the main task inside RunningServices::shutdown

workerVars == <<pc, cur, slotOf, reply, outcome, lock>>
vars == <<freeList, allocated, slotState, pc, cur, slotOf, reply, outcome,
          lock, shutdown, drain>>

Wire == {"none", "answer"}
Outcome == {"new", "open", "rejected", "refused", "shed", "dropped", "answered"}

(***************************************************************************)
(* `active' is a history value: the slots that were not Free when the      *)
(* drain began and have not been cleared since.                            *)
(***************************************************************************)
DrainState ==
    [at : {"off", "copy", "scan", "decide", "teardown", "join", "done"},
     limit : 0 .. Capacity, next : 0 .. Capacity, remaining : 0 .. Capacity,
     cancel : BOOLEAN, elapsed : BOOLEAN,
     result : {"none", "Drained", "TimedOut", "Aborted", "skipped"},
     active : SUBSET SlotId]

Init ==
    /\ StoreInit
    /\ pc = [w \in Workers |-> "recv"]
    /\ cur = [w \in Workers |-> NoOne]
    /\ slotOf = [w \in Workers |-> NoOne]
    /\ reply = [w \in Workers |-> "none"]
    /\ outcome = [q \in Queries |-> "new"]
    /\ lock = [s \in SlotId |-> NoOne]
    /\ shutdown = FALSE
    /\ drain = [at |-> "off", limit |-> 0, next |-> 0, remaining |-> 0,
                cancel |-> FALSE, elapsed |-> FALSE, result |-> "none",
                active |-> {}]

Goto(w, from, to) == pc[w] = from /\ pc' = [pc EXCEPT ![w] = to]

-----------------------------------------------------------------------------
(***************************************************************************)
(* A listener worker.                                                      *)
(***************************************************************************)

(***************************************************************************)
(* The flag is read at the top of the loop and when recv_from times out,   *)
(* never after a datagram: a worker that is already inside recv_from still *)
(* serves a query that arrives after the flag was raised.  The read at the *)
(* top is part of the step that ends the previous iteration.               *)
(***************************************************************************)
LoopTop == IF shutdown THEN "exited" ELSE "recv"

\* recv_from / accept, the ACL tiers and the structural parse
Receive(w, q) ==
    /\ outcome[q] = "new"
    /\ \/ /\ Goto(w, "recv", "acquire")
          /\ cur' = [cur EXCEPT ![w] = q]
          /\ outcome' = [outcome EXCEPT ![q] = "open"]
       \/ \* ACL drop or structural_parse error; ACL refuse answers REFUSED
          /\ Goto(w, "recv", LoopTop)
          /\ \E o \in {"rejected", "refused"} : outcome' = [outcome EXCEPT ![q] = o]
          /\ UNCHANGED cur
    /\ UNCHANGED <<storeVars, slotOf, reply, lock, shutdown, drain>>

\* any other socket error ends the worker thread; nothing restarts it
ReceiveError(w) ==
    /\ Goto(w, "recv", "exited")
    /\ UNCHANGED <<storeVars, cur, slotOf, reply, outcome, lock, shutdown, drain>>

\* Mutant: recv_from without a read timeout never looks at the flag again.
ObserveShutdown_NoReadTimeout(w) == FALSE /\ pc[w] = "recv" /\ UNCHANGED vars

\* recv_from timed out (1 s) or accept would block, and the flag is up
ObserveShutdown(w) ==
    /\ shutdown
    /\ Goto(w, "recv", "exited")
    /\ UNCHANGED <<storeVars, cur, slotOf, reply, outcome, lock, shutdown, drain>>

Acquire(w) ==
    /\ \E id \in SlotId : PopFree(id) /\ slotOf' = [slotOf EXCEPT ![w] = id]
    /\ Goto(w, "acquire", "publish")
    /\ UNCHANGED <<cur, reply, outcome, lock, shutdown, drain>>

\* AcquireError::Exhausted: the query is shed
AcquireExhausted(w) ==
    /\ Exhausted
    /\ Goto(w, "acquire", LoopTop)
    /\ outcome' = [outcome EXCEPT ![cur[w]] = "shed"]
    /\ cur' = [cur EXCEPT ![w] = NoOne]
    /\ UNCHANGED <<storeVars, slotOf, reply, lock, shutdown, drain>>

AcquirePublish(w) ==
    /\ pc[w] = "publish"
    /\ lock[slotOf[w]] = NoOne
    /\ PublishIngress(slotOf[w])
    /\ Goto(w, "publish", "enter")
    /\ UNCHANGED <<cur, slotOf, reply, outcome, lock, shutdown, drain>>

\* transition(Ingress, Policy); on a mismatch the slot is given back
EnterPolicy(w) ==
    /\ pc[w] = "enter"
    /\ lock[slotOf[w]] = NoOne
    /\ IF slotState[slotOf[w]] = "Ingress"
         THEN SetState(slotOf[w], "Policy") /\ Goto(w, "enter", "run")
         ELSE UNCHANGED storeVars /\ Goto(w, "enter", "clear")
    /\ UNCHANGED <<cur, slotOf, reply, outcome, lock, shutdown, drain>>

\* with_slot(Policy): lock the slot and start orchestrator.run
RunBegin(w) ==
    /\ pc[w] = "run"
    /\ lock[slotOf[w]] = NoOne
    /\ IF slotState[slotOf[w]] = "Policy"
         THEN lock' = [lock EXCEPT ![slotOf[w]] = w] /\ Goto(w, "run", "running")
         ELSE UNCHANGED lock /\ Goto(w, "run", "clear")
    /\ UNCHANGED <<storeVars, cur, slotOf, reply, outcome, shutdown, drain>>

\* the pipeline, blocking upstream waits included, has an outcome
RunEnd(w) ==
    /\ Goto(w, "running", "clear")
    /\ lock' = [lock EXCEPT ![slotOf[w]] = NoOne]
    /\ \E wire \in Wire : reply' = [reply EXCEPT ![w] = wire]
    /\ UNCHANGED <<storeVars, cur, slotOf, outcome, shutdown, drain>>

\* release_active
ReleaseClear(w) ==
    /\ pc[w] = "clear"
    /\ lock[slotOf[w]] = NoOne
    /\ ClearSlot(slotOf[w])
    /\ Goto(w, "clear", IF ShouldReturn(slotOf[w]) THEN "return" ELSE "reply")
    /\ drain' = [drain EXCEPT !.active = @ \ {slotOf[w]}]
    /\ UNCHANGED <<cur, slotOf, reply, outcome, lock, shutdown>>

ReleaseReturn(w) ==
    /\ pc[w] = "return"
    /\ ReturnToFree(slotOf[w])
    /\ Goto(w, "return", "reply")
    /\ slotOf' = [slotOf EXCEPT ![w] = NoOne]
    /\ UNCHANGED <<cur, reply, outcome, lock, shutdown, drain>>

\* send_to / write_all, when run_in_slot returned a wire
SendReply(w) ==
    /\ Goto(w, "reply", LoopTop)
    /\ outcome' = [outcome EXCEPT
                     ![cur[w]] = IF reply[w] = "answer" THEN "answered" ELSE "dropped"]
    /\ cur' = [cur EXCEPT ![w] = NoOne]
    /\ reply' = [reply EXCEPT ![w] = "none"]
    /\ UNCHANGED <<storeVars, slotOf, lock, shutdown, drain>>

-----------------------------------------------------------------------------
(***************************************************************************)
(* The main task: drain, then teardown.                                    *)
(***************************************************************************)
NoWorkerVars == UNCHANGED <<storeVars, workerVars>>

\* the first signal; shutdown.drain is read from the live configuration
ShutdownSignal ==
    /\ drain.at = "off"
    /\ \/ drain' = [drain EXCEPT !.at = "copy",
                                 !.active = {s \in SlotId : slotState[s] # "Free"}]
       \/ drain' = [drain EXCEPT !.at = "teardown", !.result = "skipped"]
    /\ NoWorkerVars /\ UNCHANGED shutdown

DrainDeadline ==
    /\ drain.at \in {"copy", "scan", "decide"} /\ ~drain.elapsed
    /\ drain' = [drain EXCEPT !.elapsed = TRUE]
    /\ NoWorkerVars /\ UNCHANGED shutdown

SecondSignal ==
    /\ drain.at \in {"copy", "scan", "decide"} /\ ~drain.cancel
    /\ drain' = [drain EXCEPT !.cancel = TRUE]
    /\ NoWorkerVars /\ UNCHANGED shutdown

\* active_slots_matching: clone the slot Arcs under the meta lock ...
DrainCopy ==
    /\ drain.at = "copy"
    /\ drain' = [drain EXCEPT !.at = "scan", !.limit = allocated, !.next = 0,
                              !.remaining = 0]
    /\ NoWorkerVars /\ UNCHANGED shutdown

\* Mutant: counts only the slots a worker has moved to Policy.
DrainScan_OnlyPolicy ==
    /\ drain.at = "scan"
    /\ IF drain.next < drain.limit
         THEN /\ lock[drain.next] = NoOne
              /\ drain' = [drain EXCEPT
                             !.next = @ + 1,
                             !.remaining = IF slotState[drain.next] = "Policy"
                                             THEN @ + 1 ELSE @]
         ELSE drain' = [drain EXCEPT !.at = "decide"]
    /\ NoWorkerVars /\ UNCHANGED shutdown

\* ... then lock them one at a time; the lock blocks while a worker runs
DrainScan ==
    /\ drain.at = "scan"
    /\ IF drain.next < drain.limit
         THEN /\ lock[drain.next] = NoOne
              /\ drain' = [drain EXCEPT
                             !.next = @ + 1,
                             !.remaining = IF slotState[drain.next] # "Free"
                                             THEN @ + 1 ELSE @]
         ELSE drain' = [drain EXCEPT !.at = "decide"]
    /\ NoWorkerVars /\ UNCHANGED shutdown

DrainDecide ==
    /\ drain.at = "decide"
    /\ drain' = IF drain.remaining = 0
                  THEN [drain EXCEPT !.at = "teardown", !.result = "Drained"]
                ELSE IF drain.cancel
                  THEN [drain EXCEPT !.at = "teardown", !.result = "Aborted"]
                ELSE IF drain.elapsed
                  THEN [drain EXCEPT !.at = "teardown", !.result = "TimedOut"]
                ELSE [drain EXCEPT !.at = "copy"]
    /\ NoWorkerVars /\ UNCHANGED shutdown

Teardown ==
    /\ drain.at = "teardown"
    /\ shutdown' = TRUE
    /\ drain' = [drain EXCEPT !.at = "join"]
    /\ NoWorkerVars

Join ==
    /\ drain.at = "join"
    /\ \A w \in Workers : pc[w] = "exited"
    /\ drain' = [drain EXCEPT !.at = "done"]
    /\ NoWorkerVars /\ UNCHANGED shutdown

-----------------------------------------------------------------------------
WorkerStep(w) ==
    \/ ObserveShutdown(w) \/ Acquire(w) \/ AcquireExhausted(w)
    \/ AcquirePublish(w) \/ EnterPolicy(w) \/ RunBegin(w) \/ RunEnd(w)
    \/ ReleaseClear(w) \/ ReleaseReturn(w) \/ SendReply(w)

DrainStep == DrainCopy \/ DrainScan \/ DrainDecide \/ Teardown \/ Join

Next ==
    \/ \E w \in Workers : WorkerStep(w) \/ ReceiveError(w)
    \/ \E w \in Workers, q \in Queries : Receive(w, q)
    \/ ShutdownSignal \/ DrainDeadline \/ SecondSignal \/ DrainStep

(***************************************************************************)
(* Every thread is scheduled, an upstream wait ends (RunEnd: each attempt  *)
(* is bounded by forward.timeout_ms), and the drain deadline passes.       *)
(* Queries and signals need not come.                                      *)
(***************************************************************************)
Fairness ==
    /\ \A w \in Workers : WF_vars(WorkerStep(w))
    /\ WF_vars(DrainStep) /\ WF_vars(DrainDeadline)

Spec == Init /\ [][Next]_vars

FairSpec == Spec /\ Fairness

-----------------------------------------------------------------------------
\* Types of the workers, the slots and the drain; the scan stays in the arena.
TypeOK ==
    /\ StoreTypeOK
    /\ pc \in [Workers -> {"recv", "acquire", "publish", "enter", "run", "running",
                           "clear", "return", "reply", "exited"}]
    /\ cur \in [Workers -> Queries \cup {NoOne}]
    /\ slotOf \in [Workers -> SlotId \cup {NoOne}]
    /\ reply \in [Workers -> Wire]
    /\ outcome \in [Queries -> Outcome]
    /\ lock \in [SlotId -> Workers \cup {NoOne}]
    /\ shutdown \in BOOLEAN
    /\ drain \in DrainState

\* From the pop to the push a slot belongs to the worker that popped it.
HoldsSlot(w) == pc[w] \in {"publish", "enter", "run", "running", "clear", "return"}

(***************************************************************************)
(* The free list and the workers split the arena between them: no id is    *)
(* on the list twice, no id is both on the list and in a worker's hands,   *)
(* no two workers hold one id, and no id of the arena is lost.  This is    *)
(* what the two-section acquire and release_active must preserve.          *)
(***************************************************************************)
SlotsPartitioned ==
    /\ \A i, j \in 1 .. Len(freeList) : freeList[i] = freeList[j] => i = j
    /\ \A w \in Workers : HoldsSlot(w) => slotOf[w] \in InUse
    /\ \A v, w \in Workers : HoldsSlot(v) /\ HoldsSlot(w) /\ slotOf[v] = slotOf[w] => v = w
    /\ \A s \in InUse : \E w \in Workers : HoldsSlot(w) /\ slotOf[w] = s

(***************************************************************************)
(* A slot is in the state its holder left it in, so the error paths of     *)
(* run_in_slot and release_active (a failed transition, a failed           *)
(* with_slot, a slot that is Free already) are never taken.                *)
(***************************************************************************)
StateFollowsHolder ==
    \A w \in Workers :
        /\ pc[w] = "enter" => slotState[slotOf[w]] = "Ingress"
        /\ pc[w] \in {"run", "running", "clear"} => slotState[slotOf[w]] = "Policy"
        /\ pc[w] = "running" <=> \E s \in SlotId : lock[s] = w /\ slotOf[w] = s

(***************************************************************************)
(* A drain that reports Drained has waited for every slot that was not     *)
(* Free when it began, although the scan is not atomic, slots are reused   *)
(* while it runs and workers keep admitting queries (drain.rs).            *)
(***************************************************************************)
DrainedWaitedForActive == drain.result = "Drained" => drain.active = {}

(***************************************************************************)
(* Once the workers are joined, every query a worker took from its socket  *)
(* has its outcome, whatever the drain did: shutdown never abandons a      *)
(* query in the sync runtime (supervisor.rs, DataplaneHandle::shutdown).   *)
(***************************************************************************)
JoinedAbandonsNothing ==
    drain.at = "done" => \A q \in Queries : outcome[q] # "open"

\* A shutdown signal leads to the end of the process, with or without a drain.
ShutdownTerminates == drain.at # "off" ~> drain.at = "done"

(***************************************************************************)
(* operator-docs/docs/concepts/runtime-and-concurrency.md:90 calls         *)
(* shutdown.drain_timeout_ms the "upper bound on the wait", and :92 says a *)
(* second signal "abandons the remaining wait and proceeds straight to     *)
(* listener teardown": once either has happened, drain_slots is not kept   *)
(* waiting for a transaction to finish.                                    *)
(***************************************************************************)
DrainWaitIsBounded ==
    (drain.cancel \/ drain.elapsed) /\ drain.at = "scan" /\ drain.next < drain.limit =>
        lock[drain.next] = NoOne

(***************************************************************************)
(* The worker's view of the pool: it waits while it is inside acquire and  *)
(* holds its slot from the pop to the push.                                *)
(***************************************************************************)
Pool == INSTANCE SlotPool WITH
            Clients <- Workers, Slots <- SlotId,
            waiting <- {w \in Workers : pc[w] = "acquire"},
            held <- [w \in Workers |-> IF HoldsSlot(w) THEN slotOf[w] ELSE NoOne]

\* The two-section acquire and release_active implement the atomic slot pool.
ImplementsSlotPool == Pool!Spec
=============================================================================
