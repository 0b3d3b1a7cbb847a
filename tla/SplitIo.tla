------------------------------ MODULE SplitIo -------------------------------
(***************************************************************************)
(* The split_io dataplane runtime: ingress threads, policy workers, one    *)
(* I/O poll thread and the resume forwarder, around the shared slot pool   *)
(* (runtime/split_io/{mod,ingress,policy,queue}.rs, forward/{transport,    *)
(* io_backend,txn_table,pool_inflight}.rs).                                *)
(*                                                                         *)
(* A query travels as a slot id: ingress -> New -> policy worker -> parked *)
(* in IoWait -> I/O thread -> Resume -> policy worker -> ...  The slot id  *)
(* has no generation: only the protocol below keeps a Resume from reaching *)
(* a later query in the same slot.                                         *)
(*                                                                         *)
(* The policy queue is used through its abstraction (WorkQueue): one FIFO  *)
(* per slot.  One backend, one pool, no cache provider.                    *)
(***************************************************************************)
EXTENDS TxnStore, FiniteSets

CONSTANTS UdpIngress, TcpIngress, PolicyWorkers,    \* threads
          Queries, NoOne,
          IdSpace,          \* upstream DNS ids (2^16 in the code)
          MaxAttempts,      \* orchestrator.max_attempts
          PerBackend,       \* forward.outstanding_per_backend
          MaxInflight,      \* pools[].max_inflight
          MaxGen            \* number of reloads

ASSUME SplitIoAssumption ==
    /\ NoOne \notin Queries \cup SlotId \cup PolicyWorkers
    /\ NoOne \notin 0 .. IdSpace - 1
    /\ NoOne \notin [q : Queries, via : UdpIngress \cup TcpIngress]
    /\ UdpIngress \cap TcpIngress = {}
    /\ {IdSpace, MaxAttempts, PerBackend, MaxInflight} \subseteq Nat \ {0}
    /\ MaxGen \in Nat

Ingress == UdpIngress \cup TcpIngress
DnsId == 0 .. IdSpace - 1

VARIABLES ing,          \* ingress threads: at, q, slot, inbox (TCP reply channel)
          txn,          \* TxnSlot.txn of every slot
          route,        \* ReplyRoutes: the client a slot's reply goes to
          queue,        \* PolicyQueue, per slot
          pw,           \* policy workers: at, slot, done (completion), key, out, pool
          lock,         \* holder of a slot mutex across steps
          table,        \* TxnTable.entries
          nextId,       \* TxnTable.next_dns_id
          pending,      \* IoShard.pending
          inflight,     \* PoolInflight.active of the pool
          io,           \* the I/O thread inside complete
          resumeCh,     \* resume_tx / resume_rx
          sent,         \* queries the upstream has received and may still answer
          got,          \* replies each client received
          life,         \* where each query is
          gen           \* generation of the live snapshot

threadVars == <<ing, pw>>
ioVars == <<table, nextId, pending, io, resumeCh, sent>>
clientVars == <<got, life>>
vars == <<freeList, allocated, slotState, ing, txn, route, queue, pw, lock, table,
          nextId, pending, inflight, io, resumeCh, sent, got, life, gen>>

NoTxn == [q |-> NoOne, pool |-> FALSE, tries |-> 0, resp |-> NoOne,
          gen |-> 0, mixed |-> FALSE]
IdleIngress == [at |-> "recv", q |-> NoOne, slot |-> NoOne, inbox |-> NoOne]
IdleWorker == [at |-> "idle", slot |-> NoOne, done |-> NoOne, key |-> NoOne, out |-> NoOne,
               pool |-> FALSE]
IdleIo == [at |-> "idle", key |-> NoOne, slot |-> NoOne, done |-> NoOne]

Init ==
    /\ StoreInit
    /\ ing = [i \in Ingress |-> IdleIngress]
    /\ txn = [s \in SlotId |-> NoTxn]
    /\ route = [s \in SlotId |-> NoOne]
    /\ queue = [s \in SlotId |-> << >>]
    /\ pw = [w \in PolicyWorkers |-> IdleWorker]
    /\ lock = [s \in SlotId |-> NoOne]
    /\ table = [k \in DnsId |-> NoOne]
    /\ nextId = 0
    /\ pending = [k \in DnsId |-> NoOne]
    /\ inflight = 0
    /\ io = IdleIo
    /\ resumeCh = << >>
    /\ sent = {}
    /\ got = [q \in Queries |-> << >>]
    /\ life = [q \in Queries |-> "new"]
    /\ gen = 0

-----------------------------------------------------------------------------
(***************************************************************************)
(* Ingress: receive, acquire, set the transaction up, insert the reply     *)
(* route, push New.  A TCP thread then waits for its reply, 30 s at most.  *)
(***************************************************************************)
IngressAcquire(i, q) ==
    /\ ing[i].at = "recv" /\ life[q] = "new"
    /\ \/ \E id \in SlotId :
             /\ PopFree(id)
             /\ ing' = [ing EXCEPT ![i] = [at |-> "publish", q |-> q, slot |-> id,
                                           inbox |-> NoOne]]
             /\ life' = [life EXCEPT ![q] = "open"]
       \/ /\ Exhausted
          /\ life' = [life EXCEPT ![q] = "shed"]
          /\ UNCHANGED <<storeVars, ing>>
       \/ \* ACL drop or refuse, structural_parse error
          /\ life' = [life EXCEPT ![q] = "rejected"]
          /\ UNCHANGED <<storeVars, ing>>
    /\ UNCHANGED <<txn, route, queue, pw, lock, ioVars, inflight, got, gen>>

IngressPublish(i) ==
    /\ ing[i].at = "publish" /\ lock[ing[i].slot] = NoOne
    /\ PublishIngress(ing[i].slot)
    /\ ing' = [ing EXCEPT ![i].at = "setup"]
    /\ UNCHANGED <<txn, route, queue, pw, lock, ioVars, inflight, clientVars, gen>>

\* with_slot(Ingress): a fresh Transaction; it fails only for a slot that is not
\* in Ingress, and nobody else has the id yet
IngressSetup(i) ==
    /\ ing[i].at = "setup" /\ lock[ing[i].slot] = NoOne
    /\ txn' = [txn EXCEPT ![ing[i].slot] = [NoTxn EXCEPT !.q = ing[i].q]]
    /\ ing' = [ing EXCEPT ![i].at = "route"]
    /\ UNCHANGED <<storeVars, route, queue, pw, lock, ioVars, inflight, clientVars, gen>>

IngressRoute(i) ==
    /\ ing[i].at = "route"
    /\ route' = [route EXCEPT ![ing[i].slot] = [q |-> ing[i].q, via |-> i]]
    /\ ing' = [ing EXCEPT ![i].at = "push"]
    /\ UNCHANGED <<storeVars, txn, queue, pw, lock, ioVars, inflight, clientVars, gen>>

New == [kind |-> "New", done |-> NoOne]
Resume(done) == [kind |-> "Resume", done |-> done]

IngressPush(i) ==
    /\ ing[i].at = "push"
    /\ queue' = [queue EXCEPT ![ing[i].slot] = Append(@, New)]
    /\ ing' = [ing EXCEPT ![i] = IF i \in TcpIngress THEN [@ EXCEPT !.at = "await"]
                                                     ELSE IdleIngress]
    /\ UNCHANGED <<storeVars, txn, route, pw, lock, ioVars, inflight, clientVars, gen>>

\* recv_timeout: the reply, or 30 s (or a disconnected channel) without one
IngressAwait(i) ==
    /\ ing[i].at = "await"
    /\ ing' = [ing EXCEPT ![i] = IdleIngress]
    /\ got' = IF ing[i].inbox = NoOne
                THEN got ELSE [got EXCEPT ![ing[i].q] = Append(@, ing[i].inbox)]
    /\ UNCHANGED <<storeVars, txn, route, queue, pw, lock, ioVars, inflight, life, gen>>

-----------------------------------------------------------------------------
(***************************************************************************)
(* Policy workers: take an item, move the slot to Policy, run the          *)
(* orchestrator under the slot's mutex until it finishes or suspends.      *)
(***************************************************************************)
Step(w, from, to) == pw[w].at = from /\ pw' = [pw EXCEPT ![w].at = to]
Unlocked(w) == lock[pw[w].slot] = NoOne
Txn(w) == txn[pw[w].slot]

Pop(w, s) ==
    /\ pw[w].at = "idle" /\ queue[s] # << >>
    /\ pw' = [pw EXCEPT ![w] = [IdleWorker EXCEPT !.at = Head(queue[s]).kind,
                                                  !.slot = s,
                                                  !.done = Head(queue[s]).done]]
    /\ queue' = [queue EXCEPT ![s] = Tail(@)]
    /\ UNCHANGED <<storeVars, ing, txn, route, lock, ioVars, inflight, clientVars, gen>>

ProcessNew(w) ==
    /\ pw[w].at = "New" /\ Unlocked(w)
    /\ IF slotState[pw[w].slot] = "Ingress"
         THEN SetState(pw[w].slot, "Policy") /\ Step(w, "New", "first")
         ELSE UNCHANGED storeVars /\ Step(w, "New", "clear")
    /\ UNCHANGED <<ing, txn, route, queue, lock, ioVars, inflight, clientVars, gen>>

\* a Resume that finds the slot in any other state is dropped
ProcessResume(w) ==
    /\ pw[w].at = "Resume" /\ Unlocked(w)
    /\ IF slotState[pw[w].slot] = "IoWait"
         THEN /\ SetState(pw[w].slot, "Policy")
              /\ txn' = IF pw[w].done = NoOne
                          THEN txn ELSE [txn EXCEPT ![pw[w].slot].resp = pw[w].done]
              /\ Step(w, "Resume", "again")
         ELSE /\ UNCHANGED <<storeVars, txn>>
              /\ pw' = [pw EXCEPT ![w] = IdleWorker]
    /\ UNCHANGED <<ing, route, queue, lock, ioVars, inflight, clientVars, gen>>

\* run_policy_loop: load the snapshot, lock the slot, enter the orchestrator
RunBegin(w) ==
    /\ pw[w].at \in {"first", "again"} /\ Unlocked(w)
    /\ IF slotState[pw[w].slot] = "Policy"
         THEN /\ lock' = [lock EXCEPT ![pw[w].slot] = w]
              /\ txn' = [txn EXCEPT ![pw[w].slot] =
                           IF pw[w].at = "first" THEN [@ EXCEPT !.gen = gen]
                           ELSE [@ EXCEPT !.mixed = Txn(w).mixed \/ gen # Txn(w).gen]]
              /\ pw' = [pw EXCEPT ![w].at = IF @ = "first" THEN "request" ELSE "response"]
         ELSE UNCHANGED <<lock, txn>> /\ pw' = [pw EXCEPT ![w].at = "readpool"]
    /\ UNCHANGED <<storeVars, ing, route, queue, ioVars, inflight, clientVars, gen>>

\* Send: the response wire if there is one, else an error built from the query
SendWire(w) == IF Txn(w).resp # NoOne THEN Txn(w).resp ELSE Txn(w).q

\* the orchestrator returns Finished and the slot's mutex is released
Finish(w, out) ==
    /\ pw' = [pw EXCEPT ![w].at = IF out = NoOne THEN "readpool" ELSE "deliver",
                        ![w].out = out, ![w].key = NoOne]
    /\ lock' = [lock EXCEPT ![pw[w].slot] = NoOne]

\* Parse and RequestRules, which may set the pool: end here, or go to Lookup
RunRequest(w) ==
    /\ pw[w].at = "request"
    /\ \E p \in BOOLEAN : txn' = [txn EXCEPT ![pw[w].slot].pool = p]
    /\ \/ \E out \in {NoOne, SendWire(w)} : Finish(w, out)
       \/ Step(w, "request", "forward") /\ UNCHANGED lock
    /\ UNCHANGED <<storeVars, ing, route, queue, ioVars, inflight, clientVars, gen>>

\* ResponseRules, or max_txn_duration_ms passed while parked: answer, drop, retry
RunResponse(w) ==
    /\ pw[w].at = "response"
    /\ \/ \E out \in {NoOne, SendWire(w)} : Finish(w, out)
       \/ Step(w, "response", "forward") /\ UNCHANGED lock
    /\ UNCHANGED <<storeVars, ing, txn, route, queue, ioVars, inflight, clientVars, gen>>

Outstanding == Cardinality({k \in DnsId : table[k] # NoOne})

\* register_unique: the first id from next_dns_id on that is not registered
FreeId(k) ==
    LET dist(j) == (j - nextId + IdSpace) % IdSpace
    IN  table[k] = NoOne /\ \A j \in DnsId : table[j] = NoOne => dist(k) <= dist(j)

\* run_forward_chain: the attempt limit, Route, and register_forward_key
RegisterKey(w) ==
    /\ pw[w].at = "forward"
    /\ IF Txn(w).tries >= MaxAttempts
         THEN Finish(w, SendWire(w)) /\ UNCHANGED <<txn, table, nextId>>
         ELSE /\ txn' = [txn EXCEPT ![pw[w].slot].tries = @ + 1,
                                    ![pw[w].slot].pool = TRUE]
              /\ IF Outstanding < Capacity /\ Outstanding < PerBackend
                   THEN \E k \in DnsId :
                          /\ FreeId(k)
                          /\ table' = [table EXCEPT ![k] = pw[w].slot]
                          /\ nextId' = (nextId + 1) % IdSpace
                          /\ pw' = [pw EXCEPT ![w].at = "reserve", ![w].key = k]
                          /\ UNCHANGED lock
                   ELSE Finish(w, SendWire(w)) /\ UNCHANGED <<table, nextId>>
    /\ UNCHANGED <<storeVars, ing, route, queue, pending, io, resumeCh, sent, inflight,
                   clientVars, gen>>

\* PoolInflight::try_acquire
TryAcquire(w) ==
    /\ pw[w].at = "reserve"
    /\ IF inflight < MaxInflight
         THEN inflight' = inflight + 1 /\ Step(w, "reserve", "track")
         ELSE UNCHANGED inflight /\ Step(w, "reserve", "refuse")
    /\ UNCHANGED <<storeVars, ing, txn, route, queue, lock, ioVars, clientVars, gen>>

\* at the cap: table.remove, then SERVFAIL
RefuseAtCap(w) ==
    /\ pw[w].at = "refuse"
    /\ table' = [table EXCEPT ![pw[w].key] = NoOne]
    /\ Finish(w, SendWire(w))
    /\ UNCHANGED <<storeVars, ing, txn, route, queue, nextId, pending, io, resumeCh, sent,
                   inflight, clientVars, gen>>

PoolRelease == IF inflight > 0 THEN inflight - 1 ELSE 0

\* track_pending comes before the send; a TCP-only forward is refused instead
TrackPending(w) ==
    /\ pw[w].at = "track"
    /\ \/ /\ pending' = [pending EXCEPT ![pw[w].key] = pw[w].slot]
          /\ Step(w, "track", "send")
          /\ UNCHANGED inflight
          /\ UNCHANGED <<table, lock>>
       \/ /\ table' = [table EXCEPT ![pw[w].key] = NoOne]
          /\ inflight' = PoolRelease
          /\ Finish(w, SendWire(w))
          /\ UNCHANGED pending
    /\ UNCHANGED <<storeVars, ing, txn, route, queue, nextId, io, resumeCh, sent,
                   clientVars, gen>>

\* send_to: sent, or failed and the reservation is released
SendUpstream(w) ==
    /\ pw[w].at = "send"
    /\ \/ /\ sent' = sent \cup {[id |-> pw[w].key, q |-> Txn(w).q]}
          /\ Step(w, "send", "park")
          /\ UNCHANGED inflight
       \/ /\ inflight' = PoolRelease
          /\ Step(w, "send", "unregister")
          /\ UNCHANGED sent
    /\ UNCHANGED <<storeVars, ing, txn, route, queue, lock, table, nextId, pending, io,
                   resumeCh, clientVars, gen>>

\* Mutant: the key stays in the table.
Unregister_Keeps(w) ==
    /\ Step(w, "unregister", "cancel")
    /\ UNCHANGED <<storeVars, ing, txn, route, queue, lock, ioVars, inflight, clientVars, gen>>

\* servfail: table.remove ...
Unregister(w) ==
    /\ pw[w].at = "unregister"
    /\ table' = [table EXCEPT ![pw[w].key] = NoOne]
    /\ Step(w, "unregister", "cancel")
    /\ UNCHANGED <<storeVars, ing, txn, route, queue, lock, nextId, pending, io, resumeCh,
                   sent, inflight, clientVars, gen>>

\* Mutant: the pending entry of a failed send stays.
CancelPending_Keeps(w) ==
    /\ pw[w].at = "cancel"
    /\ Finish(w, SendWire(w))
    /\ UNCHANGED <<storeVars, ing, txn, route, queue, ioVars, inflight, clientVars, gen>>

\* ... then cancel_pending
CancelPending(w) ==
    /\ pw[w].at = "cancel"
    /\ pending' = [pending EXCEPT ![pw[w].key] = NoOne]
    /\ Finish(w, SendWire(w))
    /\ UNCHANGED <<storeVars, ing, txn, route, queue, table, nextId, io, resumeCh, sent,
                   inflight, clientVars, gen>>

\* Suspended: IoWait is published before the slot's mutex is released
Park(w) ==
    /\ pw[w].at = "park"
    /\ SetState(pw[w].slot, "IoWait")
    /\ lock' = [lock EXCEPT ![pw[w].slot] = NoOne]
    /\ pw' = [pw EXCEPT ![w] = IdleWorker]
    /\ UNCHANGED <<ing, txn, route, queue, ioVars, inflight, clientVars, gen>>

\* deliver_reply: take the route; a TCP thread that gave up has dropped its channel
DeliverReply(w) ==
    /\ pw[w].at = "deliver"
    /\ LET to == route[pw[w].slot]
       IN  IF to = NoOne
             THEN UNCHANGED <<ing, got>>
           ELSE IF to.via \in UdpIngress
             THEN got' = [got EXCEPT ![to.q] = Append(@, pw[w].out)] /\ UNCHANGED ing
             ELSE /\ ing' = IF ing[to.via].q = to.q
                              THEN [ing EXCEPT ![to.via].inbox = pw[w].out] ELSE ing
                  /\ UNCHANGED got
    /\ route' = [route EXCEPT ![pw[w].slot] = NoOne]
    /\ Step(w, "deliver", "readpool")
    /\ UNCHANGED <<storeVars, txn, queue, lock, ioVars, inflight, life, gen>>

\* release_slot: note the pool, release_active, then release the reservation
ReadPool(w) ==
    /\ pw[w].at = "readpool" /\ Unlocked(w)
    /\ LET held == slotState[pw[w].slot] \in {"Policy", "IoWait"} /\ Txn(w).pool
       IN  pw' = [pw EXCEPT ![w].at = "clear", ![w].pool = held]
    /\ UNCHANGED <<storeVars, ing, txn, route, queue, lock, ioVars, inflight, clientVars, gen>>

ReleaseClear(w) ==
    /\ pw[w].at = "clear" /\ Unlocked(w)
    /\ ClearSlot(pw[w].slot)
    /\ txn' = [txn EXCEPT ![pw[w].slot] = NoTxn]
    /\ life' = [life EXCEPT ![Txn(w).q] = "done"]
    /\ pw' = [pw EXCEPT ![w].at = IF ShouldReturn(pw[w].slot) THEN "return" ELSE "unreserve"]
    /\ UNCHANGED <<ing, route, queue, lock, ioVars, inflight, got, gen>>

ReleaseReturn(w) ==
    /\ pw[w].at = "return"
    /\ ReturnToFree(pw[w].slot)
    /\ Step(w, "return", "unreserve")
    /\ UNCHANGED <<ing, txn, route, queue, lock, ioVars, inflight, clientVars, gen>>

ReleasePool(w) ==
    /\ pw[w].at = "unreserve"
    /\ inflight' = IF pw[w].pool THEN PoolRelease ELSE inflight
    /\ pw' = [pw EXCEPT ![w] = IdleWorker]
    /\ UNCHANGED <<storeVars, ing, txn, route, queue, lock, ioVars, clientVars, gen>>

-----------------------------------------------------------------------------
(***************************************************************************)
(* The I/O thread: IoShard::complete for a reply or an expired deadline.   *)
(***************************************************************************)
IoComplete(k, done) ==
    /\ io.at = "idle" /\ pending[k] # NoOne
    /\ io' = [at |-> "table", key |-> k, slot |-> pending[k], done |-> done]
    /\ pending' = [pending EXCEPT ![k] = NoOne]
    /\ UNCHANGED <<storeVars, threadVars, txn, route, queue, lock, table, nextId, inflight,
                   resumeCh, sent, clientVars, gen>>

\* Mutant: a reply completes any pending forward.
HandleReply_AnyId(m) == m \in sent /\ \E k \in DnsId : IoComplete(k, m.q)

\* Replies are late, lost, reordered or duplicated; an unmatched one is ignored.
HandleReply(m) == m \in sent /\ IoComplete(m.id, m.q)

\* the upstream has answered for the last time, or never will
UpstreamDone(m) ==
    /\ sent' = sent \ {m}
    /\ UNCHANGED <<storeVars, threadVars, txn, route, queue, lock, table, nextId, pending,
                   inflight, io, resumeCh, clientVars, gen>>

(***************************************************************************)
(* The deadline is set by track_pending; send_to is assumed to return      *)
(* within forward.timeout_ms of it.                                        *)
(***************************************************************************)
SubmitWithinTimeout(k) ==
    \A w \in PolicyWorkers :
        pw[w].key = k => pw[w].at \notin {"send", "unregister", "cancel"}

PollTimeouts(k) == SubmitWithinTimeout(k) /\ IoComplete(k, NoOne)

IoTableRemove ==
    /\ io.at = "table"
    /\ table' = [table EXCEPT ![io.key] = NoOne]
    /\ io' = [io EXCEPT !.at = "resume"]
    /\ UNCHANGED <<storeVars, threadVars, txn, route, queue, lock, nextId, pending, inflight,
                   resumeCh, sent, clientVars, gen>>

\* Mutant: a timeout is not reported to the policy workers.
IoSendResume_OnlyReplies ==
    /\ io.at = "resume"
    /\ resumeCh' = IF io.done = NoOne
                     THEN resumeCh
                     ELSE Append(resumeCh, [slot |-> io.slot, done |-> io.done])
    /\ io' = IdleIo
    /\ UNCHANGED <<storeVars, threadVars, txn, route, queue, lock, table, nextId, pending,
                   inflight, sent, clientVars, gen>>

IoSendResume ==
    /\ io.at = "resume"
    /\ resumeCh' = Append(resumeCh, [slot |-> io.slot, done |-> io.done])
    /\ io' = IdleIo
    /\ UNCHANGED <<storeVars, threadVars, txn, route, queue, lock, table, nextId, pending,
                   inflight, sent, clientVars, gen>>

\* the forwarder thread of start_split_io
ForwardResume ==
    /\ resumeCh # << >>
    /\ LET r == Head(resumeCh)
       IN  queue' = [queue EXCEPT ![r.slot] = Append(@, Resume(r.done))]
    /\ resumeCh' = Tail(resumeCh)
    /\ UNCHANGED <<storeVars, threadVars, txn, route, lock, table, nextId, pending, inflight,
                   io, sent, clientVars, gen>>

\* the control plane installs a new snapshot
Reload ==
    /\ gen < MaxGen
    /\ gen' = gen + 1
    /\ UNCHANGED <<storeVars, threadVars, txn, route, queue, lock, ioVars, inflight, clientVars>>

-----------------------------------------------------------------------------
IngressStep(i) ==
    IngressPublish(i) \/ IngressSetup(i) \/ IngressRoute(i) \/ IngressPush(i) \/ IngressAwait(i)

PolicyStep(w) ==
    \/ \E s \in SlotId : Pop(w, s)
    \/ ProcessNew(w) \/ ProcessResume(w) \/ RunBegin(w) \/ RunRequest(w) \/ RunResponse(w)
    \/ RegisterKey(w) \/ TryAcquire(w) \/ RefuseAtCap(w) \/ TrackPending(w)
    \/ SendUpstream(w) \/ Unregister(w) \/ CancelPending(w) \/ Park(w) \/ DeliverReply(w)
    \/ ReadPool(w) \/ ReleaseClear(w) \/ ReleaseReturn(w) \/ ReleasePool(w)

IoStep == IoTableRemove \/ IoSendResume

Next ==
    \/ \E i \in Ingress : IngressStep(i) \/ \E q \in Queries : IngressAcquire(i, q)
    \/ \E w \in PolicyWorkers : PolicyStep(w)
    \/ \E m \in sent : HandleReply(m) \/ UpstreamDone(m)
    \/ \E k \in DnsId : PollTimeouts(k)
    \/ IoStep \/ ForwardResume \/ Reload

(***************************************************************************)
(* Threads are scheduled, deadlines pass; replies and reloads need not     *)
(* come.                                                                   *)
(***************************************************************************)
Fairness ==
    /\ \A i \in Ingress : WF_vars(IngressStep(i))
    /\ \A w \in PolicyWorkers : WF_vars(PolicyStep(w))
    /\ \A k \in DnsId : WF_vars(PollTimeouts(k))
    /\ WF_vars(IoStep) /\ WF_vars(ForwardResume)

Spec == Init /\ [][Next]_vars

FairSpec == Spec /\ Fairness

-----------------------------------------------------------------------------
\* What may still wake a parked slot: a pending entry, the I/O thread, a
\* resume in the channel or the queue, a worker that popped it.
WakeSources(s) ==
    {<<"pending", k>> : k \in {j \in DnsId : pending[j] = s}}
      \cup {<<"complete", k>> : k \in {j \in {io.key} : io.at # "idle" /\ io.slot = s}}
      \cup {<<"channel", n>> : n \in {m \in 1 .. Len(resumeCh) : resumeCh[m].slot = s}}
      \cup {<<"queue", n>> : n \in {m \in 1 .. Len(queue[s]) : queue[s][m].kind = "Resume"}}
      \cup {<<"worker", w>> : w \in {v \in PolicyWorkers : pw[v].at = "Resume" /\ pw[v].slot = s}}

(***************************************************************************)
(* A parked slot has exactly one wake source, and a slot that is not       *)
(* parked has none unless its worker is between track_pending and the end  *)
(* of the submit: no resume is lost, and none is left over for the next    *)
(* query of the slot (policy.rs, process_resume; SlotId has no generation).*)
(***************************************************************************)
OneWakePerPark ==
    \A s \in SlotId :
        /\ slotState[s] = "IoWait" => \E x \in WakeSources(s) : WakeSources(s) = {x}
        /\ WakeSources(s) # {} =>
              \/ slotState[s] = "IoWait" /\ lock[s] = NoOne
              \/ \E w \in PolicyWorkers :
                    /\ pw[w].slot = s /\ lock[s] = w
                    /\ pw[w].at \in {"send", "park", "unregister", "cancel"}

(***************************************************************************)
(* A client gets at most one reply, and it answers the query it asked,     *)
(* whatever replies are late or duplicated and however slots, ids and      *)
(* reply routes are reused (queue.rs ReplyRoutes, io_backend.rs).          *)
(***************************************************************************)
RepliesAreRight ==
    \A q \in Queries : Len(got[q]) <= 1 /\ \A i \in 1 .. Len(got[q]) : got[q][i] = q

(***************************************************************************)
(* A registered upstream id belongs to a submit in progress, a pending     *)
(* forward or the completion of one, so the table never fills up with      *)
(* entries nobody will remove (txn_table.rs).                              *)
(***************************************************************************)
NoTableLeak ==
    \A k \in DnsId : table[k] # NoOne =>
        \/ pending[k] = table[k]
        \/ io.at = "table" /\ io.key = k
        \/ \E w \in PolicyWorkers :
              pw[w].key = k /\ pw[w].at \in {"reserve", "refuse", "track", "unregister"}

\* Every admitted query leaves its slot (no slot is parked for ever).
EveryQueryEnds == \A q \in Queries : life[q] = "open" ~> life[q] = "done"

(***************************************************************************)
(* reference/config-schema/pools.md:46 of the operator docs: max_inflight  *)
(* bounds how many transactions may be "forwarding to this pool at once".  *)
(* A transaction is forwarding while it is parked for an upstream answer   *)
(* that is still outstanding.                                              *)
(***************************************************************************)
InflightBounded ==
    Cardinality({s \in SlotId : slotState[s] = "IoWait" /\ \E k \in DnsId : pending[k] = s})
        <= MaxInflight

(***************************************************************************)
(* reference/config-schema/pools.md:49: "The reserved slot is released     *)
(* when the upstream replies, times out, or errors."  When no query is in  *)
(* the dataplane, nothing is reserved.                                     *)
(***************************************************************************)
NothingReservedWhenIdle ==
    (InUse = {} /\ \A w \in PolicyWorkers : pw[w] = IdleWorker) => inflight = 0

(***************************************************************************)
(* concepts/architecture-and-packet-path.md:282: "Queries already in       *)
(* flight keep using the settings they started with".                      *)
(***************************************************************************)
SnapshotPinned == \A s \in SlotId : ~txn[s].mixed
=============================================================================
