------------------------------ MODULE Pipeline ------------------------------
(***************************************************************************)
(* One query worker from the listener to the reply: client ACL gate,       *)
(* Parse, RequestRules, Lookup (cache, Route, Forward, WaitResponse),      *)
(* ResponseRules and Send, under a snapshot that reloads between queries   *)
(* and, in the split_io runtime, while a forward is pending.               *)
(*                                                                         *)
(* One query is in the pipeline at a time; what concurrent transactions do *)
(* to each other (slots, the demux table, single flight) is in SplitIo,    *)
(* SyncRuntime and CacheFlight.  A response wire is the record of          *)
(* UdpTruncate with the question it answers (for) and its rcode.           *)
(***************************************************************************)
EXTENDS PolicyRules, UdpTruncate, TLC

CONSTANTS
    Queries,        \* client datagrams, see Txn below for the fields
    Configs,        \* configurations a reload may install, by name
    Replies,        \* shapes of upstream replies
    Slow,           \* backends with a low latency factor
    Listener,       \* the listener this worker serves
    Loads,          \* data_sources to load: [sources, disk, block], see DataSources
    Keys, Addresses,    \* keys and addresses looked up in them
    Bytes(_), Defaults, \* cell lengths and built-in limits of DataSources
    MaxQueries,     \* bound: datagrams received
    MaxInbox,       \* bound: upstream datagrams waiting on the egress sockets
    RrPeriod,       \* bound: round-robin positions, a common multiple of the source list lengths
    MaxEvents       \* bound: snapshot swaps, health transitions and cache expiries

R == INSTANCE Routing
A == INSTANCE ClientAcl WITH InView <- InTable
D == INSTANCE DataSources

VARIABLES
    runtime,    \* "sync" or "split"
    snap,       \* SnapshotStore: [generation, config]
    pin,        \* the Arc<RuntimeSnapshot> the running transaction holds
    gate,       \* AclGate: [generation, compiled]
    txn,        \* the transaction in the pipeline, or None
    nextId,     \* next_id of the worker
    table,      \* health side table: <<pool, backend>> -> [up, factor]
    cache,      \* qname -> stored wire or None
    start,      \* the configuration ForwardTransport and its egress were built from
    rr,         \* WorkerForwardEgress.rr_index
    owed,       \* upstream queries a backend may still answer: [for, sock]
    inbox,      \* datagrams waiting on the worker's egress sockets: [sock, wire]
    served,     \* how the last datagram ended
    events      \* snapshot swaps, health transitions and cache expiries so far

vars == <<runtime, snap, pin, gate, txn, nextId, table, cache, start, rr, owed, inbox, served, events>>

Start == Configs[start]

----------------------------------------------------------------------------
(* Transactions.                                                           *)

\* Transaction::new and apply_parsed_query; q brings client, proto, limit and
\* the question's fields.
NewTransaction(q, id, tag) ==
    q @@ [ id |-> id, index |-> id, phase |-> "Parse", late |-> FALSE,
           tags |-> [flags |-> IF tag = None THEN {} ELSE {tag}, strings |-> {}],
           pool |-> None, backend |-> None, attempts |-> <<>>, retryPool |-> None,
           rcode |-> None, wire |-> None, softDrop |-> FALSE, src |-> None, retrySrc |-> None,
           cacheOk |-> TRUE, fill |-> FALSE, socks |-> <<>>,
           answer_source |-> None, cache_instance |-> None ]

AttemptCount(t) == Len(t.attempts)

RecordAttempt(t, pool, b) ==
    [t EXCEPT !.attempts = Append(@, <<pool, b>>), !.pool = pool, !.backend = b]

RecordUpstreamResponse(t, wire) == [t EXCEPT !.rcode = wire.rcode]

\* The one-shot retry override on a retry forward, else the standing one.
EffectiveSource(t) == IF AttemptCount(t) > 1 /\ t.retrySrc # None THEN t.retrySrc ELSE t.src
TakeSource(t) == IF AttemptCount(t) > 1 THEN [t EXCEPT !.retrySrc = None] ELSE t

ErrorWire(t) ==
    [ for |-> t.qname, rcode |-> IF t.rcode = None THEN "SERVFAIL" ELSE t.rcode, fixed |-> 1,
      answers |-> <<>>, authority |-> 0, additional |-> 0, tc |-> FALSE, clipped |-> FALSE ]

----------------------------------------------------------------------------
(* Egress sources.  Each source address has its own socket; a source that  *)
(* was not bound at start falls back to the default socket.                *)

\* sources_for_pool, and round_robin's fallback to the sources of the start.
SourcesForPool(c, pool) ==
    CASE pool \in DOMAIN c.poolSources /\ c.poolSources[pool] # <<>> -> c.poolSources[pool]
      [] ~(pool \in DOMAIN c.poolSources /\ c.poolSources[pool] # <<>>) /\ c.sources # <<>> -> c.sources
      [] OTHER -> Start.sources

AllowedSourcesForPool(c, pool) ==
    ToSet(c.sources) \cup (IF pool \in DOMAIN c.poolSources THEN ToSet(c.poolSources[pool]) ELSE {})

Overridden(c, t) ==
    LET o == EffectiveSource(t) IN o # None /\ o \in AllowedSourcesForPool(c, t.pool)

\* The source of one call of select_source at round-robin position index.
SelectSource(c, t, index) ==
    IF Overridden(c, t) THEN EffectiveSource(t)
    ELSE IF SourcesForPool(c, t.pool) = <<>> THEN "unspecified"
    ELSE SourcesForPool(c, t.pool)[(index % Len(SourcesForPool(c, t.pool))) + 1]

\* How far one such call advances the index.
RoundRobinStep(c, t) ==
    IF Overridden(c, t) \/ SourcesForPool(c, t.pool) = <<>> THEN 0 ELSE 1

\* udp_socket_for: an address without a socket uses the default socket.
EgressBindAddresses(c) ==
    ToSet(c.sources) \cup UNION {ToSet(c.poolSources[p]) : p \in DOMAIN c.poolSources}
SocketFor(source) == IF source \in EgressBindAddresses(Start) THEN source ELSE "unspecified"

----------------------------------------------------------------------------
(* The listener.                                                           *)

\* The listener's own block, by bind identity; a listener that a reload removed
\* inherits the global one.
ListenerAclsFromSnap(c) == IF Listener \in DOMAIN c.listeners THEN c.listeners[Listener] ELSE None

\* AclGate::refresh: recompile when the snapshot generation changed.
Refresh(g, s) ==
    IF g.generation = s.generation THEN g
    ELSE [ generation |-> s.generation,
           compiled |-> A!CompileEffective(Configs[s.config].acls, ListenerAclsFromSnap(Configs[s.config])) ]

Served(q, act, why, wire) ==
    [q |-> q, id |-> nextId, snap |-> snap.config, act |-> act, why |-> why, wire |-> wire]

Idle == txn = None

\* run_worker: load the snapshot, tier 0, structural parse, tier 1, and a new
\* transaction for what is left.
Receive(q) ==
    /\ Idle
    /\ nextId <= MaxQueries
    /\ nextId' = nextId + 1
    /\ \E g \in {Refresh(gate, snap)} : \E tier0 \in {A!EvaluatePreadmission(g.compiled, q.client)},
                                          tier1 \in {A!EvaluateFull(g.compiled, q.client)} :
          /\ gate' = g
          /\ \/ /\ tier0.act = "drop"
                /\ served' = Served(q, "drop", "acl", None)
                /\ UNCHANGED <<txn, pin>>
             \/ /\ tier0.act # "drop"
                /\ q.form # "query"
                /\ served' = Served(q, "reject", q.form, None)
                /\ UNCHANGED <<txn, pin>>
             \/ /\ tier0.act # "drop"
                /\ q.form = "query"
                /\ tier1.act \in {"drop", "refuse"}
                /\ served' = Served(q, tier1.act, "acl", None)
                /\ UNCHANGED <<txn, pin>>
             \/ /\ tier0.act # "drop"
                /\ q.form = "query"
                /\ tier1.act \in {"admit", "tag"}
                /\ txn' = NewTransaction(q, nextId, tier1.tag)
                /\ pin' = snap
                /\ served' = Served(q, tier1.act, "running", None)
    /\ UNCHANGED <<runtime, snap, table, cache, start, rr, owed, inbox, events>>

----------------------------------------------------------------------------
(* run_loop.  Every iteration first looks at the transaction deadline.     *)

Config == Configs[pin.config]

\* A plausible slip: the stages run on after the deadline.
At_IgnoresDeadline(phase) == ~Idle /\ txn.phase = phase

At(phase) == ~Idle /\ txn.phase = phase /\ ~txn.late

Continue(t, phase) == txn' = [t EXCEPT !.phase = phase]

Servfail(t) == [t EXCEPT !.rcode = "SERVFAIL", !.phase = "Send"]

End(why, wire) ==
    /\ txn' = None
    /\ pin' = None
    /\ served' = [served EXCEPT !.why = why, !.wire = wire]

\* The phases whose loop iteration begins with the deadline check, Send
\* excepted; in the others a passing deadline is not noticed.
Checked == {"Parse", "RequestRules", "Lookup", "Resume", "ResponseRules"}

DeadlinePasses ==
    /\ ~Idle /\ ~txn.late
    /\ txn.phase \in Checked \cup {"Send"}
    /\ txn' = [txn EXCEPT !.late = TRUE]
    /\ UNCHANGED <<runtime, snap, pin, gate, nextId, table, cache, start, rr, owed, inbox,
                   served, events>>

\* A plausible slip: a transaction past its deadline is abandoned.
DeadlineExceeded_Abandons ==
    /\ ~Idle /\ txn.late
    /\ txn.phase \in Checked
    /\ End("deadline", None)
    /\ UNCHANGED <<runtime, snap, gate, nextId, table, cache, start, rr, owed, inbox, events>>

DeadlineExceeded ==
    /\ ~Idle /\ txn.late
    /\ txn.phase \in Checked
    /\ txn' = Servfail(txn)
    /\ UNCHANGED <<runtime, snap, pin, gate, nextId, table, cache, start, rr, owed, inbox,
                   served, events>>

ParseStage ==
    /\ At("Parse")
    /\ Continue(txn, "RequestRules")
    /\ UNCHANGED <<runtime, snap, pin, gate, nextId, table, cache, start, rr, owed, inbox,
                   served, events>>

RequestRulesStage ==
    /\ At("RequestRules")
    /\ \E r \in {Eval("request", Config.rules, txn)} :
          \/ /\ r.outcome = "Drop"
             /\ End("request", None)
          \/ /\ r.outcome # "Drop"
             /\ Continue(r.t, "Lookup")
             /\ UNCHANGED <<pin, served>>
    /\ UNCHANGED <<runtime, snap, gate, nextId, table, cache, start, rr, owed, inbox, events>>

ResponseRulesStage ==
    /\ At("ResponseRules")
    /\ \E r \in {Eval("response", Config.rules, txn)} :
          \/ /\ r.outcome = "Drop"
             /\ End("response", None)
          \/ /\ r.outcome = "Retry"
             /\ Continue(r.t, "Lookup")
             /\ UNCHANGED <<pin, served>>
          \/ /\ r.outcome = "Continue"
             /\ Continue(r.t, "Send")
             /\ UNCHANGED <<pin, served>>
    /\ UNCHANGED <<runtime, snap, gate, nextId, table, cache, start, rr, owed, inbox, events>>

\* Send serves the stored wire, cut to the client's limit on UDP, and builds
\* an error from the rcode only when there is none.
Reply(t, wire) ==
    (IF t.proto = "udp" \/ t.wire = None THEN TruncateUdp(wire, t.limit) ELSE wire)
        @@ [full |-> wire]

SendStage ==
    /\ ~Idle /\ txn.phase = "Send"
    /\ \E t \in {IF txn.late THEN Servfail(txn) ELSE txn} :
          End("answered", Reply(t, IF t.wire # None THEN t.wire ELSE ErrorWire(t)))
    /\ UNCHANGED <<runtime, snap, gate, nextId, table, cache, start, rr, owed, inbox, events>>

----------------------------------------------------------------------------
(* The Lookup stage: the providers of the profile in order.                *)

CacheTried == "cache" \in ToSet(Config.providers) /\ txn.cacheOk
CacheHit == CacheTried /\ cache[txn.qname] # None
Forwards == "forward" \in ToSet(Config.providers)

\* apply_cache_hit.
LookupHit ==
    /\ At("Lookup") /\ CacheHit
    /\ Continue([RecordUpstreamResponse(txn, cache[txn.qname])
                   EXCEPT !.wire = cache[txn.qname], !.answer_source = "cache",
                          !.cache_instance = "main"],
                IF Config.skipResponseRules THEN "Send" ELSE "ResponseRules")
    /\ UNCHANGED <<runtime, snap, pin, gate, nextId, table, cache, start, rr, owed, inbox,
                   served, events>>

\* No provider answered: a profile without forward, after a miss or a bypass.
LookupMiss ==
    /\ At("Lookup") /\ ~CacheHit /\ ~Forwards
    /\ Continue([txn EXCEPT !.fill = @ \/ CacheTried], "ResponseRules")
    /\ UNCHANGED <<runtime, snap, pin, gate, nextId, table, cache, start, rr, owed, inbox,
                   served, events>>

\* run_forward_chain up to Route: the transaction as Route leaves it.
ForwardEntry == [txn EXCEPT !.cacheOk = FALSE, !.fill = @ \/ CacheTried]

RoutePool(t) ==
    LET first == IF AttemptCount(t) > 0 /\ t.retryPool # None THEN t.retryPool ELSE t.pool
    IN IF first # None THEN first ELSE R!DefaultPoolName(Config.pools, Config.order)

Attempt(t, pool, b) ==
    IF b = None THEN Servfail(t) ELSE [RecordAttempt(t, pool, b) EXCEPT !.phase = "Forward"]

RouteStage(t) ==
    Attempt(IF AttemptCount(t) > 0 THEN [t EXCEPT !.retryPool = None] ELSE t, RoutePool(t),
            R!SelectBackend(Config.pools, RoutePool(t), t.id, pin.generation, table, t.attempts))

\* A plausible slip: the attempt limit is checked after one attempt too many.
LimitReached_OffByOne(t) == AttemptCount(t) > Config.maxAttempts

LimitReached(t) == AttemptCount(t) >= Config.maxAttempts

\* The transport settings are those of the start; a reload does not change them.
UseTcp(t) == Start.transport = "tcp_only" \/ (Start.clientTcp /\ t.proto = "tcp")

\* handle_sync: the source is selected once for a TCP bind and, for UDP, once
\* more for the socket.
SendUdpSync(t) ==
    LET step == RoundRobinStep(Config, t)
        source == SelectSource(Config, t, rr + step)
    IN /\ rr' = (rr + 2 * step) % RrPeriod
       /\ owed' = owed \cup {[for |-> t.qname, sock |-> SocketFor(source)]}
       /\ txn' = [TakeSource(t) EXCEPT !.phase = "Recv", !.socks = Append(@, source)]

SendTcpSync(t) ==
    /\ rr' = (rr + RoundRobinStep(Config, t)) % RrPeriod
    /\ owed' = owed
    /\ txn' = [TakeSource(t) EXCEPT !.phase = "Tcp",
                                    !.socks = Append(@, SelectSource(Config, t, rr))]

\* handle_submit: register, track, send and suspend; no TCP.
Submit(t) ==
    /\ owed' = owed
    /\ \/ /\ UseTcp(t)
          /\ txn' = Servfail(t)
          /\ rr' = rr
       \/ /\ ~UseTcp(t)
          /\ rr' = (rr + RoundRobinStep(Config, t)) % RrPeriod
          /\ txn' = [TakeSource(t) EXCEPT !.phase = "Wait",
                                          !.socks = Append(@, SelectSource(Config, t, rr))]

\* No upstream id or pool permit is to be had, or, after the source was taken
\* and selected, the send fails.
ForwardFails(t) ==
    /\ owed' = owed
    /\ \/ /\ txn' = Servfail(t)
          /\ rr' = rr
       \/ /\ ~UseTcp(t)
          /\ txn' = Servfail(TakeSource(t))
          /\ rr' = (rr + (IF runtime = "sync" THEN 2 ELSE 1) * RoundRobinStep(Config, t)) % RrPeriod

LookupForward ==
    /\ At("Lookup") /\ ~CacheHit /\ Forwards
    /\ \/ /\ LimitReached(txn)
          /\ txn' = Servfail(ForwardEntry)
          /\ UNCHANGED <<rr, owed>>
       \/ /\ ~LimitReached(txn)
          /\ \E t \in {RouteStage(ForwardEntry)} :
                \/ /\ t.phase = "Send"
                   /\ txn' = t
                   /\ UNCHANGED <<rr, owed>>
                \/ /\ t.phase = "Forward"
                   /\ \/ runtime = "sync" /\ ~UseTcp(t) /\ SendUdpSync(t)
                      \/ runtime = "sync" /\ UseTcp(t) /\ SendTcpSync(t)
                      \/ runtime = "split" /\ Submit(t)
                      \/ ForwardFails(t)
    /\ UNCHANGED <<runtime, snap, pin, gate, nextId, table, cache, start, inbox, served, events>>

----------------------------------------------------------------------------
(* The end of a forward.                                                   *)

Cacheable(w) == ~w.tc /\ (w.rcode = "SERVFAIL" => Config.cacheServfail)

\* finish_forward_answer: the wait stage, then the cache fill.
FinishForwardAnswer(t) ==
    LET r == IF t.wire # None THEN RecordUpstreamResponse(t, t.wire) ELSE t
    IN /\ txn' = [r EXCEPT !.fill = FALSE, !.answer_source = "forward",
                           !.cache_instance = None, !.phase = "ResponseRules"]
       /\ cache' = IF t.fill /\ t.wire # None /\ Cacheable(t.wire)
                   THEN [cache EXCEPT ![t.qname] = t.wire] ELSE cache

\* finish_response of the sync runtime.
FinishResponse(wire) ==
    FinishForwardAnswer([RecordUpstreamResponse(txn, wire)
                           EXCEPT !.wire = wire])

Socket == SocketFor(Last(txn.socks))
Waiting == {i \in DOMAIN inbox : inbox[i].sock = Socket}

\* recv_from takes the oldest datagram of the socket, whatever it answers.
RecvReply ==
    LET i == CHOOSE i \in Waiting : \A j \in Waiting : i <= j
        wire == inbox[i].wire
    IN /\ ~Idle /\ txn.phase = "Recv" /\ Waiting # {}
       /\ inbox' = RemoveAt(inbox, i)
       /\ \/ /\ wire.tc /\ Start.transport = "prefer" /\ txn.backend \in Config.v4
             /\ Continue([txn EXCEPT !.wire = wire], "TcpFallback")
             /\ cache' = cache
          \/ /\ ~(wire.tc /\ Start.transport = "prefer" /\ txn.backend \in Config.v4)
             /\ FinishResponse(wire)
       /\ UNCHANGED <<runtime, snap, pin, gate, nextId, table, start, rr, owed, served, events>>

RecvTimeout ==
    /\ ~Idle /\ txn.phase = "Recv" /\ Waiting = {}
    /\ FinishForwardAnswer([txn EXCEPT !.rcode = "SERVFAIL"])
    /\ UNCHANGED <<runtime, snap, pin, gate, nextId, table, start, rr, owed, inbox, served, events>>

\* forward_tcp reads the answer of the stream it wrote the query to.
TcpReply(shape) ==
    /\ ~Idle /\ txn.phase \in {"Tcp", "TcpFallback"}
    /\ FinishResponse(shape @@ [for |-> txn.qname])
    /\ UNCHANGED <<runtime, snap, pin, gate, nextId, table, start, rr, owed, inbox, served, events>>

TcpFails ==
    /\ ~Idle
    /\ \/ /\ txn.phase = "Tcp"
          /\ txn' = Servfail(txn)
          /\ cache' = cache
       \/ /\ txn.phase = "TcpFallback"
          /\ FinishResponse(txn.wire)
    /\ UNCHANGED <<runtime, snap, pin, gate, nextId, table, start, rr, owed, inbox, served, events>>

\* apply_wait_completion, on the demuxed reply or on the timeout.
WaitReply(shape) ==
    /\ ~Idle /\ txn.phase = "Wait"
    /\ Continue([txn EXCEPT !.wire = shape @@ [for |-> txn.qname]], "Resume")
    /\ UNCHANGED <<runtime, snap, pin, gate, nextId, table, cache, start, rr, owed, inbox,
                   served, events>>

WaitTimeout ==
    /\ ~Idle /\ txn.phase = "Wait"
    /\ Continue([txn EXCEPT !.rcode = "SERVFAIL"], "Resume")
    /\ UNCHANGED <<runtime, snap, pin, gate, nextId, table, cache, start, rr, owed, inbox,
                   served, events>>

\* resume_after_suspend with the snapshot of that moment.
ResumeLookup ==
    /\ At("Resume")
    /\ pin' = snap
    /\ FinishForwardAnswer(txn)
    /\ UNCHANGED <<runtime, snap, gate, nextId, table, start, rr, owed, inbox, served, events>>

----------------------------------------------------------------------------
(* The environment: backends, reloads, health transitions, cache expiry.   *)

\* The worker reads snapshot, health table and cache only when it is idle, in
\* Lookup and after a wait: elsewhere an event commutes with its steps.
Event ==
    /\ events < MaxEvents
    /\ events' = events + 1
    /\ ~Idle => txn.phase \in {"Lookup", "Recv", "Wait", "Resume"}

\* A backend answers a query, perhaps long after the worker gave it up.
BackendReplies(o, shape) ==
    /\ Len(inbox) < MaxInbox
    /\ owed' = owed \ {o}
    /\ inbox' = Append(inbox, [sock |-> o.sock, wire |-> shape @@ [for |-> o.for]])
    /\ UNCHANGED <<runtime, snap, pin, gate, txn, nextId, table, cache, start, rr, served, events>>

\* SnapshotStore::try_swap as the worker sees it.
Reload(c) ==
    /\ Event
    /\ snap' = [generation |-> snap.generation + 1, config |-> c]
    /\ UNCHANGED <<runtime, pin, gate, txn, nextId, table, cache, start, rr, owed, inbox, served>>

HealthChanges(k) ==
    /\ Event
    /\ table' = [table EXCEPT ![k].up = ~@]
    /\ UNCHANGED <<runtime, snap, pin, gate, txn, nextId, cache, start, rr, owed, inbox, served>>

Expire(name) ==
    /\ Event
    /\ cache[name] # None
    /\ cache' = [cache EXCEPT ![name] = None]
    /\ UNCHANGED <<runtime, snap, pin, gate, txn, nextId, table, start, rr, owed, inbox, served>>

Names == {q.qname : q \in Queries}
NoOneServed == [q |-> None, id |-> 0, snap |-> None, act |-> "none", why |-> "none", wire |-> None]

Reconciled(c) ==
    UNION {{p} \X ToSet(c.pools[p].members) : p \in {x \in DOMAIN c.pools : c.pools[x].health # None}}

Init ==
    /\ runtime \in {"sync", "split"}
    /\ snap \in {[generation |-> 1, config |-> c] : c \in DOMAIN Configs}
    /\ pin = None
    /\ gate = [generation |-> None, compiled |-> None]
    /\ txn = None
    /\ nextId = 1
    /\ table = [k \in Reconciled(Configs[snap.config]) |->
                  [up |-> TRUE, factor |-> IF k[2] \in Slow THEN 1 ELSE 4]]
    /\ cache = [n \in Names |-> None]
    /\ start = snap.config
    /\ rr = 0
    /\ owed = {}
    /\ inbox = <<>>
    /\ served = NoOneServed
    /\ events = 0

Worker ==
    \/ DeadlineExceeded \/ ParseStage \/ RequestRulesStage \/ ResponseRulesStage \/ SendStage
    \/ LookupHit \/ LookupMiss \/ LookupForward
    \/ RecvReply \/ RecvTimeout \/ TcpFails \/ WaitTimeout \/ ResumeLookup
    \/ \E shape \in Replies : TcpReply(shape)

Environment ==
    \/ \E q \in Queries : Receive(q)
    \/ \E shape \in Replies : WaitReply(shape)
    \/ \E o \in owed, shape \in Replies : BackendReplies(o, shape)
    \/ \E c \in DOMAIN Configs : Reload(c)
    \/ \E k \in DOMAIN table : HealthChanges(k)
    \/ \E n \in Names : Expire(n)

Next == Worker \/ DeadlinePasses \/ Environment

\* The running transaction moves on: what each step of Worker and WaitReply
\* does, and no other step.
Advance == ~Idle /\ (txn' = None \/ txn'.phase # txn.phase)

\* The worker thread runs, receive and connect calls time out, and time passes.
\* A step of Worker is enabled unless Idle, so the first conjunct is weak
\* fairness of Worker \/ WaitReply.
Fairness == ([]<>Idle \/ []<><<Advance>>_vars) /\ WF_vars(DeadlinePasses)

Spec == Init /\ [][Next]_vars /\ Fairness

----------------------------------------------------------------------------
(* Properties.                                                             *)

\* A transaction never forwards more often than orchestrator.max_attempts
\* allows (of its one snapshot in the sync runtime, of one of the snapshots
\* installed in split_io), and never twice to the same backend of a pool, across
\* response-rule retries, retry pools, health changes and reloads
\* (run_forward_chain, tried_backends_in_pool).  It leaves from an address the
\* configuration allows for its pool, or from the unbound socket; never from a
\* script's address outside the allowed set (select_source).
ForwardsAreBounded ==
    txn # None =>
        /\ \E c \in DOMAIN Configs : /\ AttemptCount(txn) <= Configs[c].maxAttempts
                                     /\ runtime = "sync" => c = pin.config
        /\ \A i, j \in DOMAIN txn.attempts : txn.attempts[i] = txn.attempts[j] => i = j
        /\ txn.socks # <<>> =>
              \E c \in DOMAIN Configs :
                  Last(txn.socks) \in AllowedSourcesForPool(Configs[c], txn.pool) \cup {"unspecified"}

CanDrop(rule) ==
    LET drops(as) == \E i \in DOMAIN as : as[i].type \in {"drop", "drop_now"}
    IN \/ drops(rule.actions)
       \/ \E i \in DOMAIN rule.actions :
            rule.actions[i].type = "rhai" /\ drops(rule.actions[i].script)

\* A datagram ends without a reply only when the client ACL, the structural
\* parse or a policy rule dropped it: no fault, timeout, limit or reload on
\* the way loses it silently (run_loop, servfail, Send).
NothingLostSilently ==
    served.why \notin {"none", "running"} =>
        \/ served.act = "refuse"
        \/ served.why = "answered" /\ served.wire # None
        \/ served.act = "drop" /\ served.why = "acl"
        \/ served.act = "reject" /\ served.why = served.q.form
        \/ \E c \in DOMAIN Configs : \E i \in DOMAIN Configs[c].rules :
               Configs[c].rules[i].hook = served.why /\ CanDrop(Configs[c].rules[i])

\* What the control plane's ACL check tells an operator is what the listener
\* does: for a parseable query the two tiers of the worker's cached gate give
\* the decision check_client_acl computes from the snapshot of that moment.
CheckMatchesIngress ==
    served.act \notin {"none", "reject"} /\ Listener \in DOMAIN Configs[served.snap].listeners =>
        LET told == A!CheckClientAcl(Configs[served.snap], served.q.client, Listener)
        IN told.results[Listener].decision.act = served.act

\* Over any window of as many transaction ids as the weights add up to, Route
\* picks each backend exactly as often as the weight the metrics scrape
\* reports for it, in every health state, failing open included; and what a
\* script reads in runtime.routing tells which backends have a share
\* (select_backend, effective_weights_for_scrape, runtime_view.rs).
RouteSharesAreExact ==
    Idle => \A p \in DOMAIN Configs[snap.config].pools :
        Configs[snap.config].pools[p].health # None =>
            LET pools == Configs[snap.config].pools
                scrape == R!EffectiveWeightsForScrape(pools, p, table)
                total == FoldSet(LAMBDA b, sum : sum + scrape[b], 0, DOMAIN scrape)
                picks(b) == {id \in 1 .. total :
                               R!SelectBackend(pools, p, id, snap.generation, table, <<>>) = b}
                view == R!PoolView(pools, p, table)
            IN /\ \A b \in DOMAIN scrape :
                     /\ Cardinality(picks(b)) = scrape[b]
                     /\ (scrape[b] > 0) = (view.failOpen \/ R!BackendView(pools, p, table, b).eligible)
               /\ view.failOpen \/ view.eligible = Cardinality({b \in DOMAIN scrape : scrape[b] > 0})

\* A UDP reply without TC carries the whole answer section, and the authority
\* section when there is no answer; it is never larger than the client's limit
\* unless it was clipped (truncate_udp).
TruncationIsHonest ==
    served.why = "answered" /\ served.q.proto = "udp" =>
        LET w == served.wire
        IN /\ w.clipped \/ WireSize(w) <= served.q.limit
           /\ ~w.tc => /\ w.answers = w.full.answers
                       /\ w.answers = <<>> => w.authority = w.full.authority

\* Every rule means the same when each built-in action is written as a script
\* of its own that makes the one call: same outcome, same transaction
\* (execute_ordered, run_scripts, apply_effects).
Scripted(rule) ==
    [rule EXCEPT !.actions = [i \in DOMAIN @ |-> IF @[i].type = "rhai" THEN @[i]
                                                 ELSE [type |-> "rhai", script |-> <<@[i]>>]]]
ScriptedActionsAgree ==
    \A hook \in {"request", "response"} :
        txn # None /\ txn.phase = (IF hook = "request" THEN "RequestRules" ELSE "ResponseRules") =>
            \A i \in DOMAIN Config.rules :
                Config.rules[i].hook = hook =>
                    ExecuteOrdered(Scripted(Config.rules[i]), txn)
                        = ExecuteOrdered(Config.rules[i], txn)

\* A snapshot's lookup tables answer what their files say: the last data row of
\* a key under the header in force, the longest prefix over an address and the
\* last of equal ones; a file past a limit is never served (load_data_sources).
TablesAreTheFiles ==
    served = NoOneServed /\ Idle => \A load \in Loads : D!Faithful(load, Keys, Addresses)

\* Every query leaves the pipeline, whatever the rules ask for: retries of
\* cached answers end at the transaction deadline.
QueryEnds == ~Idle ~> Idle

\* Two forwards of a transaction in a row, both without an override, leave from
\* different addresses when the pool has two sources ("round_robin").
SourcesAlternate ==
    txn # None /\ txn.src = None /\ txn.retrySrc = None =>
        \A i \in 2 .. Len(txn.socks) :
            (/\ txn.attempts[i][1] = txn.attempts[i - 1][1]
             /\ Len(SourcesForPool(Config, txn.attempts[i][1])) > 1)
                => txn.socks[i] # txn.socks[i - 1]

\* The answer a client gets is the answer to its question: a worker that waits
\* for the reply to its query stores that reply and no other.
AnswerIsForTheQuestion ==
    served.why = "answered" => served.wire.for = served.q.qname
====
