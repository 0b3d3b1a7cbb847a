------------------------------- MODULE Health -------------------------------
(***************************************************************************)
(* Backend health: the lock-free state objects (health/state.rs), the      *)
(* probe loop that feeds them (probe/scheduler.rs, probe/run.rs), passive  *)
(* outcomes from live traffic, operator control and the reload that        *)
(* replaces the table of objects (snapshot.rs, try_swap).                  *)
(*                                                                         *)
(* Every load and store of an atomic that another thread may touch is a    *)
(* step of its own.  The counters only the probe loop writes are folded    *)
(* into the store that follows them.  Time is abstracted: a probe may      *)
(* expire whenever its backend does not answer.                            *)
(***************************************************************************)
EXTENDS Naturals, FiniteSets

-----------------------------------------------------------------------------
(***************************************************************************)
(* Operator health controls (conduit-core/src/health/control.rs and the    *)
(* request parsing of conduit-api/src/health.rs): the tri-state scope      *)
(* levels, their most-specific-wins resolution, and which backends an      *)
(* action reaches.  A scope level is the string "global", a pool or a      *)
(* backend; each backend belongs to one pool.                              *)
(***************************************************************************)
CONSTANTS Backends,     \* backend identities (pool, address)
          PoolOf        \* the pool of each backend

Pools == {PoolOf[b] : b \in Backends}
Levels == {"global"} \cup Pools \cup Backends
Modes == {"Inherit", "Frozen", "Automatic"}
ControlActions == {"Freeze", "SetUp", "SetDown", "ResumeAutomatic"}

\* HealthControlScopes::default: nothing stored at pools and backends, the
\* global level automatic.
DefaultScopes == [l \in Levels |-> IF l = "global" THEN "Automatic" ELSE "Inherit"]

\* The mode an action stores at its scope: a manual set implies freeze.
ModeOf(action) == IF action = "ResumeAutomatic" THEN "Automatic" ELSE "Frozen"

\* set_level: the global level cannot inherit, the others drop their entry.
SetLevel(scopes, level, mode) ==
    [scopes EXCEPT ![level] =
        IF level = "global" /\ mode = "Inherit" THEN "Automatic" ELSE mode]

\* resolve: backend, then pool, then global.
Resolve(scopes, b) ==
    IF scopes[b] # "Inherit" THEN scopes[b]
    ELSE IF scopes[PoolOf[b]] # "Inherit" THEN scopes[PoolOf[b]]
    ELSE scopes["global"]

\* backends_in_scope over the backends of the compiled configuration.
InScope(level, configured) ==
    {b \in configured : level \in {"global", PoolOf[b], b}}

\* parse_scope, validate_scope and the empty-scope refusal: a pool or a
\* backend that the compiled configuration does not name is refused.
ScopeValid(level, configured) == InScope(level, configured) # {}

-----------------------------------------------------------------------------
CONSTANTS None,
          Probed,       \* backends configured when the probe loop is built
          Workers,      \* threads that report live forward outcomes
          Sems,         \* probe semantics (qname, qtype, source)
          Initial,      \* initial_state policy: "optimistic" or "require"
          Rise, Fall, PassiveFall,
          QIds,         \* probe message ids; bounds probes in flight
          MaxAdmin      \* bound on operator actions and reloads

ASSUME HealthAssumption ==
    /\ Probed \subseteq Backends
    /\ Rise \in Nat /\ Fall \in Nat /\ PassiveFall \in Nat /\ MaxAdmin \in Nat
    /\ None \notin Backends \X (0 .. MaxAdmin)

VARIABLES
    cfg,      \* probe semantics of the current snapshot, None if not configured
    table,    \* HealthRegistry.table: the object of each backend, None if absent
    obj,      \* the BackendHealthState objects
    scopes,   \* HealthControlScopes
    probe,    \* per backend: the object the loop holds, the outstanding id
    transit,  \* probes on the network or on TCP threads
    doomed,   \* those that met a backend that does not answer
    fold,     \* the probe loop inside record_success or record_failure
    worker,   \* workers inside record_passive_failure
    op,       \* the operator's RPC in progress
    sync,     \* a sync_frozen_flags in progress (listing, scrape, script view)
    reload,   \* the snapshot swap in progress
    alive,    \* environment: the backend answers everything in time
    tcp,      \* forward.upstream_transport is tcp_only
    scene,    \* bound: who acts beside the probe loop
    admin,    \* operator actions and reloads so far
    streak,   \* history: own successes in a row of an object's probes
    drained,  \* history: set down by a completed RPC, not touched since
    kept      \* history: configured with the same semantics since the start

cfgVars == <<cfg, table, reload, kept>>
ctlVars == <<scopes, op, sync, drained>>
loopVars == <<probe, transit, doomed, fold, streak>>
envVars == <<alive, tcp, scene, admin>>
vars == <<cfgVars, ctlVars, loopVars, envVars, obj, worker>>

Objs == Backends \X (0 .. MaxAdmin)
\* Bound: a behaviour has operator control or, instead, reloads, passive
\* failures and TCP probes.
Scenes == {"control", "reload"}
AtLeast1(n) == IF n = 0 THEN 1 ELSE n
Configured(c) == {b \in Backends : c[b] # None}

\* from_initial_policy: never observed, eligible only if optimistic.
FromInitialPolicy ==
    [observed |-> "Unknown", applied |-> IF Initial = "optimistic" THEN "Up" ELSE "Down",
     frozen |-> FALSE, succ |-> 0, fail |-> 0, pfail |-> 0]

\* build_backends: the loop's entries, made once from the snapshot at start.
BuildBackends == [b \in Probed |-> [obj |-> <<b, 0>>, out |-> None]]

\* HealthRegistry::from_compiled, then spawn_probe_loop.
Init ==
    /\ scene \in Scenes /\ tcp \in BOOLEAN /\ (tcp => scene = "reload")
    /\ cfg \in [Backends -> Sems \cup {None}] /\ Configured(cfg) = Probed
    /\ table = [b \in Backends |-> IF b \in Probed THEN <<b, 0>> ELSE None]
    /\ obj = [o \in Objs |-> FromInitialPolicy]
    /\ scopes = DefaultScopes
    /\ probe = BuildBackends
    /\ transit = [b \in Probed |-> {}] /\ doomed = [b \in Probed |-> {}]
    /\ fold = None /\ worker = [w \in Workers |-> None]
    /\ op = None /\ sync = None /\ reload = None
    /\ alive \in [Backends -> BOOLEAN]
    /\ admin = 0
    /\ streak = [o \in Objs |-> 0]
    /\ drained = [b \in Backends |-> FALSE]
    /\ kept = [b \in Backends |-> b \in Probed]

-----------------------------------------------------------------------------
(* The probe loop.                                                         *)

\* due_probes and the send: skip-if-outstanding, a fresh id.
IssueProbe(b) ==
    /\ fold = None /\ probe[b].out = None
    /\ \E q \in QIds \ transit[b] :
        /\ probe' = [probe EXCEPT ![b].out = q]
        /\ transit' = [transit EXCEPT ![b] = @ \cup {q}]
        /\ doomed' = [doomed EXCEPT ![b] = IF alive[b] THEN @ ELSE @ \cup {q}]
    /\ UNCHANGED <<cfgVars, ctlVars, envVars, obj, fold, worker, streak>>

\* record_success and record_failure up to the store of observed: the
\* counters, and what is left to do when the threshold is reached.
StartFold(b, ok, own) ==
    LET o == probe[b].obj
        n == (IF ok THEN obj[o].succ ELSE obj[o].fail) + 1
        limit == AtLeast1(IF ok THEN Rise ELSE Fall)
        hit == n >= limit
        v == IF ok THEN "Up" ELSE "Down"
        m == IF n > limit THEN limit ELSE n
    IN  /\ obj' = [obj EXCEPT ![o].succ = IF ok THEN m ELSE 0,
                              ![o].fail = IF ok THEN 0 ELSE m,
                              ![o].observed = IF hit THEN v ELSE @]
        /\ fold' = IF hit THEN [obj |-> o, to |-> v, step |-> "check"] ELSE None
        /\ streak' = [streak EXCEPT ![o] =
                        IF ok /\ own THEN (IF @ < AtLeast1(Rise) THEN @ + 1 ELSE @) ELSE 0]

\* Mutant: the datagram's id is not compared with the outstanding probe.
Matches_AnyId(b, q) == probe[b].out # None

\* classify_response: the id (and the question) of the outstanding probe.
Matches(b, q) == probe[b].out = q

\* A probe's datagram or thread is gone.
Leaves(b, q) ==
    /\ q \in transit[b]
    /\ transit' = [transit EXCEPT ![b] = @ \ {q}]
    /\ doomed' = [doomed EXCEPT ![b] = @ \ {q}]

\* on_reply: a matching reply ends the probe with a success or, for an rcode
\* outside the accepted set, a failure; anything else is ignored.
OnReply(b, q, ok) ==
    /\ fold = None
    /\ ok \/ q \in doomed[b]
    /\ Leaves(b, q)
    /\ IF Matches(b, q)
         THEN /\ StartFold(b, ok, probe[b].out = q)
              /\ probe' = [probe EXCEPT ![b].out = None]
         ELSE UNCHANGED <<obj, fold, probe, streak>>
    /\ UNCHANGED <<cfgVars, ctlVars, envVars, worker>>

\* A TCP probe thread ends without an answer: on_failure, which knows the
\* backend but not the probe.  The connect has no timeout, so a thread
\* outlives its probe's deadline.
OnTcpError(b, q) ==
    /\ tcp /\ fold = None /\ q \in doomed[b]
    /\ Leaves(b, q)
    /\ IF probe[b].out # None
         THEN StartFold(b, FALSE, TRUE) /\ probe' = [probe EXCEPT ![b].out = None]
         ELSE UNCHANGED <<obj, fold, probe, streak>>
    /\ UNCHANGED <<cfgVars, ctlVars, envVars, worker>>

\* A UDP probe or its reply is lost, or the send itself fails.
LoseProbe(b, q) ==
    /\ ~tcp /\ q \in doomed[b]
    /\ Leaves(b, q)
    /\ UNCHANGED <<cfgVars, ctlVars, envVars, obj, probe, fold, worker, streak>>

\* expire_timeouts (and on_failure after a send error): the deadline passed.
Expire(b) ==
    /\ fold = None /\ probe[b].out # None
    /\ probe[b].out \notin transit[b] \ doomed[b]
    /\ StartFold(b, FALSE, TRUE)
    /\ probe' = [probe EXCEPT ![b].out = None]
    /\ UNCHANGED <<cfgVars, ctlVars, envVars, transit, doomed, worker>>

\* The rest of record_success and record_failure: load frozen, store applied.
FoldCheck ==
    /\ fold # None /\ fold.step = "check"
    /\ fold' = IF obj[fold.obj].frozen THEN None ELSE [fold EXCEPT !.step = "store"]
    /\ UNCHANGED <<cfgVars, ctlVars, envVars, obj, probe, transit, doomed, worker, streak>>

\* Mutant: observed moves and applied is left behind.
FoldStore_NoApply ==
    /\ fold # None /\ fold.step = "store"
    /\ fold' = None
    /\ UNCHANGED <<cfgVars, ctlVars, envVars, obj, probe, transit, doomed, worker, streak>>

FoldStore ==
    /\ fold # None /\ fold.step = "store"
    /\ obj' = [obj EXCEPT ![fold.obj].applied = fold.to]
    /\ fold' = None
    /\ UNCHANGED <<cfgVars, ctlVars, envVars, probe, transit, doomed, worker, streak>>

-----------------------------------------------------------------------------
(* Live forward outcomes (record_passive_forward_outcome).                 *)

\* A failure: the object is looked up and its passive counter loaded.
PassiveFailLoad(w, b) ==
    /\ scene = "reload" /\ worker[w] = None /\ table[b] # None /\ ~alive[b]
    /\ worker' = [worker EXCEPT ![w] =
            [obj |-> table[b], n |-> obj[table[b]].pfail + 1, step |-> "count"]]
    /\ UNCHANGED <<cfgVars, ctlVars, loopVars, envVars, obj>>

\* The counter is stored; below passive_fall that is all.
PassiveFailCount(w) ==
    /\ worker[w] # None /\ worker[w].step = "count"
    /\ LET hit == worker[w].n >= AtLeast1(PassiveFall)
           n == IF hit THEN AtLeast1(PassiveFall) ELSE worker[w].n
       IN  /\ obj' = [obj EXCEPT ![worker[w].obj].pfail = n]
           /\ worker' = [worker EXCEPT ![w] = IF hit THEN [@ EXCEPT !.n = n, !.step = "observe"]
                                                     ELSE None]
    /\ UNCHANGED <<cfgVars, ctlVars, loopVars, envVars>>

PassiveFailObserve(w) ==
    /\ worker[w] # None /\ worker[w].step = "observe"
    /\ obj' = [obj EXCEPT ![worker[w].obj].observed = "Down"]
    /\ worker' = [worker EXCEPT ![w].step = "check"]
    /\ UNCHANGED <<cfgVars, ctlVars, loopVars, envVars>>

PassiveFailCheck(w) ==
    /\ worker[w] # None /\ worker[w].step = "check"
    /\ worker' = [worker EXCEPT ![w] =
            IF obj[@.obj].frozen THEN None ELSE [@ EXCEPT !.step = "store"]]
    /\ UNCHANGED <<cfgVars, ctlVars, loopVars, envVars, obj>>

PassiveFailStore(w) ==
    /\ worker[w] # None /\ worker[w].step = "store"
    /\ obj' = [obj EXCEPT ![worker[w].obj].applied = "Down"]
    /\ worker' = [worker EXCEPT ![w] = None]
    /\ UNCHANGED <<cfgVars, ctlVars, loopVars, envVars>>

\* A success resets the passive run and nothing else.
PassiveSuccess(b) ==
    /\ table[b] # None
    /\ obj' = [obj EXCEPT ![table[b]].pfail = 0]
    /\ UNCHANGED <<cfgVars, ctlVars, loopVars, envVars, worker>>

-----------------------------------------------------------------------------
(* Operator control (set_health_control) and flag synchronisation.         *)

\* The RPC is validated against the snapshot, stores its mode, and then
\* loads the table.  Backends leave drained when a later RPC reaches them.
ControlStart(level, action) ==
    /\ op = None /\ scene = "control" /\ admin < MaxAdmin
    /\ ScopeValid(level, Configured(cfg))
    /\ scopes' = SetLevel(scopes, level, ModeOf(action))
    /\ LET affected == InScope(level, Configured(cfg))
       IN  /\ op' = [action |-> action, todo |-> affected, done |-> affected, table |-> table,
                     snap |-> None]
           /\ drained' = [b \in Backends |-> drained[b] /\ b \notin affected]
    /\ admin' = admin + 1
    /\ UNCHANGED <<cfgVars, loopVars, alive, tcp, scene, obj, worker, sync>>

\* One affected backend: the manual value is stored, or the value to snap to
\* is loaded when the resolved scope is automatic.
ControlApply(b) ==
    /\ op # None /\ b \in op.todo /\ op.snap = None
    /\ LET o == op.table[b]
           manual == op.action \in {"SetUp", "SetDown"}
           snaps == op.action = "ResumeAutomatic" /\ Resolve(scopes, b) = "Automatic"
       IN  /\ obj' = IF o # None /\ manual
                       THEN [obj EXCEPT ![o].applied = IF op.action = "SetUp" THEN "Up" ELSE "Down"]
                       ELSE obj
           /\ op' = IF o = None THEN [op EXCEPT !.todo = @ \ {b}]
                    ELSE [op EXCEPT !.snap = [b |-> b, to |-> IF snaps THEN obj[o].observed
                                                              ELSE None]]
    /\ UNCHANGED <<cfgVars, loopVars, envVars, worker, scopes, sync, drained>>

\* snap_applied_to_observed's store, then sync_one.
ControlFlag ==
    /\ op # None /\ op.snap # None
    /\ LET b == op.snap.b
           o == op.table[b]
       IN  /\ obj' = [obj EXCEPT ![o].applied = IF op.snap.to = None THEN @ ELSE op.snap.to,
                                 ![o].frozen = Resolve(scopes, b) = "Frozen"]
           /\ op' = [op EXCEPT !.todo = @ \ {b}, !.snap = None]
    /\ UNCHANGED <<cfgVars, loopVars, envVars, worker, scopes, sync, drained>>

ControlReturn ==
    /\ op # None /\ op.todo = {}
    /\ drained' = [b \in Backends |-> drained[b] \/
            (b \in op.done /\ op.action = "SetDown" /\ op.table[b] # None /\ op.table[b] = table[b])]
    /\ op' = None
    /\ UNCHANGED <<cfgVars, loopVars, envVars, obj, worker, scopes, sync>>

\* sync_frozen_flags, one backend of its loop at a time: resolve, then store.
SyncResolve(b) ==
    /\ scene = "control" /\ sync = None /\ cfg[b] # None /\ table[b] # None
    /\ sync' = [obj |-> table[b], frozen |-> Resolve(scopes, b) = "Frozen"]
    /\ UNCHANGED <<cfgVars, loopVars, envVars, obj, worker, scopes, op, drained>>

SyncStore ==
    /\ sync # None
    /\ obj' = [obj EXCEPT ![sync.obj].frozen = sync.frozen]
    /\ sync' = None
    /\ UNCHANGED <<cfgVars, loopVars, envVars, worker, scopes, op, drained>>

-----------------------------------------------------------------------------
(* Reload: the snapshot pointer first, then the health table.              *)

ReloadSwap(c) ==
    /\ reload = None /\ scene = "reload" /\ admin < MaxAdmin
    /\ cfg' = c /\ reload' = cfg
    /\ admin' = admin + 1
    /\ kept' = [b \in Backends |-> kept[b] /\ c[b] = cfg[b]]
    /\ UNCHANGED <<ctlVars, loopVars, alive, tcp, scene, table, obj, worker>>

\* Mutant: every entry is rebuilt.
Preserved_Never(b, prev) == FALSE

\* The entry survives when the backend was configured with the same probe
\* semantics before.
Preserved(b, prev) == table[b] # None /\ prev[b] = cfg[b]

\* HealthRegistry::reconcile.
ReconcileHealth ==
    /\ reload # None
    /\ table' = [b \in Backends |->
            IF cfg[b] = None THEN None
            ELSE IF Preserved(b, reload) THEN table[b] ELSE <<b, admin>>]
    /\ drained' = [b \in Backends |-> drained[b] /\ table'[b] = table[b]]
    /\ reload' = None
    /\ UNCHANGED <<cfg, kept, loopVars, envVars, obj, worker, scopes, op, sync>>

\* Environment: a backend stops or starts answering.
Flap(b) ==
    /\ alive' = [alive EXCEPT ![b] = ~@]
    /\ doomed' = [c \in Probed |-> IF c = b THEN transit[c] ELSE doomed[c]]
    /\ UNCHANGED <<cfgVars, ctlVars, probe, transit, fold, streak, tcp, scene, admin, obj, worker>>

-----------------------------------------------------------------------------
ProbeLoop(b) ==
    \/ IssueProbe(b) \/ Expire(b)
    \/ \E q \in QIds : OnTcpError(b, q) \/ \E ok \in BOOLEAN : OnReply(b, q, ok)

Passive(w) ==
    \/ PassiveFailCount(w) \/ PassiveFailObserve(w) \/ PassiveFailCheck(w) \/ PassiveFailStore(w)

ControlStep == ControlFlag \/ ControlReturn \/ \E b \in Backends : ControlApply(b)

Next ==
    \/ \E b \in Probed : ProbeLoop(b) \/ \E q \in QIds : LoseProbe(b, q)
    \/ FoldCheck \/ FoldStore
    \/ \E w \in Workers : Passive(w) \/ \E b \in Backends : PassiveFailLoad(w, b)
    \/ \E b \in Backends : PassiveSuccess(b) \/ SyncResolve(b) \/ Flap(b)
    \/ \E l \in Levels, a \in ControlActions : ControlStart(l, a)
    \/ ControlStep \/ SyncStore
    \/ \E c \in [Backends -> Sems \cup {None}] : ReloadSwap(c)
    \/ ReconcileHealth

\* The loop's thread and the threads inside a call keep running; callers may
\* stop calling.  The loop serves every backend again and again, between the
\* folds of the others.
Fairness ==
    /\ WF_vars(FoldCheck \/ FoldStore)
    /\ \A b \in Probed : SF_vars(ProbeLoop(b))
    /\ \A w \in Workers : WF_vars(Passive(w))
    /\ WF_vars(ControlStep) /\ WF_vars(SyncStore) /\ WF_vars(ReconcileHealth)

Spec == Init /\ [][Next]_vars /\ Fairness

-----------------------------------------------------------------------------
Liveness3 == {"Unknown", "Up", "Down"}

\* Only probe rise closes the circuit (record_passive_failure, design D1): a
\* backend is observed up only while its last Rise probes, each answered by
\* its own reply, succeeded, or until something marks it down.  And no operator
\* call puts a backend frozen by its own scope into rotation: resuming a pool or
\* all backends leaves it as it is routed (resolve_scope).
UpIsEarned ==
    [][/\ \A o \in Objs :
            obj'[o].observed = "Up" /\ obj[o].observed # "Up" => streak'[o] >= AtLeast1(Rise)
       /\ \A b \in Backends :
            op # None /\ op.action = "ResumeAutomatic" /\ scopes[b] = "Frozen" /\ ControlFlag
            /\ op.snap.b = b => obj'[op.table[b]].applied = obj[op.table[b]].applied]_vars

\* A reload keeps the state object of a backend it does not change, so the
\* probe loop, which holds the object since the start, and the routes, which
\* look it up in the table, see one state (reconcile, "stays coherent").
KeptBackendIsProbed ==
    \A b \in Probed : kept[b] => table[b] = probe[b].obj

\* A backend that is probed, not frozen and answers everything returns to
\* rotation, whatever happened before: no stale reply, late TCP error or
\* concurrent passive failure leaves it out for good.
RecoveredBackendReturns ==
    \A b \in Probed :
        <>[](alive[b] /\ table[b] = probe[b].obj /\ ~obj[probe[b].obj].frozen)
            => <>[](obj[probe[b].obj].applied = "Up")

\* A backend set down stays out of rotation until an operator or a reload
\* changes it (backend-health.md: a manual set "implies freeze").
DrainHolds ==
    \A b \in Backends : drained[b] => obj[table[b]].applied = "Down"

\* A configured backend that answers everything comes into rotation, also one
\* that a reload brought in.
ConfiguredBackendReturns ==
    \A b \in Backends :
        <>[](alive[b] /\ table[b] # None /\ \A o \in Objs : ~obj[o].frozen)
            => <>[](table[b] # None /\ obj[table[b]].applied = "Up")
=============================================================================
