--------------------------- MODULE Health_proofs ----------------------------
(***************************************************************************)
(* For every set of backends, workers and message ids and every threshold: *)
(* the probe loop and the routes share one state object for each backend   *)
(* that reloads left alone, only rise in a row marks a backend up, and     *)
(* resuming a pool leaves a frozen backend as it is routed.                *)
(*                                                                         *)
(* The inductive invariant adds three facts to the types: a kept backend   *)
(* has its first object in the table and the same semantics before and     *)
(* after the reload in progress; an object's success counter is the run    *)
(* of own successes, capped at rise; and a value to snap to was loaded     *)
(* only for a backend whose resolved scope is automatic.                   *)
(***************************************************************************)
EXTENDS Health, TLAPS

USE Zenon

-----------------------------------------------------------------------------
ObjRec == [observed : Liveness3, applied : Liveness3, frozen : BOOLEAN,
           succ : Nat, fail : Nat, pfail : Nat]
ProbeRec == [obj : Objs, out : QIds \cup {None}]
FoldRec == [obj : Objs, to : Liveness3, step : {"check", "store"}]
WorkerRec == [obj : Objs, n : Nat, step : {"count", "observe", "check", "store"}]
SnapRec == [b : Backends, to : Liveness3 \cup {None}]
Table == [Backends -> Objs \cup {None}]
OpRec == [action : ControlActions, todo : SUBSET Backends, done : SUBSET Backends,
          table : Table, snap : SnapRec \cup {None}]
SyncRec == [obj : Objs, frozen : BOOLEAN]
Semantics == [Backends -> Sems \cup {None}]

ObjOK == obj \in [Objs -> ObjRec] /\ streak \in [Objs -> Nat]
LoopOK == probe \in [Probed -> ProbeRec] /\ fold \in FoldRec \cup {None}
WorkerOK == worker \in [Workers -> WorkerRec \cup {None}]
ControlOK == scopes \in [Levels -> Modes] /\ op \in OpRec \cup {None} /\ sync \in SyncRec \cup {None}
ConfigOK ==
    /\ cfg \in Semantics /\ reload \in Semantics \cup {None} /\ table \in Table
    /\ kept \in [Backends -> BOOLEAN] /\ admin \in 0 .. MaxAdmin

\* The loop holds each backend's first object (build_backends runs once).
LoopHoldsFirst == \A b \in Probed : probe[b].obj = <<b, 0>>

\* A backend no reload changed: still configured, its first object still in
\* the table, and the reload in progress, if any, does not change it either.
KeptIsFirst ==
    \A b \in Backends : kept[b] =>
        /\ cfg[b] # None /\ table[b] = <<b, 0>>
        /\ reload # None => reload[b] = cfg[b]

\* record_success counts exactly the successes in a row, up to rise.
CountsTheStreak ==
    \A o \in Objs : obj[o].succ = streak[o] /\ streak[o] <= AtLeast1(Rise)

\* A pending flag store has an object, and a value to snap to only where the
\* scope resolves to automatic.
SnapsAreAutomatic ==
    op # None /\ op.snap # None =>
        /\ op.table[op.snap.b] # None
        /\ op.snap.to # None => Resolve(scopes, op.snap.b) = "Automatic"

\* The invariant, by the variables each part speaks of.
ObjInv == ObjOK /\ CountsTheStreak
LoopInv == LoopOK /\ LoopHoldsFirst
ControlInv == ControlOK /\ SnapsAreAutomatic
ConfigInv == ConfigOK /\ KeptIsFirst
IInv == ObjInv /\ LoopInv /\ WorkerOK /\ ControlInv /\ ConfigInv

\* What UpIsEarned says of one step: the two halves.
EarnedStep ==
    \A o \in Objs :
        obj'[o].observed = "Up" /\ obj[o].observed # "Up" => streak'[o] >= AtLeast1(Rise)
FrozenStays ==
    \A b \in Backends :
        op # None /\ op.action = "ResumeAutomatic" /\ scopes[b] = "Frozen" /\ ControlFlag
        /\ op.snap.b = b => obj'[op.table[b]].applied = obj[op.table[b]].applied

-----------------------------------------------------------------------------
\* Storing fields of one object leaves a table of objects, and the others alone.
LEMMA ObjStores ==
    ASSUME NEW f \in [Objs -> ObjRec], NEW o \in Objs, NEW r \in ObjRec
    PROVE  /\ [f EXCEPT ![o] = r] \in [Objs -> ObjRec]
           /\ \A p \in Objs : [f EXCEPT ![o] = r][p] = IF p = o THEN r ELSE f[p]
  BY SMT

\* An object's fields have their types.
LEMMA ObjFields ==
    ASSUME NEW r \in ObjRec
    PROVE  /\ r.observed \in Liveness3 /\ r.applied \in Liveness3 /\ r.frozen \in BOOLEAN
           /\ r.succ \in Nat /\ r.fail \in Nat /\ r.pfail \in Nat
  BY SMT DEF ObjRec

\* The stores of record_success and record_failure leave an object's record.
LEMMA OutcomeRecord ==
    ASSUME NEW r \in ObjRec, NEW a \in Nat, NEW c \in Nat, NEW d \in Liveness3
    PROVE  [r EXCEPT !.succ = a, !.fail = c, !.observed = d] \in ObjRec
  BY DEF ObjRec

\* Thresholds count as at least one.
LEMMA LimitIsPositive ==
    ASSUME NEW n \in Nat
    PROVE  AtLeast1(n) \in Nat /\ AtLeast1(n) >= 1
  BY SMT DEF AtLeast1

(***************************************************************************)
(* A step that stores observed, succ and streak of no object keeps the     *)
(* counters; every such step is one of the next lemma's record updates.    *)
(***************************************************************************)
LEMMA CountsKept ==
    ASSUME ObjInv, NEW o \in Objs, NEW r \in ObjRec,
           obj' = [obj EXCEPT ![o] = r], streak' = streak, r.succ = obj[o].succ,
           r.observed # "Up" \/ r.observed = obj[o].observed
    PROVE  /\ ObjInv'
           /\ EarnedStep
<1>1. /\ obj' \in [Objs -> ObjRec]
      /\ \A p \in Objs : obj'[p] = IF p = o THEN r ELSE obj[p]
  BY ObjStores DEF ObjInv, ObjOK
<1>2. CountsTheStreak'
  BY <1>1 DEF ObjInv, CountsTheStreak
<1> QED
  BY <1>1, <1>2 DEF ObjInv, ObjOK, EarnedStep

(***************************************************************************)
(* What a step leaves alone keeps its part of the invariant.               *)
(***************************************************************************)
LEMMA Untouched ==
    ASSUME IInv
    PROVE  /\ UNCHANGED <<obj, streak>> => ObjInv'
           /\ UNCHANGED <<probe, fold>> => LoopInv'
           /\ UNCHANGED worker => WorkerOK'
           /\ UNCHANGED <<scopes, op, sync>> => ControlInv'
           /\ UNCHANGED <<cfg, reload, table, kept, admin>> => ConfigInv'
<1>1. UNCHANGED <<obj, streak>> => ObjInv'
  BY DEF IInv, ObjInv, ObjOK, CountsTheStreak
<1>2. UNCHANGED <<probe, fold>> => LoopInv'
  BY DEF IInv, LoopInv, LoopOK, LoopHoldsFirst
<1>3. UNCHANGED worker => WorkerOK'
  BY DEF IInv, WorkerOK
<1>4. UNCHANGED <<scopes, op, sync>> => ControlInv'
  BY DEF IInv, ControlInv, ControlOK, SnapsAreAutomatic
<1>5. UNCHANGED <<cfg, reload, table, kept, admin>> => ConfigInv'
  BY DEF IInv, ConfigInv, ConfigOK, KeptIsFirst
<1> QED
  BY <1>1, <1>2, <1>3, <1>4, <1>5

-----------------------------------------------------------------------------
(* The initial state.                                                      *)
LEMMA InitInv == Init => IInv
<1> SUFFICES ASSUME Init PROVE IInv
  OBVIOUS
<1>1. \A b \in Backends : <<b, 0>> \in Objs
  BY HealthAssumption, SMT DEF Objs
<1>2. FromInitialPolicy \in ObjRec
  BY SMT DEF FromInitialPolicy, ObjRec, Liveness3
<1>3. ObjOK
  BY <1>2, SMT DEF Init, ObjOK
<1>4. LoopOK /\ LoopHoldsFirst
  <2>1. \A b \in Probed : [obj |-> <<b, 0>>, out |-> None] \in ProbeRec
    <3> SUFFICES ASSUME NEW b \in Probed PROVE [obj |-> <<b, 0>>, out |-> None] \in ProbeRec
      OBVIOUS
    <3>1. <<b, 0>> \in Objs
      BY <1>1, HealthAssumption
    <3> QED
      BY <3>1 DEF ProbeRec
  <2>2. probe = [b \in Probed |-> [obj |-> <<b, 0>>, out |-> None]] /\ fold = None
    BY DEF Init, BuildBackends
  <2> QED
    BY <2>1, <2>2 DEF LoopOK, LoopHoldsFirst
<1>5. WorkerOK
  BY DEF Init, WorkerOK
<1>6. ControlOK /\ SnapsAreAutomatic
  <2>1. DefaultScopes \in [Levels -> Modes]
    BY SMT DEF DefaultScopes, Modes
  <2> QED
    BY <2>1 DEF Init, ControlOK, SnapsAreAutomatic
<1>7. ConfigOK
  <2>1. table \in Table
    BY <1>1, SMT DEF Init, Table
  <2>2. admin \in 0 .. MaxAdmin
    BY HealthAssumption, SMT DEF Init
  <2>3. cfg \in Semantics /\ reload \in Semantics \cup {None} /\ kept \in [Backends -> BOOLEAN]
    BY SMT DEF Init, Semantics
  <2> QED
    BY <2>1, <2>2, <2>3 DEF ConfigOK
<1>8. KeptIsFirst
  <2> SUFFICES ASSUME NEW b \in Backends, kept[b]
               PROVE  cfg[b] # None /\ table[b] = <<b, 0>> /\ (reload # None => reload[b] = cfg[b])
    BY DEF KeptIsFirst
  <2>1. b \in Probed
    BY DEF Init
  <2>2. cfg[b] # None
    BY <2>1 DEF Init, Configured
  <2>3. table[b] = <<b, 0>>
    BY <2>1 DEF Init
  <2> QED
    BY <2>2, <2>3 DEF Init
<1>9. CountsTheStreak
  <2>1. \A o \in Objs : obj[o].succ = 0 /\ streak[o] = 0
    BY SMT DEF Init, FromInitialPolicy
  <2> QED
    BY <2>1, HealthAssumption, LimitIsPositive, SMT DEF CountsTheStreak
<1> QED
  BY <1>3, <1>4, <1>5, <1>6, <1>7, <1>8, <1>9
  DEF IInv, ObjInv, LoopInv, ControlInv, ConfigInv

-----------------------------------------------------------------------------
(* The probe loop.                                                         *)

\* record_success and record_failure: a matched outcome moves the counter of
\* the loop's object and its run of successes together, and only a full run
\* of them marks the object up.
LEMMA FoldCounts ==
    ASSUME IInv, NEW b \in Probed, NEW ok \in BOOLEAN, StartFold(b, ok, TRUE)
    PROVE  ObjInv' /\ fold' \in FoldRec \cup {None} /\ EarnedStep
<1> DEFINE o == probe[b].obj
           n == (IF ok THEN obj[o].succ ELSE obj[o].fail) + 1
           limit == AtLeast1(IF ok THEN Rise ELSE Fall)
           v == IF ok THEN "Up" ELSE "Down"
           m == IF n > limit THEN limit ELSE n
           s == IF ok THEN (IF streak[o] < AtLeast1(Rise) THEN streak[o] + 1 ELSE streak[o]) ELSE 0
           r == [obj[o] EXCEPT !.succ = IF ok THEN m ELSE 0, !.fail = IF ok THEN 0 ELSE m,
                               !.observed = IF n >= limit THEN v ELSE @]
<1>1. o \in Objs /\ obj[o] \in ObjRec /\ streak[o] \in Nat
  <2>1. probe[b] \in ProbeRec
    BY DEF IInv, LoopInv, LoopOK
  <2>2. o \in Objs
    BY <2>1, SMT DEF ProbeRec
  <2> QED
    BY <2>2 DEF IInv, ObjInv, ObjOK
<1>2. /\ obj[o].observed \in Liveness3 /\ obj[o].applied \in Liveness3 /\ obj[o].frozen \in BOOLEAN
      /\ obj[o].succ \in Nat /\ obj[o].fail \in Nat /\ obj[o].pfail \in Nat
  BY <1>1, ObjFields
<1>3. /\ AtLeast1(Rise) \in Nat /\ AtLeast1(Rise) >= 1 /\ AtLeast1(Fall) \in Nat
      /\ AtLeast1(Fall) >= 1
  BY HealthAssumption, LimitIsPositive
<1>4. m \in Nat /\ n \in Nat /\ s \in Nat
  BY <1>1, <1>2, <1>3, SMT
<1>5. r \in ObjRec
  <2>1. /\ (IF ok THEN m ELSE 0) \in Nat /\ (IF ok THEN 0 ELSE m) \in Nat
        /\ (IF n >= limit THEN v ELSE obj[o].observed) \in Liveness3
    BY <1>2, <1>4, SMT DEF Liveness3
  <2> HIDE DEF m, n, v, limit, o
  <2> QED
    BY <1>1, <2>1, OutcomeRecord
<1>6. /\ obj' = [obj EXCEPT ![o] = r]
      /\ streak' = [streak EXCEPT ![o] = s]
      /\ fold' = IF n >= limit THEN [obj |-> o, to |-> v, step |-> "check"] ELSE None
  BY DEF StartFold, IInv, ObjInv, ObjOK
<1>7. /\ r.succ = (IF ok THEN m ELSE 0)
      /\ r.observed = IF n >= limit THEN v ELSE obj[o].observed
  BY <1>1, SMT DEF ObjRec
<1>8. obj[o].succ = streak[o] /\ streak[o] <= AtLeast1(Rise)
  BY <1>1 DEF IInv, ObjInv, CountsTheStreak
<1>9. r.succ = s /\ s <= AtLeast1(Rise)
  BY <1>1, <1>2, <1>3, <1>7, <1>8, SMT
<1>10. r.observed = "Up" /\ obj[o].observed # "Up" => s >= AtLeast1(Rise)
  BY <1>1, <1>2, <1>3, <1>7, <1>8, SMT
<1> HIDE DEF r, s, o
<1>11. /\ obj' \in [Objs -> ObjRec] /\ streak' \in [Objs -> Nat]
       /\ \A p \in Objs : obj'[p] = IF p = o THEN r ELSE obj[p]
       /\ \A p \in Objs : streak'[p] = IF p = o THEN s ELSE streak[p]
  BY <1>1, <1>4, <1>5, <1>6, SMT DEF IInv, ObjInv, ObjOK
<1>12. CountsTheStreak'
  BY <1>9, <1>11 DEF IInv, ObjInv, CountsTheStreak
<1>13. fold' \in FoldRec \cup {None}
  BY <1>1, <1>6, SMT DEF FoldRec, Liveness3
<1> QED
  BY <1>10, <1>11, <1>12, <1>13 DEF ObjInv, ObjOK, EarnedStep

\* A new outstanding id, or none, leaves the loop holding the same object.
LEMMA LoopKeeps ==
    ASSUME IInv, NEW b \in Probed, NEW q \in QIds \cup {None},
           probe' = [probe EXCEPT ![b].out = q], fold' \in FoldRec \cup {None}
    PROVE  LoopInv'
<1>1. probe[b] \in ProbeRec
  BY DEF IInv, LoopInv, LoopOK
<1>2. [probe[b] EXCEPT !.out = q] \in ProbeRec /\ [probe[b] EXCEPT !.out = q].obj = probe[b].obj
  BY <1>1 DEF ProbeRec
<1>3. probe' = [probe EXCEPT ![b] = [probe[b] EXCEPT !.out = q]]
  OBVIOUS
<1>4. probe' \in [Probed -> ProbeRec] /\ \A c \in Probed : probe'[c].obj = probe[c].obj
  BY <1>2, <1>3 DEF IInv, LoopInv, LoopOK
<1> QED
  BY <1>4 DEF IInv, LoopInv, LoopOK, LoopHoldsFirst

LEMMA ProbeLoopStep ==
    ASSUME IInv, NEW b \in Probed, ProbeLoop(b) \/ \E q \in QIds : LoseProbe(b, q)
    PROVE  IInv' /\ EarnedStep
<1>1. CASE IssueProbe(b)
  <2>1. PICK q \in QIds : probe' = [probe EXCEPT ![b].out = q]
    BY <1>1 DEF IssueProbe
  <2>2. LoopInv'
    BY <1>1, <2>1, LoopKeeps DEF IssueProbe, IInv, LoopInv, LoopOK
  <2> QED
    BY <1>1, <2>2, Untouched DEF IssueProbe, cfgVars, ctlVars, envVars, IInv, EarnedStep
<1>2. ASSUME NEW ok \in BOOLEAN, StartFold(b, ok, TRUE), probe' = [probe EXCEPT ![b].out = None],
             UNCHANGED <<cfgVars, ctlVars, envVars, worker>>
      PROVE  IInv' /\ EarnedStep
  <2>1. ObjInv' /\ fold' \in FoldRec \cup {None} /\ EarnedStep
    BY <1>2, FoldCounts
  <2>2. LoopInv'
    BY <1>2, <2>1, LoopKeeps
  <2> QED
    BY <1>2, <2>1, <2>2, Untouched DEF cfgVars, ctlVars, envVars, IInv
<1>3. ASSUME UNCHANGED <<obj, fold, probe, streak>>, UNCHANGED <<cfgVars, ctlVars, envVars, worker>>
      PROVE  IInv' /\ EarnedStep
  BY <1>3, Untouched DEF cfgVars, ctlVars, envVars, IInv, EarnedStep
<1>4. CASE Expire(b)
  BY <1>2, <1>4 DEF Expire
<1>5. ASSUME NEW q \in QIds, OnTcpError(b, q)
      PROVE  IInv' /\ EarnedStep
  BY <1>2, <1>3, <1>5 DEF OnTcpError
<1>6. ASSUME NEW q \in QIds, NEW ok \in BOOLEAN, OnReply(b, q, ok)
      PROVE  IInv' /\ EarnedStep
  <2>1. CASE Matches(b, q)
    <3>1. StartFold(b, ok, probe[b].out = q) /\ probe[b].out = q
      BY <1>6, <2>1 DEF OnReply, Matches
    <3>2. StartFold(b, ok, TRUE)
      BY <3>1 DEF StartFold
    <3> QED
      BY <1>2, <1>6, <2>1, <3>2 DEF OnReply
  <2>2. CASE ~Matches(b, q)
    BY <1>3, <1>6, <2>2 DEF OnReply
  <2> QED
    BY <2>1, <2>2
<1>7. ASSUME NEW q \in QIds, LoseProbe(b, q)
      PROVE  IInv' /\ EarnedStep
  BY <1>3, <1>7 DEF LoseProbe
<1> QED
  BY <1>1, <1>4, <1>5, <1>6, <1>7 DEF ProbeLoop

LEMMA FoldStep ==
    ASSUME IInv, FoldCheck \/ FoldStore
    PROVE  IInv' /\ EarnedStep
<1>1. fold \in FoldRec /\ fold.obj \in Objs /\ fold.to \in Liveness3
  BY SMT DEF IInv, LoopInv, LoopOK, FoldRec, FoldCheck, FoldStore
<1>2. CASE FoldCheck
  <2>1. [fold EXCEPT !.step = "store"] \in FoldRec
    BY <1>1 DEF FoldRec
  <2>2. fold' \in FoldRec \cup {None} /\ probe' = probe
    BY <1>2, <2>1 DEF FoldCheck
  <2>3. LoopInv'
    BY <2>2 DEF IInv, LoopInv, LoopOK, LoopHoldsFirst
  <2> QED
    BY <1>2, <2>3, Untouched DEF FoldCheck, cfgVars, ctlVars, envVars, IInv, EarnedStep
<1>3. CASE FoldStore
  <2> DEFINE r == [obj[fold.obj] EXCEPT !.applied = fold.to]
  <2>1. obj[fold.obj] \in ObjRec
    BY <1>1 DEF IInv, ObjInv, ObjOK
  <2>2. r \in ObjRec /\ r.succ = obj[fold.obj].succ /\ r.observed = obj[fold.obj].observed
    BY <1>1, <2>1 DEF ObjRec
  <2>3. obj' = [obj EXCEPT ![fold.obj] = r] /\ streak' = streak /\ probe' = probe /\ fold' = None
    BY <1>3 DEF FoldStore
  <2>4. ObjInv' /\ EarnedStep
    BY <1>1, <2>2, <2>3, CountsKept DEF IInv
  <2>5. LoopInv'
    BY <2>3 DEF IInv, LoopInv, LoopOK, LoopHoldsFirst
  <2> QED
    BY <1>3, <2>4, <2>5, Untouched DEF FoldStore, cfgVars, ctlVars, envVars, IInv
<1> QED
  BY <1>2, <1>3

-----------------------------------------------------------------------------
(* Live forward outcomes.                                                  *)
LEMMA PassiveStep ==
    ASSUME IInv, NEW w \in Workers, Passive(w)
    PROVE  IInv' /\ EarnedStep
<1> DEFINE k == worker[w]
           o == k.obj
<1>1. k \in WorkerRec /\ o \in Objs /\ k.n \in Nat /\ obj[o] \in ObjRec
  <2>1. k \in WorkerRec \cup {None} /\ k # None
    BY DEF IInv, WorkerOK, Passive, PassiveFailCount, PassiveFailObserve, PassiveFailCheck,
       PassiveFailStore
  <2>2. k \in WorkerRec /\ o \in Objs /\ k.n \in Nat
    BY <2>1 DEF WorkerRec
  <2> QED
    BY <2>2 DEF IInv, ObjInv, ObjOK
<1>2. \A x \in WorkerRec \cup {None} : worker' = [worker EXCEPT ![w] = x] => WorkerOK'
  BY DEF IInv, WorkerOK
<1>3. CASE PassiveFailCount(w)
  <2> DEFINE hit == k.n >= AtLeast1(PassiveFall)
             n == IF hit THEN AtLeast1(PassiveFall) ELSE k.n
             r == [obj[o] EXCEPT !.pfail = n]
             x == IF hit THEN [k EXCEPT !.n = n, !.step = "observe"] ELSE None
  <2>1. n \in Nat
    BY <1>1, HealthAssumption, LimitIsPositive
  <2>2. /\ obj' = [obj EXCEPT ![o] = r] /\ worker' = [worker EXCEPT ![w] = x]
        /\ UNCHANGED <<cfgVars, ctlVars, loopVars, envVars>>
    BY <1>3 DEF PassiveFailCount
  <2> HIDE DEF n, hit
  <2>3. r \in ObjRec /\ r.succ = obj[o].succ /\ r.observed = obj[o].observed
    BY <1>1, <2>1 DEF ObjRec
  <2>4. [k EXCEPT !.n = n, !.step = "observe"] \in WorkerRec
    BY <1>1, <2>1 DEF WorkerRec
  <2>5. ObjInv' /\ EarnedStep
    BY <1>1, <2>2, <2>3, CountsKept DEF IInv, loopVars
  <2>6. WorkerOK'
    BY <1>2, <2>2, <2>4
  <2> QED
    BY <2>2, <2>5, <2>6, Untouched DEF cfgVars, ctlVars, loopVars, envVars, IInv
<1>4. CASE PassiveFailObserve(w)
  <2> DEFINE r == [obj[o] EXCEPT !.observed = "Down"]
  <2>1. r \in ObjRec /\ r.succ = obj[o].succ /\ r.observed # "Up"
    BY <1>1 DEF ObjRec, Liveness3
  <2>2. [k EXCEPT !.step = "check"] \in WorkerRec
    BY <1>1 DEF WorkerRec
  <2>3. /\ obj' = [obj EXCEPT ![o] = r]
        /\ worker' = [worker EXCEPT ![w] = [k EXCEPT !.step = "check"]]
        /\ UNCHANGED <<cfgVars, ctlVars, loopVars, envVars>>
    BY <1>4 DEF PassiveFailObserve
  <2>4. ObjInv' /\ EarnedStep
    BY <1>1, <2>1, <2>3, CountsKept DEF IInv, loopVars
  <2>5. WorkerOK'
    BY <1>2, <2>2, <2>3
  <2> QED
    BY <2>3, <2>4, <2>5, Untouched DEF cfgVars, ctlVars, loopVars, envVars, IInv
<1>5. CASE PassiveFailCheck(w)
  <2>1. [k EXCEPT !.step = "store"] \in WorkerRec
    BY <1>1 DEF WorkerRec
  <2>2. WorkerOK'
    BY <1>2, <1>5, <2>1 DEF PassiveFailCheck
  <2> QED
    BY <1>5, <2>2, Untouched
    DEF PassiveFailCheck, cfgVars, ctlVars, loopVars, envVars, IInv, EarnedStep
<1>6. CASE PassiveFailStore(w)
  <2> DEFINE r == [obj[o] EXCEPT !.applied = "Down"]
  <2>1. r \in ObjRec /\ r.succ = obj[o].succ /\ r.observed = obj[o].observed
    BY <1>1 DEF ObjRec, Liveness3
  <2>2. /\ obj' = [obj EXCEPT ![o] = r] /\ worker' = [worker EXCEPT ![w] = None]
        /\ UNCHANGED <<cfgVars, ctlVars, loopVars, envVars>>
    BY <1>6 DEF PassiveFailStore
  <2>3. ObjInv' /\ EarnedStep
    BY <1>1, <2>1, <2>2, CountsKept DEF IInv, loopVars
  <2>4. WorkerOK'
    BY <1>2, <2>2
  <2> QED
    BY <2>2, <2>3, <2>4, Untouched DEF cfgVars, ctlVars, loopVars, envVars, IInv
<1> QED
  BY <1>3, <1>4, <1>5, <1>6 DEF Passive

\* What the table holds for a backend is an object.
LEMMA TableEntry ==
    ASSUME IInv, NEW b \in Backends, table[b] # None
    PROVE  table[b] \in Objs /\ obj[table[b]] \in ObjRec
<1>1. table[b] \in Objs
  BY DEF IInv, ConfigInv, ConfigOK, Table
<1> QED
  BY <1>1 DEF IInv, ObjInv, ObjOK

LEMMA PassiveStart ==
    ASSUME IInv, NEW b \in Backends,
           PassiveSuccess(b) \/ \E w \in Workers : PassiveFailLoad(w, b)
    PROVE  IInv' /\ EarnedStep
<1> DEFINE o == table[b]
<1>1. o \in Objs /\ obj[o] \in ObjRec
  BY TableEntry DEF PassiveSuccess, PassiveFailLoad
<1>2. ASSUME NEW w \in Workers, PassiveFailLoad(w, b)
      PROVE  IInv' /\ EarnedStep
  <2> DEFINE x == [obj |-> o, n |-> obj[o].pfail + 1, step |-> "count"]
  <2>1. obj[o].pfail + 1 \in Nat
    BY <1>1, ObjFields, SMT
  <2>2. x \in WorkerRec
    BY <1>1, <2>1 DEF WorkerRec
  <2>3. worker' = [worker EXCEPT ![w] = x]
    BY <1>2 DEF PassiveFailLoad
  <2>4. WorkerOK'
    BY <2>2, <2>3 DEF IInv, WorkerOK
  <2> QED
    BY <1>2, <2>4, Untouched
    DEF PassiveFailLoad, cfgVars, ctlVars, loopVars, envVars, IInv, EarnedStep
<1>3. CASE PassiveSuccess(b)
  <2> DEFINE r == [obj[o] EXCEPT !.pfail = 0]
  <2>1. r \in ObjRec /\ r.succ = obj[o].succ /\ r.observed = obj[o].observed
    BY <1>1, 0 \in Nat DEF ObjRec
  <2>2. obj' = [obj EXCEPT ![o] = r] /\ UNCHANGED <<cfgVars, ctlVars, loopVars, envVars, worker>>
    BY <1>3 DEF PassiveSuccess
  <2>3. ObjInv' /\ EarnedStep
    BY <1>1, <2>1, <2>2, CountsKept DEF IInv, loopVars
  <2> QED
    BY <2>2, <2>3, Untouched DEF cfgVars, ctlVars, loopVars, envVars, IInv
<1> QED
  BY <1>2, <1>3

-----------------------------------------------------------------------------
(* Operator control and flag synchronisation.                              *)
LEMMA ControlStartStep ==
    ASSUME IInv, NEW l \in Levels, NEW a \in ControlActions, ControlStart(l, a)
    PROVE  IInv' /\ EarnedStep
<1> DEFINE A == InScope(l, Configured(cfg))
<1>1. A \in SUBSET Backends
  BY DEF InScope, Configured
<1>2. op' = [action |-> a, todo |-> A, done |-> A, table |-> table, snap |-> None]
  BY DEF ControlStart
<1>3. op' \in OpRec /\ op'.snap = None
  BY <1>1, <1>2 DEF OpRec, IInv, ConfigInv, ConfigOK
<1>4. scopes' \in [Levels -> Modes]
  <2>1. \A m \in {"Frozen", "Automatic"} : SetLevel(scopes, l, m) \in [Levels -> Modes]
    BY DEF SetLevel, Modes, IInv, ControlInv, ControlOK
  <2>2. ModeOf(a) \in {"Frozen", "Automatic"}
    BY DEF ModeOf
  <2> QED
    BY <2>1, <2>2 DEF ControlStart
<1>5. ControlInv'
  BY <1>3, <1>4 DEF ControlStart, IInv, ControlInv, ControlOK, SnapsAreAutomatic
<1>6. ConfigInv'
  <2>1. admin' \in 0 .. MaxAdmin
    BY HealthAssumption, SMT DEF ControlStart, IInv, ConfigInv, ConfigOK
  <2> QED
    BY <2>1 DEF ControlStart, cfgVars, IInv, ConfigInv, ConfigOK, KeptIsFirst
<1> QED
  BY <1>5, <1>6, Untouched DEF ControlStart, loopVars, IInv, EarnedStep

\* The entry of the table the RPC loaded is an object.
LEMMA OpEntry ==
    ASSUME IInv, op # None, NEW b \in Backends, op.table[b] # None
    PROVE  op \in OpRec /\ op.table[b] \in Objs /\ obj[op.table[b]] \in ObjRec
<1>1. op \in OpRec
  BY DEF IInv, ControlInv, ControlOK
<1>2. op.table \in Table
  BY <1>1 DEF OpRec
<1>3. op.table[b] \in Objs
  BY <1>2 DEF Table
<1> QED
  BY <1>1, <1>3 DEF IInv, ObjInv, ObjOK

LEMMA ControlApplyStep ==
    ASSUME IInv, NEW b \in Backends, ControlApply(b)
    PROVE  IInv' /\ EarnedStep
<1> DEFINE o == op.table[b]
           manual == op.action \in {"SetUp", "SetDown"}
           snaps == op.action = "ResumeAutomatic" /\ Resolve(scopes, b) = "Automatic"
           to == IF snaps THEN obj[o].observed ELSE None
           snap == [b |-> b, to |-> to]
<1>1. op # None /\ op \in OpRec /\ op.snap = None
  BY DEF ControlApply, IInv, ControlInv, ControlOK
<1>2. UNCHANGED <<cfgVars, loopVars, envVars, worker, scopes, sync>>
  BY DEF ControlApply
<1>3. CASE o = None
  <2>1. obj' = obj /\ op' = [op EXCEPT !.todo = @ \ {b}]
    BY <1>3 DEF ControlApply
  <2>2. op.todo \ {b} \in SUBSET Backends
    BY <1>1 DEF OpRec
  <2>3. op' \in OpRec /\ op'.snap = None
    BY <1>1, <2>1, <2>2 DEF OpRec
  <2>4. ControlInv'
    BY <1>2, <2>3 DEF IInv, ControlInv, ControlOK, SnapsAreAutomatic
  <2> QED
    BY <1>2, <2>1, <2>4, Untouched DEF cfgVars, loopVars, envVars, IInv, EarnedStep
<1>4. CASE o # None
  <2>1. o \in Objs /\ obj[o] \in ObjRec
    BY <1>1, <1>4, OpEntry
  <2>2. ObjInv' /\ EarnedStep
    <3> DEFINE r == [obj[o] EXCEPT !.applied = IF op.action = "SetUp" THEN "Up" ELSE "Down"]
    <3>1. r \in ObjRec /\ r.succ = obj[o].succ /\ r.observed = obj[o].observed
      BY <2>1 DEF ObjRec, Liveness3
    <3>2. CASE manual
      <4>1. obj' = [obj EXCEPT ![o] = r]
        BY <1>4, <3>2 DEF ControlApply
      <4> QED
        BY <1>2, <2>1, <3>1, <4>1, CountsKept DEF IInv, loopVars
    <3>3. CASE ~manual
      BY <1>2, <1>4, <3>3, Untouched DEF ControlApply, loopVars, EarnedStep
    <3> QED
      BY <3>2, <3>3
  <2>3. to \in Liveness3 \cup {None} /\ (to # None => Resolve(scopes, b) = "Automatic")
    BY <2>1, ObjFields
  <2>4. op' = [op EXCEPT !.snap = snap]
    BY <1>4 DEF ControlApply
  <2> HIDE DEF to
  <2>5. snap \in SnapRec /\ snap.b = b /\ snap.to = to
    BY <2>3 DEF SnapRec
  <2> HIDE DEF snap
  <2>6. op' \in OpRec /\ op'.snap = snap /\ op'.table = op.table
    BY <1>1, <2>4, <2>5 DEF OpRec
  <2>7. SnapsAreAutomatic'
    BY <1>2, <1>4, <2>3, <2>5, <2>6 DEF SnapsAreAutomatic, Resolve
  <2>8. ControlInv'
    BY <1>2, <2>6, <2>7 DEF IInv, ControlInv, ControlOK
  <2> QED
    BY <1>2, <2>2, <2>8, Untouched DEF cfgVars, loopVars, envVars, IInv
<1> QED
  BY <1>3, <1>4

LEMMA ControlFlagStep ==
    ASSUME IInv, ControlFlag
    PROVE  IInv' /\ EarnedStep /\ FrozenStays
<1> DEFINE b == op.snap.b
           o == op.table[b]
           v == IF op.snap.to = None THEN obj[o].applied ELSE op.snap.to
           f == Resolve(scopes, b) = "Frozen"
           r == [obj[o] EXCEPT !.applied = v, !.frozen = f]
<1>1. op # None /\ op \in OpRec /\ op.snap \in SnapRec /\ o # None
  <2>1. op # None /\ op \in OpRec /\ op.snap # None
    BY DEF ControlFlag, IInv, ControlInv, ControlOK
  <2>2. op.snap \in SnapRec
    BY <2>1 DEF OpRec
  <2> QED
    BY <2>1, <2>2 DEF IInv, ControlInv, SnapsAreAutomatic
<1>2. b \in Backends /\ op.snap.to \in Liveness3 \cup {None}
  BY <1>1 DEF SnapRec
<1>3. o \in Objs /\ obj[o] \in ObjRec
  BY <1>1, <1>2, OpEntry
<1>4. v \in Liveness3 /\ f \in BOOLEAN
  BY <1>2, <1>3, ObjFields
<1>5. /\ obj' = [obj EXCEPT ![o] = r] /\ op' = [op EXCEPT !.todo = @ \ {b}, !.snap = None]
      /\ UNCHANGED <<cfgVars, loopVars, envVars, worker, scopes, sync>>
  BY DEF ControlFlag
<1> HIDE DEF v, f, o, b
<1>6. r \in ObjRec /\ r.succ = obj[o].succ /\ r.observed = obj[o].observed /\ r.applied = v
  BY <1>3, <1>4 DEF ObjRec
<1>7. ObjInv' /\ EarnedStep
  BY <1>3, <1>5, <1>6, CountsKept DEF IInv, loopVars
<1>8. ControlInv'
  <2>1. op.todo \ {b} \in SUBSET Backends
    BY <1>1 DEF OpRec
  <2>2. op' \in OpRec /\ op'.snap = None
    BY <1>1, <1>5, <2>1 DEF OpRec
  <2> QED
    BY <1>5, <2>2 DEF IInv, ControlInv, ControlOK, SnapsAreAutomatic
<1>9. FrozenStays
  <2> SUFFICES ASSUME NEW c \in Backends, scopes[c] = "Frozen", op.snap.b = c
               PROVE  obj'[op.table[c]].applied = obj[op.table[c]].applied
    BY DEF FrozenStays
  <2>1. b = c /\ o = op.table[c]
    BY DEF b, o
  <2>2. Resolve(scopes, c) # "Automatic"
    BY DEF Resolve
  <2>3. op.snap.to = None
    BY <1>1, <2>2 DEF ControlFlag, IInv, ControlInv, SnapsAreAutomatic
  <2>4. v = obj[o].applied
    BY <2>3 DEF v
  <2>5. obj'[o] = r
    BY <1>3, <1>5, <1>6 DEF IInv, ObjInv, ObjOK
  <2> QED
    BY <1>6, <2>1, <2>4, <2>5
<1> QED
  BY <1>5, <1>7, <1>8, <1>9, Untouched DEF cfgVars, loopVars, envVars, IInv

LEMMA ControlReturnStep ==
    ASSUME IInv, ControlReturn
    PROVE  IInv' /\ EarnedStep
<1>1. ControlInv'
  BY DEF ControlReturn, IInv, ControlInv, ControlOK, SnapsAreAutomatic
<1> QED
  BY <1>1, Untouched DEF ControlReturn, cfgVars, loopVars, envVars, IInv, EarnedStep

LEMMA SyncStep ==
    ASSUME IInv, SyncStore \/ \E b \in Backends : SyncResolve(b)
    PROVE  IInv' /\ EarnedStep
<1>1. ASSUME NEW b \in Backends, SyncResolve(b)
      PROVE  IInv' /\ EarnedStep
  <2> DEFINE f == Resolve(scopes, b) = "Frozen"
  <2>1. table[b] \in Objs /\ f \in BOOLEAN /\ sync' = [obj |-> table[b], frozen |-> f]
    BY <1>1, TableEntry DEF SyncResolve
  <2> HIDE DEF f
  <2>2. sync' \in SyncRec
    BY <2>1 DEF SyncRec
  <2>3. ControlInv'
    BY <1>1, <2>2 DEF SyncResolve, IInv, ControlInv, ControlOK, SnapsAreAutomatic
  <2> QED
    BY <1>1, <2>3, Untouched DEF SyncResolve, cfgVars, loopVars, envVars, IInv, EarnedStep
<1>2. CASE SyncStore
  <2> DEFINE o == sync.obj
             r == [obj[o] EXCEPT !.frozen = sync.frozen]
  <2>1. sync \in SyncRec
    BY <1>2 DEF SyncStore, IInv, ControlInv, ControlOK
  <2>2. o \in Objs /\ sync.frozen \in BOOLEAN
    BY <2>1 DEF SyncRec
  <2>3. obj[o] \in ObjRec
    BY <2>2 DEF IInv, ObjInv, ObjOK
  <2>4. r \in ObjRec /\ r.succ = obj[o].succ /\ r.observed = obj[o].observed
    BY <2>2, <2>3 DEF ObjRec
  <2>5. /\ obj' = [obj EXCEPT ![o] = r] /\ sync' = None
        /\ UNCHANGED <<cfgVars, loopVars, envVars, worker, scopes, op>>
    BY <1>2 DEF SyncStore
  <2>6. ObjInv' /\ EarnedStep
    BY <2>2, <2>4, <2>5, CountsKept DEF IInv, loopVars
  <2>7. ControlInv'
    BY <2>5 DEF IInv, ControlInv, ControlOK, SnapsAreAutomatic
  <2> QED
    BY <2>5, <2>6, <2>7, Untouched DEF cfgVars, loopVars, envVars, IInv
<1> QED
  BY <1>1, <1>2

-----------------------------------------------------------------------------
(* Reload.                                                                 *)
LEMMA ReloadSwapStep ==
    ASSUME IInv, NEW c \in Semantics, ReloadSwap(c)
    PROVE  IInv' /\ EarnedStep
<1>1. admin' \in 0 .. MaxAdmin
  BY HealthAssumption, SMT DEF ReloadSwap, IInv, ConfigInv, ConfigOK
<1>2. kept' \in [Backends -> BOOLEAN]
  BY DEF ReloadSwap, IInv, ConfigInv, ConfigOK
<1>3. ConfigOK'
  BY <1>1, <1>2 DEF ReloadSwap, IInv, ConfigInv, ConfigOK
<1>4. KeptIsFirst'
  <2> SUFFICES ASSUME NEW b \in Backends, kept'[b]
               PROVE  /\ cfg'[b] # None /\ table'[b] = <<b, 0>>
                      /\ reload' # None => reload'[b] = cfg'[b]
    BY DEF KeptIsFirst
  <2>1. kept[b] /\ c[b] = cfg[b]
    BY DEF ReloadSwap
  <2> QED
    BY <2>1 DEF ReloadSwap, IInv, ConfigInv, KeptIsFirst
<1> QED
  BY <1>3, <1>4, Untouched DEF ReloadSwap, ctlVars, loopVars, IInv, ConfigInv, EarnedStep

\* reconcile keeps the entry of a kept backend: its semantics are the ones of
\* the snapshot before, and it has an entry.
LEMMA ReconcileStep ==
    ASSUME IInv, ReconcileHealth
    PROVE  IInv' /\ EarnedStep
<1>1. \A b \in Backends : <<b, admin>> \in Objs
  BY SMT DEF IInv, ConfigInv, ConfigOK, Objs
<1>2. table' \in Table
  BY <1>1 DEF ReconcileHealth, Table, IInv, ConfigInv, ConfigOK
<1>3. ConfigOK'
  BY <1>2 DEF ReconcileHealth, envVars, IInv, ConfigInv, ConfigOK
<1>4. KeptIsFirst'
  <2> SUFFICES ASSUME NEW b \in Backends, kept[b]
               PROVE  cfg[b] # None /\ table'[b] = <<b, 0>>
    BY DEF KeptIsFirst, ReconcileHealth
  <2>1. cfg[b] # None /\ table[b] = <<b, 0>> /\ reload[b] = cfg[b]
    BY DEF ReconcileHealth, IInv, ConfigInv, KeptIsFirst
  <2>2. <<b, 0>> # None
    BY HealthAssumption, SMT
  <2> QED
    BY <2>1, <2>2 DEF ReconcileHealth, Preserved
<1> QED
  BY <1>3, <1>4, Untouched DEF ReconcileHealth, loopVars, envVars, IInv, ConfigInv, EarnedStep

-----------------------------------------------------------------------------
\* Every step keeps the invariant and does what UpIsEarned says.
LEMMA NextStep ==
    ASSUME IInv, [Next]_vars
    PROVE  IInv' /\ EarnedStep
<1>1. ASSUME NEW b \in Backends, Flap(b)
      PROVE  IInv' /\ EarnedStep
  BY <1>1, Untouched DEF Flap, cfgVars, ctlVars, IInv, EarnedStep
<1>2. CASE UNCHANGED vars
  BY <1>2, Untouched DEF vars, cfgVars, ctlVars, loopVars, envVars, IInv, EarnedStep
<1>3. CASE ControlStep
  BY <1>3, ControlFlagStep, ControlReturnStep, ControlApplyStep DEF ControlStep
<1>4. ASSUME NEW c \in [Backends -> Sems \cup {None}], ReloadSwap(c)
      PROVE  IInv' /\ EarnedStep
  BY <1>4, ReloadSwapStep DEF Semantics
<1> QED
  BY <1>1, <1>2, <1>3, <1>4, ProbeLoopStep, FoldStep, PassiveStep, PassiveStart, ControlStartStep,
     SyncStep, ReconcileStep DEF Next

\* The invariant holds throughout, whatever the operator, the traffic, the
\* reloads and the network do.
THEOREM Inductive == Spec => []IInv
<1>1. IInv /\ [Next]_vars => IInv'
  BY NextStep
<1> QED
  BY InitInv, <1>1, PTL DEF Spec

\* A reload keeps the state object of a backend it does not change: the probe
\* loop, which took its objects from the first snapshot, and the routes, which
\* look them up in the reconciled table, see one state (reconcile).
THEOREM KeptBackendsStayProbed == Spec => []KeptBackendIsProbed
<1>1. IInv => KeptBackendIsProbed
  BY HealthAssumption
  DEF IInv, LoopInv, LoopHoldsFirst, ConfigInv, KeptIsFirst, KeptBackendIsProbed
<1> QED
  BY Inductive, <1>1, PTL

\* Only rise own successes in a row mark a backend up, for every rise, and a
\* resume of a pool or of all backends leaves a backend frozen by its own
\* scope as it is routed (record_success, classify_response, resolve).
THEOREM UpIsAlwaysEarned == Spec => UpIsEarned
<1>1. IInv /\ [Next]_vars => EarnedStep /\ FrozenStays
  <2> SUFFICES ASSUME IInv, [Next]_vars PROVE EarnedStep /\ FrozenStays
    OBVIOUS
  <2>1. EarnedStep
    BY NextStep
  <2>2. FrozenStays
    BY ControlFlagStep DEF FrozenStays
  <2> QED
    BY <2>1, <2>2
<1>2. EarnedStep /\ FrozenStays =>
        /\ \A o \in Objs :
            obj'[o].observed = "Up" /\ obj[o].observed # "Up" => streak'[o] >= AtLeast1(Rise)
        /\ \A b \in Backends :
            op # None /\ op.action = "ResumeAutomatic" /\ scopes[b] = "Frozen" /\ ControlFlag
            /\ op.snap.b = b => obj'[op.table[b]].applied = obj[op.table[b]].applied
  BY DEF EarnedStep, FrozenStays
<1> QED
  BY Inductive, <1>1, <1>2, PTL DEF Spec, UpIsEarned
=============================================================================
