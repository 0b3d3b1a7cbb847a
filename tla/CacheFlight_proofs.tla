------------------------- MODULE CacheFlight_proofs -------------------------
(***************************************************************************)
(* For any number of slots and gates, in both modes and with any outcomes: *)
(* a LookupResume reaches only the lookup it was meant for.                *)
(***************************************************************************)
EXTENDS CacheFlight, FiniteSetTheorems, TLAPS

\* where a transaction holds a reference to a gate
Referring == {"register", "blocked", "unblock", "insert", "complete", "remove",
              "resumeread", "resumeresult", "resumehit"}

Places == Referring \cup {"idle", "read", "gate", "parked", "reread", "forward", "fillgate",
                          "wake", "resume"}

TypeOK ==
    /\ async \in BOOLEAN
    /\ current \in Gates \cup {None}
    /\ gates \in [Gates -> [leader : BOOLEAN, result : BOOLEAN, waiters : SUBSET Slots]]
    /\ at \in [Slots -> Places]
    /\ ref \in [Slots -> Gates \cup {None}]
    /\ taken \in [Slots -> SUBSET Slots]
    /\ wake \subseteq Slots

HoldsItsGate == \A t \in Slots : at[t] \in Referring => ref[t] \in Gates

\* The three places a wake of slot t can be in
OnGate(t, g) == ~Dropped(g) /\ t \in gates[g].waiters

(***************************************************************************)
(* A slot that can be woken is parked, and its wake is in one place only:  *)
(* on one gate, with one transaction that completed it, or in the queue.   *)
(***************************************************************************)
OneToken(t) ==
    /\ \A g \in Gates : OnGate(t, g) =>
          /\ at[t] = "parked" /\ t \notin wake
          /\ \A u \in Slots : t \notin taken[u]
          /\ \A h \in Gates : OnGate(t, h) => h = g
    /\ \A u \in Slots : t \in taken[u] =>
          /\ at[t] = "parked" /\ t \notin wake
          /\ \A v \in Slots : t \in taken[v] => v = u
    /\ t \in wake => at[t] = "parked"

IInv == TypeOK /\ HoldsItsGate /\ \A t \in Slots : OneToken(t)

-----------------------------------------------------------------------------
LEMMA InitIInv == Init => IInv
<1> SUFFICES ASSUME Init PROVE IInv
  OBVIOUS
<1> USE DEF Init
<1>1. TypeOK
  BY CacheFlightAssumption DEF TypeOK, NewGate, Places
<1>2. HoldsItsGate
  BY DEF HoldsItsGate, Referring
<1>3. \A t \in Slots : OneToken(t)
  BY DEF OneToken, OnGate, NewGate
<1> QED
  BY <1>1, <1>2, <1>3 DEF IInv

(* gate_for hands out a gate; the one it makes is empty, and no gate that  *)
(* was forgotten comes back with its waiters.                              *)
LEMMA GateForType ==
    ASSUME TypeOK, NEW t \in Slots, GateFor(t)
    PROVE  /\ current' \in Gates
           /\ gates' \in [Gates -> [leader : BOOLEAN, result : BOOLEAN, waiters : SUBSET Slots]]
           /\ ref' \in [Slots -> Gates \cup {None}] /\ ref'[t] \in Gates
           /\ \A u \in Slots : u # t => ref'[u] = ref[u]
<1>1. CASE current # None
  BY <1>1 DEF TypeOK, GateFor
<1>2. CASE current = None
  <2>1. PICK h \in Gates : current' = h /\ gates' = [gates EXCEPT ![h] = NewGate]
                           /\ ref' = [ref EXCEPT ![t] = h]
    BY <1>2 DEF GateFor
  <2>2. NewGate \in [leader : BOOLEAN, result : BOOLEAN, waiters : SUBSET Slots]
    BY DEF NewGate
  <2> QED
    BY <2>1, <2>2 DEF TypeOK
<1> QED
  BY <1>1, <1>2

LEMMA GateForTokens ==
    ASSUME TypeOK, NEW t \in Slots, GateFor(t), NEW s \in Slots, NEW g \in Gates, OnGate(s, g)'
    PROVE  OnGate(s, g)
<1>1. CASE current # None
  <2>1. current' = current /\ gates' = gates /\ ref' = [ref EXCEPT ![t] = current]
    BY <1>1 DEF GateFor
  <2>2. ASSUME Dropped(g) PROVE Dropped(g)'
    BY <2>1, <2>2 DEF Dropped, TypeOK
  <2> QED
    BY <2>1, <2>2 DEF OnGate
<1>2. CASE current = None
  <2>1. PICK h \in Gates : current' = h /\ gates' = [gates EXCEPT ![h] = NewGate]
                           /\ ref' = [ref EXCEPT ![t] = h]
    BY <1>2 DEF GateFor
  <2>2. g # h
    BY <2>1 DEF OnGate, NewGate, TypeOK
  <2>3. gates'[g] = gates[g]
    BY <2>1, <2>2 DEF TypeOK
  <2>4. ASSUME Dropped(g) PROVE Dropped(g)'
    BY <2>1, <2>2, <2>4 DEF Dropped, TypeOK
  <2> QED
    BY <2>3, <2>4 DEF OnGate
<1> QED
  BY <1>1, <1>2

(* Steps that only let go of gates.                                        *)
LEMMA LettingGo ==
    ASSUME gates' = gates, current' \in {current, None},
           \A u \in Slots : ref'[u] \in {ref[u], None},
           NEW s \in Slots, NEW g \in Gates, OnGate(s, g)'
    PROVE  OnGate(s, g)
BY CacheFlightAssumption DEF OnGate, Dropped

(* A step that makes no token and moves no parked slot.                    *)
LEMMA NoNewTokens ==
    ASSUME NEW t \in Slots, OneToken(t),
           \A g \in Gates : OnGate(t, g)' => OnGate(t, g),
           taken' = taken, wake' = wake, at[t] = "parked" => at'[t] = "parked"
    PROVE  OneToken(t)'
BY DEF OneToken

-----------------------------------------------------------------------------
(* The steps that touch no gate but their own reference and no token.      *)
LEMMA QuietStep ==
    ASSUME IInv, NEW t \in Slots, NEW from \in Places \ {"parked"}, NEW to \in Places,
           Goto(t, from, to), async' = async, taken' = taken, wake' = wake, gates' = gates,
           current' \in {current, None},
           \/ ref' = ref /\ (to \in Referring => from \in Referring)
           \/ DropRef(t) /\ to \notin Referring
    PROVE  IInv'
<1> USE DEF IInv
<1>1. at' = [at EXCEPT ![t] = to] /\ at[t] = from
  BY DEF Goto
<1>2. ref' \in [Slots -> Gates \cup {None}]
  BY DEF TypeOK, DropRef
<1>3. TypeOK'
  BY <1>1, <1>2, Zenon DEF TypeOK
<1>4. HoldsItsGate'
  BY <1>1 DEF HoldsItsGate, TypeOK, DropRef
<1>5. \A u \in Slots : ref'[u] \in {ref[u], None}
  BY DEF TypeOK, DropRef
<1>6. ASSUME NEW s \in Slots PROVE OneToken(s)'
  <2>1. at[s] = "parked" => at'[s] = "parked"
    BY <1>1 DEF TypeOK
  <2> QED
    BY <1>5, <2>1, LettingGo, NoNewTokens
<1> QED
  BY <1>3, <1>4, <1>6

(* The steps that ask the table for the key's gate.                        *)
LEMMA GateStep ==
    ASSUME IInv, NEW t \in Slots, NEW from \in Places \ {"parked"}, NEW to \in Places,
           Goto(t, from, to), async' = async, taken' = taken, wake' = wake, GateFor(t)
    PROVE  IInv'
<1> USE DEF IInv
<1>1. at' = [at EXCEPT ![t] = to] /\ at[t] = from
  BY DEF Goto
<1>2. TypeOK'
  BY <1>1, GateForType DEF TypeOK
<1>3. HoldsItsGate'
  BY <1>1, GateForType DEF HoldsItsGate, TypeOK
<1>4. ASSUME NEW s \in Slots PROVE OneToken(s)'
  <2>1. at[s] = "parked" => at'[s] = "parked"
    BY <1>1 DEF TypeOK
  <2> QED
    BY <2>1, GateForTokens, NoNewTokens
<1> QED
  BY <1>2, <1>3, <1>4

(* register: a follower parks with its one token, a leader starts afresh.  *)
LEMMA RegisterStep ==
    ASSUME IInv, NEW t \in Slots, Register(t), async' = async
    PROVE  IInv'
<1> DEFINE r == ref[t]
<1>1. r \in Gates /\ at[t] = "register" /\ TypeOK /\ HoldsItsGate
  BY DEF IInv, HoldsItsGate, Register, Referring
<1>2. taken' = taken /\ wake' = wake /\ current' = current
  BY DEF Register
<1>3. CASE gates[r].leader /\ ~async
  <2>1. Goto(t, "register", "blocked") /\ gates' = gates /\ ref' = ref
    BY <1>3 DEF Register, Goto
  <2> QED
    BY <1>2, <2>1, QuietStep DEF Places, Referring
<1>4. CASE gates[r].leader /\ async
  <2>1. /\ gates' = [gates EXCEPT ![r].waiters = @ \cup {t}]
        /\ at' = [at EXCEPT ![t] = "parked"] /\ ref' = [ref EXCEPT ![t] = None]
    BY <1>4 DEF Register, DropRef
  <2>2. TypeOK' /\ HoldsItsGate'
    BY <1>1, <1>2, <2>1 DEF TypeOK, HoldsItsGate, Places, Referring
  <2>3. ASSUME NEW s \in Slots, NEW g \in Gates, OnGate(s, g)' PROVE OnGate(s, g) \/ (s = t /\ g = r)
    <3>1. s \in gates[g].waiters \/ (s = t /\ g = r)
      BY <1>1, <2>1, <2>3 DEF OnGate, TypeOK
    <3>2. Dropped(g) => Dropped(g)'
      BY <1>1, <1>2, <2>1, CacheFlightAssumption DEF Dropped, TypeOK
    <3> QED
      BY <2>3, <3>1, <3>2 DEF OnGate
  <2>4. ASSUME NEW s \in Slots PROVE OneToken(s)'
    <3>1. CASE s # t
      <4>1. at[s] = "parked" => at'[s] = "parked"
        BY <1>1, <2>1, <3>1 DEF TypeOK
      <4> QED
        BY <1>2, <2>3, <3>1, <4>1, NoNewTokens DEF IInv
    <3>2. CASE s = t
      <4>1. (\A g \in Gates : ~OnGate(t, g)) /\ (\A u \in Slots : t \notin taken[u]) /\ t \notin wake
        BY <1>1 DEF IInv, OneToken
      <4>2. at'[t] = "parked"
        BY <1>1, <2>1 DEF TypeOK
      <4> QED
        BY <1>2, <2>3, <3>2, <4>1, <4>2 DEF OneToken
    <3> QED
      BY <3>1, <3>2
  <2> QED
    BY <2>2, <2>4 DEF IInv
<1>5. CASE ~gates[r].leader
  <2>1. /\ gates' = [gates EXCEPT ![r] = [NewGate EXCEPT !.leader = TRUE]]
        /\ at' = [at EXCEPT ![t] = "forward"] /\ ref' = [ref EXCEPT ![t] = None]
    BY <1>5 DEF Register, DropRef
  <2>2. /\ [NewGate EXCEPT !.leader = TRUE]
              \in [leader : BOOLEAN, result : BOOLEAN, waiters : SUBSET Slots]
        /\ [NewGate EXCEPT !.leader = TRUE].waiters = {}
    BY Zenon DEF NewGate
  <2>3. TypeOK' /\ HoldsItsGate'
    BY <1>1, <1>2, <2>1, <2>2 DEF TypeOK, HoldsItsGate, Places, Referring
  <2>4. ASSUME NEW s \in Slots, NEW g \in Gates, OnGate(s, g)' PROVE OnGate(s, g)
    <3>1. s \in gates[g].waiters
      BY <1>1, <2>1, <2>2, <2>4 DEF OnGate, TypeOK
    <3>2. Dropped(g) => Dropped(g)'
      BY <1>1, <1>2, <2>1, CacheFlightAssumption DEF Dropped, TypeOK
    <3> QED
      BY <2>4, <3>1, <3>2 DEF OnGate
  <2>5. ASSUME NEW s \in Slots PROVE OneToken(s)'
    <3>1. at[s] = "parked" => at'[s] = "parked"
      BY <1>1, <2>1 DEF TypeOK
    <3> QED
      BY <1>2, <2>4, <3>1, NoNewTokens DEF IInv
  <2> QED
    BY <2>3, <2>5 DEF IInv
<1> QED
  BY <1>3, <1>4, <1>5

(* complete: the waiters of the gate move to the transaction.              *)
LEMMA CompleteStep ==
    ASSUME IInv, NEW t \in Slots, Complete(t), async' = async
    PROVE  IInv'
<1> DEFINE r == ref[t]
           gate == [NewGate EXCEPT !.result = wire[t] = "answer"]
           woken == IF wire[t] = "uncacheable" THEN {} ELSE gates[r].waiters
<1>1. r \in Gates /\ at[t] = "complete" /\ TypeOK /\ HoldsItsGate
  BY DEF IInv, HoldsItsGate, Complete, Goto, Referring
<1>2. /\ wake' = wake /\ current' = current /\ ref' = ref
      /\ at' = [at EXCEPT ![t] = "remove"]
      /\ gates' = [gates EXCEPT ![r] = gate]
      /\ taken' = [taken EXCEPT ![t] = woken]
  BY DEF Complete, Goto
<1>3. gate \in [leader : BOOLEAN, result : BOOLEAN, waiters : SUBSET Slots] /\ gate.waiters = {}
  BY Zenon DEF NewGate
<1> HIDE DEF gate
<1>4. woken \subseteq gates[r].waiters /\ woken \subseteq Slots
  BY <1>1 DEF TypeOK
<1> HIDE DEF woken
<1>5. TypeOK'
  BY <1>1, <1>2, <1>3, <1>4 DEF TypeOK, Places, Referring
<1>6. HoldsItsGate'
  BY <1>1, <1>2 DEF HoldsItsGate, TypeOK, Referring
<1>7. ASSUME NEW s \in Slots, NEW g \in Gates, OnGate(s, g)' PROVE OnGate(s, g) /\ g # r
  BY <1>1, <1>2, <1>3, <1>7 DEF OnGate, Dropped, TypeOK
<1>8. \A s \in woken : OnGate(s, r)
  BY <1>1, <1>4 DEF OnGate, Dropped
<1>9. ASSUME NEW s \in Slots PROVE OneToken(s)'
  <2>1. at[s] = "parked" => at'[s] = "parked"
    BY <1>1, <1>2 DEF TypeOK
  <2>2. OneToken(s)
    BY DEF IInv
  <2>3. \A u \in Slots : s \in taken'[u] => (u = t /\ s \in woken) \/ (u # t /\ s \in taken[u])
    BY <1>1, <1>2 DEF TypeOK
  <2>4. CASE s \in woken
    <3>1. at[s] = "parked" /\ s \notin wake /\ \A u \in Slots : s \notin taken[u]
      BY <1>1, <1>8, <2>2, <2>4 DEF OneToken
    <3>2. \A g \in Gates : ~OnGate(s, g)'
      BY <1>1, <1>7, <1>8, <2>2, <2>4 DEF OneToken
    <3> QED
      BY <1>2, <2>1, <2>3, <3>1, <3>2 DEF OneToken
  <2>5. CASE s \notin woken
    BY <1>2, <1>7, <2>1, <2>2, <2>3, <2>5 DEF OneToken
  <2> QED
    BY <2>4, <2>5
<1> QED
  BY <1>5, <1>6, <1>9 DEF IInv

(* wake_waiters: a token moves to the policy queue.                        *)
LEMMA WakeStep ==
    ASSUME IInv, NEW t \in Slots, WakeWaiters(t), async' = async
    PROVE  IInv'
<1>1. CASE taken[t] = {}
  <2>1. Goto(t, "wake", "idle") /\ gates' = gates /\ ref' = ref /\ current' = current
        /\ taken' = taken /\ wake' = wake
    BY <1>1 DEF WakeWaiters, Goto
  <2> QED
    BY <2>1, QuietStep DEF Places, Referring
<1>2. CASE taken[t] # {}
  <2>1. PICK u \in taken[t] : taken' = [taken EXCEPT ![t] = @ \ {u}] /\ wake' = wake \cup {u}
                              /\ at' = at
    BY <1>2 DEF WakeWaiters
  <2>2. gates' = gates /\ ref' = ref /\ current' = current
    BY DEF WakeWaiters
  <2>3. TypeOK /\ HoldsItsGate /\ u \in Slots
    BY DEF IInv, TypeOK
  <2>4. TypeOK' /\ HoldsItsGate'
    BY <2>1, <2>2, <2>3 DEF TypeOK, HoldsItsGate
  <2>5. \A s \in Slots, g \in Gates : OnGate(s, g)' <=> OnGate(s, g)
    BY <2>2 DEF OnGate, Dropped
  <2>6. ASSUME NEW s \in Slots PROVE OneToken(s)'
    <3>1. OneToken(s) /\ OneToken(u)
      BY <2>3 DEF IInv
    <3>2. CASE s = u
      <4>1. at[u] = "parked" /\ (\A v \in Slots : u \in taken[v] => v = t)
        BY <2>3, <3>1 DEF OneToken
      <4>2. \A v \in Slots : u \notin taken'[v]
        BY <2>1, <2>3, <4>1 DEF TypeOK
      <4>3. \A g \in Gates : ~OnGate(u, g)
        BY <2>3, <3>1 DEF OneToken
      <4> QED
        BY <2>1, <2>5, <3>2, <4>1, <4>2, <4>3 DEF OneToken
    <3>3. CASE s # u
      <4>1. \A v \in Slots : s \in taken'[v] <=> s \in taken[v]
        BY <2>1, <2>3, <3>3 DEF TypeOK
      <4>2. s \in wake' <=> s \in wake
        BY <2>1, <3>3
      <4> QED
        BY <2>1, <2>5, <3>1, <4>1, <4>2 DEF OneToken
    <3> QED
      BY <3>2, <3>3
  <2> QED
    BY <2>4, <2>6 DEF IInv
<1> QED
  BY <1>1, <1>2

(* process_lookup_resume: the token is spent and the slot leaves IoWait.   *)
LEMMA PopWakeStep ==
    ASSUME IInv, NEW t \in Slots, PopWake(t), async' = async
    PROVE  IInv'
<1>1. TypeOK /\ HoldsItsGate /\ t \in wake
  BY DEF IInv, PopWake
<1>2. at[t] = "parked"
  BY <1>1 DEF IInv, OneToken
<1>3. PICK to \in {"resume", "idle"} : at' = [at EXCEPT ![t] = to]
  BY <1>2 DEF PopWake, Goto
<1>4. wake' = wake \ {t} /\ gates' = gates /\ ref' = ref /\ current' = current /\ taken' = taken
  BY DEF PopWake
<1>5. TypeOK' /\ HoldsItsGate'
  BY <1>1, <1>3, <1>4 DEF TypeOK, HoldsItsGate, Places, Referring
<1>6. \A s \in Slots, g \in Gates : OnGate(s, g)' <=> OnGate(s, g)
  BY <1>4 DEF OnGate, Dropped
<1>7. ASSUME NEW s \in Slots PROVE OneToken(s)'
  <2>1. OneToken(s)
    BY DEF IInv
  <2>2. CASE s = t
    <3>1. (\A g \in Gates : ~OnGate(t, g)) /\ \A u \in Slots : t \notin taken[u]
      BY <1>1, <2>1, <2>2 DEF OneToken
    <3> QED
      BY <1>4, <1>6, <2>2, <3>1 DEF OneToken
  <2>3. CASE s # t
    <3>1. at'[s] = at[s] /\ (s \in wake' <=> s \in wake)
      BY <1>1, <1>3, <1>4, <2>3 DEF TypeOK
    <3> QED
      BY <1>4, <1>6, <2>1, <3>1 DEF OneToken
  <2> QED
    BY <2>2, <2>3
<1> QED
  BY <1>5, <1>7 DEF IInv

-----------------------------------------------------------------------------
LEMMA NextIInv == IInv /\ [Next]_vars => IInv'
<1> SUFFICES ASSUME IInv, [Next]_vars PROVE IInv'
  OBVIOUS
<1> USE DEF Places, Referring
<1>1. CASE UNCHANGED vars
  BY <1>1 DEF vars, IInv, TypeOK, HoldsItsGate, OneToken, OnGate, Dropped
<1>2. CASE UNCHANGED async /\ Evict
  BY <1>2 DEF Evict, IInv, TypeOK, HoldsItsGate, OneToken, OnGate, Dropped
<1>3. ASSUME NEW t \in Slots, UNCHANGED async, Start(t) \/ SlotStep(t) PROVE IInv'
  <2>1. CASE Start(t)
    BY <1>3, <2>1, QuietStep DEF Start
  <2>2. CASE ReadHit(t)
    <3>1. PICK to \in {"idle", "forward", "gate"} : Goto(t, "read", to)
      BY <2>2 DEF ReadHit
    <3> QED
      BY <1>3, <2>2, <3>1, QuietStep DEF ReadHit
  <2>3. CASE LookupGate(t)
    BY <1>3, <2>3, GateStep DEF LookupGate
  <2>4. CASE Register(t)
    BY <1>3, <2>4, RegisterStep
  <2>5. CASE BlockedWakes(t) \/ BlockedTimeout(t)
    BY <1>3, <2>5, QuietStep DEF BlockedWakes, BlockedTimeout
  <2>6. CASE UnblockRemove(t)
    BY <1>3, <2>6, QuietStep DEF UnblockRemove
  <2>7. CASE UnblockRead(t)
    <3>1. PICK to \in {"idle", "forward"} : Goto(t, "reread", to)
      BY <2>7 DEF UnblockRead
    <3> QED
      BY <1>3, <2>7, <3>1, QuietStep DEF UnblockRead
  <2>8. ASSUME NEW outcome \in Outcomes, ForwardEnds(t, outcome) PROVE IInv'
    <3>1. PICK to \in {"fillgate", "idle"} : Goto(t, "forward", to)
      BY <2>8 DEF ForwardEnds
    <3> QED
      BY <1>3, <2>8, <3>1, QuietStep DEF ForwardEnds
  <2>9. CASE FillGate(t)
    <3>1. PICK to \in {"insert", "complete"} : Goto(t, "fillgate", to)
      BY <2>9 DEF FillGate
    <3> QED
      BY <1>3, <2>9, <3>1, GateStep DEF FillGate
  <2>10. CASE Insert(t)
    BY <1>3, <2>10, QuietStep DEF Insert
  <2>11. CASE Complete(t)
    BY <1>3, <2>11, CompleteStep
  <2>12. CASE RemoveKey(t)
    BY <1>3, <2>12, QuietStep DEF RemoveKey
  <2>13. CASE WakeWaiters(t)
    BY <1>3, <2>13, WakeStep
  <2>14. CASE PopWake(t)
    BY <1>3, <2>14, PopWakeStep
  <2>15. CASE ResumeGate(t)
    BY <1>3, <2>15, GateStep DEF ResumeGate
  <2>16. CASE ResumeRead(t)
    <3>1. PICK to \in {"resumehit", "resumeresult"} : Goto(t, "resumeread", to)
      BY <2>16 DEF ResumeRead
    <3> QED
      BY <1>3, <2>16, <3>1, QuietStep DEF ResumeRead
  <2>17. CASE ResumeResult(t)
    BY <1>3, <2>17, QuietStep DEF ResumeResult
  <2>18. CASE ResumeHit(t)
    <3>1. PICK to \in {"idle", "forward"} : Goto(t, "resumehit", to)
      BY <2>18 DEF ResumeHit
    <3> QED
      BY <1>3, <2>18, <3>1, QuietStep DEF ResumeHit
  <2> QED
    BY <1>3, <2>1, <2>2, <2>3, <2>4, <2>5, <2>6, <2>7, <2>8, <2>9, <2>10, <2>11, <2>12, <2>13,
       <2>14, <2>15, <2>16, <2>17, <2>18
    DEF SlotStep
<1> QED
  BY <1>1, <1>2, <1>3 DEF Next

(* Tokens are where OneToken says.                                         *)
THEOREM Inductive == Spec => []IInv
BY InitIInv, NextIInv, PTL DEF Spec

LEMMA AtMostOne ==
    ASSUME NEW S, \A x, y \in S : x = y
    PROVE  Cardinality(S) = 0 \/ (Cardinality(S) = 1 /\ \E x : x \in S)
<1>1. CASE S = {}
  BY <1>1, FS_EmptySet
<1>2. CASE S # {}
  <2>1. PICK x : S = {x}
    BY <1>2
  <2> QED
    BY <2>1, FS_Singleton
<1> QED
  BY <1>1, <1>2

(* In either runtime, with any interleaving of leaders, followers and      *)
(* evictions: a slot has at most one wake on its way, and only while it is *)
(* parked on the cache.                                                    *)
THEOREM WakesAreNeverStale == Spec => []NoStaleWake
<1>1. IInv => NoStaleWake
  <2> SUFFICES ASSUME IInv, NEW t \in Slots
               PROVE  Tokens(t) <= 1 /\ (Tokens(t) = 1 => at[t] = "parked")
    BY DEF NoStaleWake
  <2> DEFINE G == {g \in Gates : ~Dropped(g) /\ t \in gates[g].waiters}
             U == {u \in Slots : t \in taken[u]}
             q == IF t \in wake THEN 1 ELSE 0
  <2>1. OneToken(t)
    BY DEF IInv
  <2>2. Cardinality(G) = 0 \/ (Cardinality(G) = 1 /\ \E g : g \in G)
    <3>1. \A g, h \in G : g = h
      BY <2>1 DEF OneToken, OnGate
    <3> QED
      BY <3>1, AtMostOne
  <2>3. Cardinality(U) = 0 \/ (Cardinality(U) = 1 /\ \E u : u \in U)
    <3>1. \A u, v \in U : u = v
      BY <2>1 DEF OneToken
    <3> QED
      BY <3>1, AtMostOne
  <2>4. \A g \in G : at[t] = "parked" /\ t \notin wake /\ U = {}
    BY <2>1 DEF OneToken, OnGate
  <2>5. \A u \in U : at[t] = "parked" /\ t \notin wake
    BY <2>1 DEF OneToken
  <2>6. t \in wake => at[t] = "parked"
    BY <2>1 DEF OneToken
  <2>7. Tokens(t) = Cardinality(G) + Cardinality(U) + q
    BY DEF Tokens
  <2> HIDE DEF G, U
  <2>8. CASE \E g : g \in G
    <3>1. U = {} /\ q = 0 /\ at[t] = "parked"
      BY <2>4, <2>8
    <3>2. Cardinality(U) = 0
      BY <3>1, FS_EmptySet
    <3> HIDE DEF q
    <3> QED
      BY <2>2, <2>7, <3>1, <3>2
  <2>9. CASE ~\E g : g \in G
    <3>1. CASE \E u : u \in U
      <4>1. q = 0 /\ at[t] = "parked"
        BY <2>5, <3>1
      <4> HIDE DEF q
      <4> QED
        BY <2>2, <2>3, <2>7, <2>9, <4>1
    <3>2. CASE ~\E u : u \in U
      BY <2>2, <2>3, <2>6, <2>7, <2>9, <3>2
    <3> QED
      BY <3>1, <3>2
  <2> QED
    BY <2>8, <2>9
<1> QED
  BY <1>1, Inductive, PTL

=============================================================================
