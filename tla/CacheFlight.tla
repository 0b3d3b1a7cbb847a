---------------------------- MODULE CacheFlight -----------------------------
(***************************************************************************)
(* Single-flight coalescing of cache misses for one key                    *)
(* (lookup/cache/{inflight,registry}.rs and lookup/stage.rs).              *)
(*                                                                         *)
(* The in-flight table maps the key to a gate.  gate_for, register,        *)
(* complete and remove are separate critical sections, and a leader does   *)
(* not keep its gate across the forward: it asks the table again when the  *)
(* answer is there.  So a gate may be removed from the table while a       *)
(* transaction that fetched it has not registered on it yet.               *)
(*                                                                         *)
(* `async' is the split_io mode: a follower parks its slot and is resumed  *)
(* by LookupResume.  Otherwise (sync) it blocks on the gate for 30 s at    *)
(* most.                                                                   *)
(***************************************************************************)
EXTENDS Naturals, FiniteSets

CONSTANTS Slots,        \* transaction slots; txn.id is the slot index in split_io
          MaxLookups,   \* bound: lookups started, by all slots together
          Gates,        \* identities of gates, reused once nobody refers to one
          None,
          Modes,        \* the values async_coalesce may have
          Outcomes      \* what a forward may end with, see ForwardEnds

ASSUME CacheFlightAssumption ==
    /\ None \notin Gates
    /\ Cardinality(Gates) > Cardinality(Slots)
    /\ Modes \subseteq BOOLEAN /\ MaxLookups \in Nat
    /\ Outcomes \subseteq {"answer", "uncacheable", "timeout", "failed"}

VARIABLES async,        \* LookupCacheRegistry.async_coalesce, set once at start
          cached,       \* the backend holds an entry for the key
          current,      \* InFlightTable: the gate of the key
          gates,        \* leader_active, result and waiters of every gate
          at, ref,      \* each slot: program counter and the gate it holds
          fill,         \* txn.lookup_cache_fill
          wire,         \* what fill_from_forward has, or a sync follower got
          taken,        \* waiters returned by complete and not woken yet
          wake,         \* LookupResume items in the policy queue
          lookups       \* how many lookups have started

vars == <<async, cached, current, gates, at, ref, fill, wire, taken, wake, lookups>>

NewGate == [leader |-> FALSE, result |-> FALSE, waiters |-> {}]

Init ==
    /\ async \in Modes
    /\ cached = FALSE /\ current = None
    /\ gates = [g \in Gates |-> NewGate]
    /\ at = [t \in Slots |-> "idle"]
    /\ ref = [t \in Slots |-> None]
    /\ fill = [t \in Slots |-> FALSE]
    /\ wire = [t \in Slots |-> "none"]
    /\ taken = [t \in Slots |-> {}]
    /\ wake = {}
    /\ lookups = 0

Goto(t, from, to) == at[t] = from /\ at' = [at EXCEPT ![t] = to]

\* no Arc points to the gate any more
Dropped(g) == g # current /\ \A t \in Slots : ref[t] # g

\* InFlightTable::gate_for
GateFor(t) ==
    IF current # None
      THEN ref' = [ref EXCEPT ![t] = current] /\ UNCHANGED <<current, gates>>
      ELSE \E g \in Gates :     \* any unused identity will do: take one
               /\ Dropped(g) /\ g = CHOOSE h \in Gates : Dropped(h)
               /\ current' = g
               /\ gates' = [gates EXCEPT ![g] = NewGate]
               /\ ref' = [ref EXCEPT ![t] = g]

DropRef(t) == ref' = [ref EXCEPT ![t] = None]

-----------------------------------------------------------------------------
(***************************************************************************)
(* LookupCacheRegistry::lookup                                             *)
(***************************************************************************)
Start(t) ==
    /\ lookups < MaxLookups /\ Goto(t, "idle", "read")
    /\ lookups' = lookups + 1
    /\ UNCHANGED <<cached, current, gates, ref, fill, wire, taken, wake>>

\* prepare_served_arc may refuse the stored wire: Bypass, forward without a fill
ReadHit(t) ==
    /\ \E served \in {"idle", "forward"} :
         Goto(t, "read", IF cached THEN served ELSE "gate")
    /\ UNCHANGED <<cached, current, gates, ref, fill, wire, taken, wake, lookups>>

LookupGate(t) ==
    /\ Goto(t, "gate", "register")
    /\ GateFor(t)
    /\ UNCHANGED <<cached, fill, wire, taken, wake, lookups>>

\* InFlightGate::register; in split_io the follower's slot is parked with it,
\* because the slot's mutex is held until IoWait is published
Register(t) ==
    /\ at[t] = "register"
    /\ IF gates[ref[t]].leader
         THEN /\ gates' = IF async THEN [gates EXCEPT ![ref[t]].waiters = @ \cup {t}] ELSE gates
              /\ at' = [at EXCEPT ![t] = IF async THEN "parked" ELSE "blocked"]
              /\ IF async THEN DropRef(t) ELSE UNCHANGED ref
              /\ UNCHANGED fill
         ELSE /\ gates' = [gates EXCEPT ![ref[t]] = [NewGate EXCEPT !.leader = TRUE]]
              /\ at' = [at EXCEPT ![t] = "forward"]
              /\ fill' = [fill EXCEPT ![t] = TRUE]
              /\ DropRef(t)
    /\ UNCHANGED <<cached, current, wire, taken, wake, lookups>>

\* wait_for_result: the flight has ended ...
BlockedWakes(t) ==
    /\ at[t] = "blocked" /\ (gates[ref[t]].result \/ ~gates[ref[t]].leader)
    /\ Goto(t, "blocked", "unblock")
    /\ wire' = [wire EXCEPT ![t] = IF gates[ref[t]].result THEN "shared" ELSE "none"]
    /\ UNCHANGED <<cached, current, gates, ref, fill, taken, wake, lookups>>

\* Mutant: waits on the condvar without a timeout.
BlockedTimeout_Never(t) == FALSE /\ at[t] = "blocked" /\ UNCHANGED vars

\* ... or 30 s have passed
BlockedTimeout(t) ==
    /\ Goto(t, "blocked", "unblock")
    /\ UNCHANGED <<cached, current, gates, ref, fill, wire, taken, wake, lookups>>

UnblockRemove(t) ==
    /\ Goto(t, "unblock", "reread")
    /\ current' = None
    /\ DropRef(t)
    /\ UNCHANGED <<cached, gates, fill, wire, taken, wake, lookups>>

\* a hit or the shared wire, or else Bypass: forward without a fill
UnblockRead(t) ==
    /\ \E served \in {"idle", "forward"} :
         Goto(t, "reread", IF cached \/ wire[t] = "shared" THEN served ELSE "forward")
    /\ wire' = [wire EXCEPT ![t] = "none"]
    /\ UNCHANGED <<cached, current, gates, ref, fill, taken, wake, lookups>>

-----------------------------------------------------------------------------
(***************************************************************************)
(* The forward, and finish_forward_answer.  "failed" stands for every exit *)
(* of run_forward_chain and run_loop that goes straight to Send: no        *)
(* backend, table full, pool limit, send error, max_attempts,              *)
(* max_txn_duration_ms; and a cache instance removed by a reload.          *)
(* "uncacheable" stands for the three paths of fill_from_forward that do   *)
(* not insert: rebuilding, truncated, no entry from the wire.              *)
(***************************************************************************)
ForwardEnds(t, outcome) ==
    /\ outcome \in Outcomes
    /\ Goto(t, "forward", IF fill[t] /\ outcome # "failed" THEN "fillgate" ELSE "idle")
    /\ wire' = [wire EXCEPT ![t] = IF fill[t] /\ outcome # "failed" THEN outcome ELSE "none"]
    /\ fill' = [fill EXCEPT ![t] = FALSE]
    /\ UNCHANGED <<cached, current, gates, ref, taken, wake, lookups>>

\* instance_gate: whatever gate the table has for the key now
FillGate(t) ==
    /\ Goto(t, "fillgate", IF wire[t] = "answer" THEN "insert" ELSE "complete")
    /\ GateFor(t)
    /\ UNCHANGED <<cached, fill, wire, taken, wake, lookups>>

\* backend.insert, which may refuse
Insert(t) ==
    /\ Goto(t, "insert", "complete")
    /\ cached' \in {cached, TRUE}
    /\ UNCHANGED <<current, gates, ref, fill, wire, taken, wake, lookups>>

\* Mutant: the waiters are copied and stay on the gate.
Complete_KeepsWaiters(t) ==
    /\ Goto(t, "complete", "remove")
    /\ gates' = [gates EXCEPT ![ref[t]].leader = FALSE,
                              ![ref[t]].result = wire[t] = "answer"]
    /\ taken' = [taken EXCEPT ![t] = IF wire[t] = "uncacheable" THEN {}
                                                                ELSE gates[ref[t]].waiters]
    /\ UNCHANGED <<cached, current, ref, fill, wire, wake, lookups>>

\* InFlightGate::complete; for an uncacheable wire the waiters it returns
\* are dropped
Complete(t) ==
    /\ Goto(t, "complete", "remove")
    /\ gates' = [gates EXCEPT ![ref[t]] = [NewGate EXCEPT !.result = wire[t] = "answer"]]
    /\ taken' = [taken EXCEPT ![t] = IF wire[t] = "uncacheable" THEN {}
                                                                ELSE gates[ref[t]].waiters]
    /\ UNCHANGED <<cached, current, ref, fill, wire, wake, lookups>>

RemoveKey(t) ==
    /\ Goto(t, "remove", "wake")
    /\ current' = None
    /\ DropRef(t)
    /\ wire' = [wire EXCEPT ![t] = "none"]
    /\ UNCHANGED <<cached, gates, fill, taken, wake, lookups>>

\* wake_waiters pushes one LookupResume per waiter
WakeWaiters(t) ==
    /\ at[t] = "wake"
    /\ IF taken[t] = {}
         THEN at' = [at EXCEPT ![t] = "idle"] /\ UNCHANGED <<taken, wake>>
         ELSE \E u \in taken[t] :
                /\ taken' = [taken EXCEPT ![t] = @ \ {u}]
                /\ wake' = wake \cup {u}
                /\ UNCHANGED at
    /\ UNCHANGED <<cached, current, gates, ref, fill, wire, lookups>>

-----------------------------------------------------------------------------
(***************************************************************************)
(* process_lookup_resume and resume_after_wait                             *)
(***************************************************************************)
\* past max_txn_duration_ms run_loop goes to Send without calling Lookup
PopWake(t) ==
    /\ t \in wake
    /\ wake' = wake \ {t}
    /\ IF at[t] = "parked"
         THEN \E to \in {"resume"} \cup (IF "failed" \in Outcomes THEN {"idle"} ELSE {}) :
                Goto(t, "parked", to)
         ELSE UNCHANGED at      \* the slot is not in IoWait: dropped
    /\ UNCHANGED <<cached, current, gates, ref, fill, wire, taken, lookups>>

ResumeGate(t) ==
    /\ Goto(t, "resume", "resumeread")
    /\ GateFor(t)
    /\ UNCHANGED <<cached, fill, wire, taken, wake, lookups>>

ResumeRead(t) ==
    /\ Goto(t, "resumeread", IF cached THEN "resumehit" ELSE "resumeresult")
    /\ UNCHANGED <<cached, current, gates, ref, fill, wire, taken, wake, lookups>>

ResumeResult(t) ==
    /\ at[t] = "resumeresult"
    /\ IF gates[ref[t]].result
         THEN Goto(t, "resumeresult", "resumehit") /\ UNCHANGED <<fill, ref>>
         ELSE /\ Goto(t, "resumeresult", "forward")
              /\ fill' = [fill EXCEPT ![t] = TRUE]
              /\ DropRef(t)
    /\ UNCHANGED <<cached, current, gates, wire, taken, wake, lookups>>

ResumeHit(t) ==
    /\ \E served \in {"idle", "forward"} :
         /\ Goto(t, "resumehit", served)
         /\ fill' = [fill EXCEPT ![t] = served = "forward"]
    /\ current' = None
    /\ DropRef(t)
    /\ UNCHANGED <<cached, gates, wire, taken, wake, lookups>>

\* expiry, reaper or eviction
Evict ==
    /\ cached /\ cached' = FALSE
    /\ UNCHANGED <<current, gates, at, ref, fill, wire, taken, wake, lookups>>

-----------------------------------------------------------------------------
SlotStep(t) == UNCHANGED async /\
   (\/ ReadHit(t) \/ LookupGate(t) \/ Register(t)
    \/ BlockedWakes(t) \/ BlockedTimeout(t) \/ UnblockRemove(t) \/ UnblockRead(t)
    \/ \E outcome \in Outcomes : ForwardEnds(t, outcome)
    \/ FillGate(t) \/ Insert(t) \/ Complete(t) \/ RemoveKey(t) \/ WakeWaiters(t)
    \/ PopWake(t) \/ ResumeGate(t) \/ ResumeRead(t) \/ ResumeResult(t) \/ ResumeHit(t))

Next == UNCHANGED async /\ ((\E t \in Slots : Start(t) \/ SlotStep(t)) \/ Evict)

\* threads run, forwards end (their timeouts fire), queued items are popped
Spec == Init /\ [][Next]_vars /\ \A t \in Slots : WF_vars(SlotStep(t))

-----------------------------------------------------------------------------
\* Everything that may still resume slot t
Tokens(t) ==
    Cardinality({g \in Gates : ~Dropped(g) /\ t \in gates[g].waiters})
      + Cardinality({u \in Slots : t \in taken[u]}) + (IF t \in wake THEN 1 ELSE 0)

(***************************************************************************)
(* A LookupResume only ever reaches the lookup it was meant for: a slot    *)
(* has at most one wake token, and only while it is parked on the cache.   *)
(* The token names the slot, not the transaction (mod.rs set_wake_handler),*)
(* and process_lookup_resume would resume whatever waits in IoWait there.  *)
(***************************************************************************)
NoStaleWake ==
    \A t \in Slots : Tokens(t) <= 1 /\ (Tokens(t) = 1 => at[t] = "parked")

(***************************************************************************)
(* guides/dns-answer-cache.md:116 of the operator docs: "one upstream     *)
(* fetch; waiters resume when the fill completes".  Every lookup of        *)
(* LookupCacheRegistry comes to an end.                                    *)
(***************************************************************************)
LookupEnds == \A t \in Slots : at[t] # "idle" ~> at[t] = "idle"

(***************************************************************************)
(* In the sync runtime every lookup ends, whatever happens to its leader:  *)
(* LookupCacheRegistry::lookup waits for the leader 30 seconds at most.    *)
(***************************************************************************)
SyncLookupEnds == ~async => LookupEnds
=============================================================================
