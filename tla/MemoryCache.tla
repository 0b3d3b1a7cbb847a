---------------------------- MODULE MemoryCache -----------------------------
(***************************************************************************)
(* The sharded in-memory cache backend (lookup/cache/memory.rs).           *)
(*                                                                         *)
(* Every shard has its own lock and no thread ever holds two.  The number  *)
(* of entries is kept in one atomic counter, live_entries, which is read   *)
(* and written under whatever shard lock a thread has: two inserters in    *)
(* two shards may both see room for one more, and both trim afterwards.    *)
(*                                                                         *)
(* The clock is coarse.  A call looks at it once, at the start, and judges *)
(* every entry by that time, so an entry may be stale for one thread and   *)
(* fresh for another.                                                      *)
(***************************************************************************)
EXTENDS CacheEntries

CONSTANTS Reaper,       \* the active-eviction thread
          Applier,      \* the thread that applies a configuration
          MemShards,    \* memory.shard_count
          Caps,         \* the values max_entries is set to; 0 is no limit
          MemOpts,      \* options of the instance
          MaxTime

ASSUME MemoryCacheAssumption ==
    /\ MemShards \in Nat \ {0} /\ Hash \in [Keys -> Nat]
    /\ Caps \subseteq Nat /\ MaxTime \in Nat
    /\ Reaper \notin Fillers /\ Applier \notin Fillers /\ Reaper # Applier
    /\ "none" \notin Fillers \cup {Reaper, Applier}
    /\ MemOpts # {}
    /\ MemOpts \subseteq [negative : BOOLEAN, covers : BOOLEAN, servfail_ttl : Nat,
                          truncated : BOOLEAN, truncated_ttl : Nat \ {0}]

VARIABLES clock,
          mem,          \* the shard maps
          live,         \* live_entries
          cap,          \* max_entries
          lock,         \* the holder of each shard's write lock, across steps
          job,          \* where each thread is in its call
          cursor,       \* next_reap_shard
          opts,
          hit           \* history: the entry the last lookup served, until the next event

memVars == <<clock, mem, live, cap, lock, job, cursor, opts, hit>>

Threads == Fillers \cup {Reaper, Applier}
Shards == 0 .. MemShards - 1
ShardIndex(k) == Hash[k] % MemShards
In(s) == {k \in Keys : ShardIndex(k) = s}

Absent == [kind |-> "absent", ttls |-> {}, filled |-> 0, exp |-> 0]
Present(s) == {k \in In(s) : mem[k] # Absent}
Stale(s, now) == {k \in Present(s) : ~Fresh(mem[k].exp, now)}

(***************************************************************************)
(* `visit' is what a scan has still to look at, `limit' the max_entries a  *)
(* trim loop has loaded, `then' where the call goes on.                    *)
(***************************************************************************)
Idle == [at |-> "idle", key |-> <<"", "">>, udp |-> FALSE, now |-> 0, entry |-> Absent,
         visit |-> << >>, limit |-> 0, then |-> "idle"]
NoHit == [q |-> "", udp |-> FALSE, key |-> <<"", "">>, entry |-> Absent, now |-> 0]

MemInit ==
    /\ clock = 0 /\ mem = [k \in Keys |-> Absent] /\ live = 0
    /\ lock = [s \in Shards |-> "none"]
    /\ job = [t \in Threads |-> Idle]
    /\ cursor = 0 /\ hit = NoHit

Call == Spend /\ hit' = NoHit
Do(t, at) == job' = [job EXCEPT ![t].at = at]
Done(t) == job' = [job EXCEPT ![t] = Idle]

Without(keys) == [k \in Keys |-> IF k \in keys THEN Absent ELSE mem[k]]

\* the shards in order; the excluded one comes last
ScanAll == [i \in 1 .. MemShards |-> i - 1]
ScanExcluding(s) ==
    [i \in 1 .. MemShards |-> IF i = MemShards THEN s ELSE IF i <= s THEN i - 1 ELSE i]

-----------------------------------------------------------------------------
(***************************************************************************)
(* lookup: the complete answer, then an NXDOMAIN of an ancestor, then for  *)
(* a UDP client the truncated answer.  Each read takes its own shard lock; *)
(* the time is the one the lookup started at.                              *)
(***************************************************************************)
BeginLookup(t, q, udp) ==
    /\ job[t].at = "idle" /\ Call
    /\ job' = [job EXCEPT ![t] = [Idle EXCEPT !.at = "exact", !.key = CompleteKey(q),
                                     !.udp = udp, !.now = clock]]
    /\ UNCHANGED <<clock, mem, live, cap, lock, cursor, opts>>

Readable(k) == lock[ShardIndex(k)] = "none"
Get(k, now) == IF Fresh(mem[k].exp, now) THEN mem[k] ELSE Absent

Serve(t, k) ==
    LET e == Get(k, job[t].now)
    IN  /\ hit' = [q |-> job[t].key[1], udp |-> job[t].udp, key |-> k, now |-> job[t].now,
                   entry |-> [e EXCEPT !.ttls = Decayed(@, e.filled, job[t].now)]]
        /\ Done(t)

ReadExact(t) ==
    LET k == job[t].key
    IN  /\ job[t].at = "exact" /\ Readable(k)
        /\ IF Get(k, job[t].now) # Absent THEN Serve(t, k)
           ELSE /\ job' = [job EXCEPT ![t].at = "ancestors",
                     ![t].visit = IF opts.negative /\ opts.covers THEN Ancestors[k[1]] ELSE << >>]
                /\ UNCHANGED hit
        /\ UNCHANGED <<events, clock, mem, live, cap, lock, cursor, opts>>

\* Mutant: any entry of an ancestor will do.
ReadAncestor_AnyKind(t) ==
    /\ job[t].at = "ancestors"
    /\ IF job[t].visit = << >> THEN Do(t, "truncated") /\ UNCHANGED hit
       ELSE LET k == CompleteKey(Head(job[t].visit))
            IN  /\ Readable(k)
                /\ IF Get(k, job[t].now) # Absent THEN Serve(t, k)
                   ELSE Do(t, "truncated") /\ UNCHANGED hit
    /\ UNCHANGED <<events, clock, mem, live, cap, lock, cursor, opts>>

\* try_ancestor_nxdomain_hit: the walk ends at the first ancestor not cached
ReadAncestor(t) ==
    /\ job[t].at = "ancestors"
    /\ IF job[t].visit = << >> THEN Do(t, "truncated") /\ UNCHANGED hit
       ELSE LET k == CompleteKey(Head(job[t].visit))
                e == Get(k, job[t].now)
            IN  /\ Readable(k)
                /\ IF e.kind = "nxdomain" THEN Serve(t, k)
                   ELSE /\ IF e = Absent THEN Do(t, "truncated")
                           ELSE job' = [job EXCEPT ![t].visit = Tail(@)]
                        /\ UNCHANGED hit
    /\ UNCHANGED <<events, clock, mem, live, cap, lock, cursor, opts>>

\* a miss goes on to the in-flight gate
ReadTruncated(t) ==
    LET k == TruncatedKey(job[t].key[1])
    IN  /\ job[t].at = "truncated"
        /\ IF opts.truncated /\ job[t].udp /\ Get(k, job[t].now) # Absent
             THEN Readable(k) /\ Serve(t, k)
             ELSE Done(t) /\ UNCHANGED hit
        /\ UNCHANGED <<events, clock, mem, live, cap, lock, cursor, opts>>

-----------------------------------------------------------------------------
(***************************************************************************)
(* insert                                                                  *)
(***************************************************************************)
\* fill_from_forward takes the time, builds the entry and calls insert; an
\* answer that may not be stored is dropped
BeginInsert(t, q, a, udp) ==
    LET st == StoredAs(q, a, udp, opts)
    IN  /\ job[t].at = "idle" /\ Call
        /\ IF st.ttl = NotCached THEN UNCHANGED job
           ELSE job' = [job EXCEPT ![t] = [Idle EXCEPT !.at = "insert", !.key = st.key,
                  !.now = clock, !.entry = [kind |-> Kind(a), ttls |-> a.ttls,
                                            filled |-> clock, exp |-> clock + st.ttl]]]
        /\ UNCHANGED <<clock, mem, live, cap, lock, cursor, opts>>

\* Mutant: the stale entry of the key is removed and still counted.
Pruned_KeepsCount(t) ==
    LET s == ShardIndex(job[t].key)
        own == Stale(s, job[t].now) \cap {job[t].key}
    IN  [dropped |-> IF cap > 0 THEN Stale(s, job[t].now) ELSE own,
         counted |-> IF cap > 0 THEN Cardinality(Stale(s, job[t].now) \ own) ELSE 0]

\* the stale entry of the key, and with a cap every stale entry of the shard
Pruned(t) ==
    LET s == ShardIndex(job[t].key)
        gone == IF cap > 0 THEN Stale(s, job[t].now)
                           ELSE Stale(s, job[t].now) \cap {job[t].key}
    IN  [dropped |-> gone, counted |-> Cardinality(gone)]

(***************************************************************************)
(* Under the shard lock: replace a fresh entry, or prune and look at the   *)
(* counter.  At the cap a victim of this shard makes room; if the shard is *)
(* empty the lock is dropped and a victim is looked for in the others.     *)
(***************************************************************************)
InsertCheck(t) ==
    LET k == job[t].key
        s == ShardIndex(k)
        p == Pruned(t)
        rest == Present(s) \ p.dropped
    IN  /\ job[t].at = "insert" /\ lock[s] = "none"
        /\ IF Fresh(mem[k].exp, job[t].now)
             THEN /\ mem' = [mem EXCEPT ![k] = job[t].entry]
                  /\ Do(t, "sibling")
                  /\ UNCHANGED <<live, lock>>
             ELSE \/ /\ cap = 0 \/ live - p.counted < cap
                     /\ mem' = Without(p.dropped) /\ live' = live - p.counted
                     /\ lock' = [lock EXCEPT ![s] = t] /\ Do(t, "put")
                  \/ /\ cap > 0 /\ live - p.counted >= cap
                     /\ \E victim \in rest :
                          mem' = Without(p.dropped \cup {victim})
                     /\ live' = live - p.counted - 1
                     /\ lock' = [lock EXCEPT ![s] = t] /\ Do(t, "put")
                  \/ /\ cap > 0 /\ live - p.counted >= cap /\ rest = {}
                     /\ mem' = Without(p.dropped) /\ live' = live - p.counted
                     /\ job' = [job EXCEPT ![t].at = "evict", ![t].then = "insert",
                                              ![t].visit = ScanExcluding(s)]
                     /\ UNCHANGED lock
    /\ UNCHANGED <<events, clock, cap, cursor, opts, hit>>

InsertPut(t) ==
    LET s == ShardIndex(job[t].key)
    IN  /\ job[t].at = "put"
        /\ mem' = [mem EXCEPT ![job[t].key] = job[t].entry]
        /\ live' = live + 1
        /\ lock' = [lock EXCEPT ![s] = "none"]
        /\ Do(t, "loadmax")
        /\ UNCHANGED <<events, clock, cap, cursor, opts, hit>>

-----------------------------------------------------------------------------
(***************************************************************************)
(* evict_one, evict_one_excluding, trim_to_max, set_max_entries            *)
(***************************************************************************)
\* an insert goes on to remove the truncated sibling, a trim_to_max is done
TrimEnds(t) == IF t = Applier THEN Done(t) ELSE Do(t, "sibling")

\* max_entries is loaded once, before the trim loop of insert or trim_to_max
LoadMax(t) ==
    /\ job[t].at = "loadmax"
    /\ IF cap = 0 THEN TrimEnds(t)
                  ELSE job' = [job EXCEPT ![t].at = "trim", ![t].limit = cap]
    /\ UNCHANGED <<events, clock, mem, live, cap, lock, cursor, opts, hit>>

Trim(t) ==
    /\ job[t].at = "trim"
    /\ IF live > job[t].limit
         THEN job' = [job EXCEPT ![t].at = "evict", ![t].then = "trim", ![t].visit = ScanAll]
         ELSE TrimEnds(t)
    /\ UNCHANGED <<events, clock, mem, live, cap, lock, cursor, opts, hit>>

\* evict_one_in_shard: a stale entry before any other
Victims(s, now) == IF Stale(s, now) # {} THEN Stale(s, now) ELSE Present(s)

\* one shard of the scan; nothing found anywhere ends a trim loop, and sends
\* insert back to its top
EvictVisit(t) ==
    LET s == Head(job[t].visit)
    IN  /\ job[t].at = "evict" /\ lock[s] = "none"
        /\ \/ \E v \in Victims(s, job[t].now) :
                 /\ mem' = Without({v}) /\ live' = live - 1
                 /\ job' = [job EXCEPT ![t].at = job[t].then, ![t].visit = << >>]
           \/ /\ Present(s) = {} /\ Len(job[t].visit) > 1
              /\ job' = [job EXCEPT ![t].visit = Tail(@)]
              /\ UNCHANGED <<mem, live>>
           \/ /\ Present(s) = {} /\ Len(job[t].visit) = 1
              /\ IF job[t].then = "trim" THEN TrimEnds(t)
                 ELSE job' = [job EXCEPT ![t].at = job[t].then, ![t].visit = << >>]
              /\ UNCHANGED <<mem, live>>
        /\ UNCHANGED <<events, clock, cap, lock, cursor, opts, hit>>

\* set_max_entries: the swap, then the test
SetMaxEntries(c) ==
    /\ job[Applier].at = "idle" /\ c # cap /\ Call
    /\ cap' = c
    /\ IF c > 0 /\ (cap > c \/ cap = 0)
         THEN job' = [job EXCEPT ![Applier] = [Idle EXCEPT !.at = "setmax", !.now = clock]]
         ELSE UNCHANGED job
    /\ UNCHANGED <<clock, mem, live, lock, cursor, opts>>

SetMaxTest ==
    /\ job[Applier].at = "setmax"
    /\ IF live > cap THEN Do(Applier, "loadmax") ELSE Done(Applier)
    /\ UNCHANGED <<events, clock, mem, live, cap, lock, cursor, opts, hit>>

-----------------------------------------------------------------------------
\* once a complete answer is stored, remove drops its truncated sibling
RemoveSibling(t) ==
    LET k == TruncatedKey(job[t].key[1])
    IN  /\ job[t].at = "sibling"
        /\ IF job[t].key[2] = "complete" /\ mem[k] # Absent
             THEN Readable(k) /\ mem' = Without({k}) /\ live' = live - 1
             ELSE UNCHANGED <<mem, live>>
        /\ Done(t)
        /\ UNCHANGED <<events, clock, cap, lock, cursor, opts, hit>>

(***************************************************************************)
(* The reaper starts a pass at its cursor and takes each shard lock once.  *)
(* The budget of a lock may end at any entry; the pass then stops, and the *)
(* next one resumes at that shard.                                         *)
(***************************************************************************)
BeginReap ==
    /\ job[Reaper].at = "idle" /\ Call
    /\ job' = [job EXCEPT ![Reaper] = [Idle EXCEPT !.at = "reap", !.now = clock,
                 !.visit = [i \in 1 .. MemShards |-> (cursor + i - 1) % MemShards]]]
    /\ UNCHANGED <<clock, mem, live, cap, lock, cursor, opts>>

ReapShard ==
    LET r == job[Reaper]
        s == Head(r.visit)
    IN  /\ r.at = "reap" /\ lock[s] = "none"
        /\ \E gone \in SUBSET Stale(s, r.now) :
             /\ mem' = Without(gone) /\ live' = live - Cardinality(gone)
             /\ \/ cursor' = s /\ Done(Reaper)                    \* budget exhausted
                \/ /\ gone = Stale(s, r.now)
                   /\ cursor' = (s + 1) % MemShards
                   /\ IF Len(r.visit) = 1 THEN Done(Reaper)
                      ELSE job' = [job EXCEPT ![Reaper].visit = Tail(@)]
        /\ UNCHANGED <<events, clock, cap, lock, opts, hit>>

-----------------------------------------------------------------------------
Tick ==
    /\ clock < MaxTime /\ Call /\ clock' = clock + 1
    /\ UNCHANGED <<mem, live, cap, lock, job, cursor, opts>>

MemStep(t) ==
    \/ InsertCheck(t) \/ InsertPut(t) \/ LoadMax(t) \/ Trim(t) \/ EvictVisit(t)
    \/ t \in Fillers /\ (ReadExact(t) \/ ReadAncestor(t) \/ ReadTruncated(t) \/ RemoveSibling(t))
    \/ t = Applier /\ SetMaxTest
    \/ t = Reaper /\ ReapShard

\* threads are alike: a call is begun by a fixed one of those that are idle
FirstIdle(t) == job[t].at = "idle" /\ t = CHOOSE u \in Fillers : job[u].at = "idle"

MemNext ==
    \/ \E t \in Threads : MemStep(t)
    \/ \E t \in Fillers, q \in Questions :
          /\ FirstIdle(t)
          /\ \/ \E udp \in BOOLEAN : BeginLookup(t, q, udp)
             \/ \E a \in Answers[q] : BeginInsert(t, q, a, a.tc)
    \/ \E c \in Caps : SetMaxEntries(c)
    \/ BeginReap \/ Tick
=============================================================================
