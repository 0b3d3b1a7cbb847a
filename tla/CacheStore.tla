----------------------------- MODULE CacheStore -----------------------------
(***************************************************************************)
(* A cache instance: one of the two backends (lookup/cache/backend.rs),    *)
(* chosen by its type when it is opened.                                   *)
(***************************************************************************)
EXTENDS MemoryCache, LmdbCache

VARIABLE kind           \* CacheBackend::Memory or CacheBackend::Lmdb

vars == <<kind, events, memVars, lmdbVars>>

Init ==
    /\ kind \in {"memory", "lmdb"} /\ events = 0
    /\ MemInit /\ LmdbInit
    /\ IF kind = "memory" THEN cap \in Caps /\ opts \in MemOpts
       ELSE cap = 0 /\ opts = CHOOSE o \in MemOpts : TRUE

Next ==
    \/ kind = "memory" /\ MemNext /\ UNCHANGED <<kind, lmdbVars>>
    \/ kind = "lmdb" /\ LmdbNext /\ UNCHANGED <<kind, memVars>>

Spec == Init /\ [][Next]_vars

(***************************************************************************)
(* Threads go on with the calls and applies they have begun, and the       *)
(* flusher wakes up again.  Nothing obliges anyone to begin one.           *)
(***************************************************************************)
MemRuns == kind = "memory" /\ (\E t \in Threads : MemStep(t)) /\ UNCHANGED <<kind, lmdbVars>>
LmdbRuns == /\ kind = "lmdb" /\ UNCHANGED <<kind, memVars>>
            /\ ApplierStep \/ (\E t \in Fillers : WriterStep(t)) \/ (\E d \in Dirs : FlusherStep(d))

FairSpec == Spec /\ WF_vars(MemRuns) /\ WF_vars(LmdbRuns)

-----------------------------------------------------------------------------
\* live_entries is exactly the number of entries, whatever inserts, evictions,
\* removals and reaping do in different shards at the same time; inserters may
\* overshoot max_entries, and a cap may be lowered under them, but once no call
\* is in progress the cache is at or under the cap.
EntriesAreCounted ==
    kind = "memory" =>
        /\ live = Cardinality({k \in Keys : mem[k] # Absent})
        /\ cap > 0 /\ (\A t \in Threads : job[t].at = "idle") => live <= cap

\* What a lookup serves answers its question: it is the question's own entry or
\* an NXDOMAIN of an ancestor, a truncated answer goes to UDP clients only, and
\* the entry was fresh when the lookup began.
HitAnswersTheQuestion ==
    hit # NoHit =>
        /\ \/ hit.key[1] = hit.q
           \/ /\ hit.entry.kind = "nxdomain"
              /\ \E i \in DOMAIN Ancestors[hit.q] : hit.key[1] = Ancestors[hit.q][i]
        /\ hit.key[2] = "truncated" => hit.udp
        /\ Fresh(hit.entry.exp, hit.now)

\* An environment in service holds only keys that lookups search there: no crash
\* and no change of shard_count leaves entries of one layout in another.  A start
\* refuses the directory only after a crash in the middle of an open that worked
\* in place; a crash anywhere in a warm reopen leaves one that opens.
ReopenIsSound ==
    /\ cur # None => \A i \in 0 .. obj[cur].n - 1 : \A k \in KeysIn(cur, Slot(obj[cur], i)) :
                         ShardForKey(obj[cur], k) = Slot(obj[cur], i)
    /\ ap.at = "failed" => torn

\* A commit that no force_sync has covered is marked dirty, or its writer is about
\* to mark it: a sync that runs at the same time never hides it from the next tick.
DirtyCoversUnsynced ==
    \A d \in Dirs, s \in Slots :
        obj[d].open /\ unsynced[d][s] =>
            obj[d].dirty[s] \/ \E t \in Fillers : wr[t].at = "mark" /\ wr[t].d = d /\ SlotOf(t) = s

\* Env::resize runs with no write transaction active: resize_total_to says the
\* registry "marks rebuilding / serializes map-size apply" to that end.
NoTxnDuringResize ==
    ap.at = "resize" => \A t \in Fillers : wr[t].at = "txn" => wr[t].d # cur

\* Every lookup and every fill returns: insert's retry loop and the trim loops end,
\* and no thread waits for a shard lock for ever.  With sync=periodic every commit
\* is on its way to disk at some point, even after a failed force_sync, unless the
\* mode or the backend is changed or the process ends.
Busy == \E t \in Fillers : job[t].at # "idle" \/ wr[t].at # "idle"
Periodic(d) == d = cur /\ obj[d].sync = "periodic" /\ \E s \in Slots : unsynced[d][s]
CallsReturnAndSync ==
    /\ Busy ~> ~Busy
    /\ (\E d \in Dirs : Periodic(d)) ~> \A d \in Dirs : ~Periodic(d)
=============================================================================
