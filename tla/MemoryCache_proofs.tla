------------------------- MODULE MemoryCache_proofs -------------------------
(***************************************************************************)
(* The memory backend, for every set of questions, threads, shards and     *)
(* caps: live_entries is the number of entries, and what a lookup serves   *)
(* answers its question.                                                   *)
(***************************************************************************)
EXTENDS CacheStore, FiniteSetTheorems, TLAPS

\* The steps are first-order; a step that needs arithmetic cites SMT.
USE Zenon

-----------------------------------------------------------------------------
(* Types                                                                   *)
EntryRec == [kind : {"absent", "nodata", "positive", "nxdomain", "servfail"},
             ttls : SUBSET Nat, filled : Nat, exp : Nat]
Ats == {"idle", "exact", "ancestors", "truncated", "insert", "put", "loadmax", "trim", "evict",
        "setmax", "sibling", "reap"}
Visits == Seq(Questions) \cup Seq(Shards)
JobRec == [at : Ats, key : Keys \cup {<<"", "">>}, udp : BOOLEAN, now : Nat, entry : EntryRec,
           visit : Visits, limit : Nat, then : Ats]

MemOK ==
    /\ clock \in Nat /\ cap \in Nat /\ cursor \in Nat /\ opts \in MemOpts
    /\ mem \in [Keys -> EntryRec] /\ job \in [Threads -> JobRec]
    /\ lock \in [Shards -> Threads \cup {"none"}]

\* The stored entries, counted by live_entries.
Stored == {k \in Keys : mem[k] # Absent}
Counted == IsFiniteSet(Stored) /\ live = Cardinality(Stored)

\* What a lookup walks: ancestors of its own question.
LooksUp(j) ==
    /\ j.at \in {"exact", "ancestors", "truncated"} =>
           j.key[1] \in Questions /\ j.key = CompleteKey(j.key[1])
    /\ j.at = "ancestors" =>
           /\ j.visit \in Seq(Questions)
           /\ \A i \in 1 .. Len(j.visit) : \E n \in DOMAIN Ancestors[j.key[1]] :
                  j.visit[i] = Ancestors[j.key[1]][n]

\* What a fill carries from one step to the next: a key and an entry.
Fills(t, j) ==
    \/ j.at \in {"insert", "put", "sibling"}
    \/ j.at \in {"loadmax", "trim", "evict"} /\ t # Applier
    \/ j.at = "evict" /\ j.then = "insert"
Carries(t, j) == Fills(t, j) => j.key \in Keys /\ j.entry # Absent

\* A scan visits shards.
Scans(j) ==
    /\ j.at \in {"evict", "reap"} => j.visit \in Seq(Shards) /\ j.visit # << >>
    /\ j.at = "evict" => j.then \in {"insert", "trim"}

JobsOK == \A t \in Threads : LooksUp(job[t]) /\ Carries(t, job[t]) /\ Scans(job[t])

\* Between its check and its put an insert holds the lock of its shard, in
\* which its key is free.
PutsAreFree ==
    \A t \in Threads : job[t].at = "put" =>
        lock[ShardIndex(job[t].key)] = t /\ mem[job[t].key] = Absent

\* Over the cap, some thread is still to trim to at most the cap, and every
\* entry lies in a shard it has not yet passed.
MustTrim(j, stored, max) ==
    \/ j.at \in {"loadmax", "setmax"}
    \/ j.at = "trim" /\ j.limit <= max
    \/ /\ j.at = "evict" /\ j.then = "trim" /\ j.limit <= max
       /\ \A k \in stored : \E i \in 1 .. Len(j.visit) : j.visit[i] = ShardIndex(k)
OvershootIsTrimmed == cap > 0 /\ live > cap => \E t \in Threads : MustTrim(job[t], Stored, cap)

MemInv ==
    /\ MemOK /\ Counted /\ JobsOK /\ PutsAreFree /\ OvershootIsTrimmed
    /\ HitAnswersTheQuestion

-----------------------------------------------------------------------------
(***************************************************************************)
(* Helpers.                                                                *)
(***************************************************************************)
LEMMA ShardTypes ==
    /\ \A k \in Keys : ShardIndex(k) \in Shards
    /\ ScanAll \in Seq(Shards) /\ ScanAll # << >> /\ Len(ScanAll) = MemShards
    /\ \A s \in Shards : ScanAll[s + 1] = s /\ s + 1 \in 1 .. MemShards
    /\ \A s \in Shards : ScanExcluding(s) \in Seq(Shards) /\ ScanExcluding(s) # << >>
<1>1. MemShards \in Nat \ {0} /\ Hash \in [Keys -> Nat]
  BY MemoryCacheAssumption
<1>2. \A k \in Keys : ShardIndex(k) \in Shards
  BY <1>1, SMT DEF ShardIndex, Shards
<1>3. ScanAll \in Seq(Shards) /\ ScanAll # << >> /\ Len(ScanAll) = MemShards
  BY <1>1, SMT DEF ScanAll, Shards
<1>4. \A s \in Shards : ScanAll[s + 1] = s /\ s + 1 \in 1 .. MemShards
  BY <1>1, SMT DEF ScanAll, Shards
<1>5. \A s \in Shards : ScanExcluding(s) \in Seq(Shards) /\ ScanExcluding(s) # << >>
  BY <1>1, SMT DEF ScanExcluding, Shards
<1> QED
  BY <1>2, <1>3, <1>4, <1>5

LEMMA KeyTypes ==
    \A q \in Questions :
        /\ CompleteKey(q) \in Keys /\ CompleteKey(q)[1] = q /\ CompleteKey(q)[2] = "complete"
        /\ TruncatedKey(q) \in Keys /\ TruncatedKey(q)[1] = q
  BY DEF CompleteKey, TruncatedKey, Keys

LEMMA AbsentType == Absent \in EntryRec /\ Absent.exp = 0 /\ Absent.kind = "absent"
  BY SMT DEF Absent, EntryRec

\* Nothing absent is fresh.
LEMMA FreshIsStored ==
    ASSUME MemOK, NEW k \in Keys, NEW now \in Nat
    PROVE  /\ Fresh(mem[k].exp, now) => k \in Stored
           /\ Get(k, now) \in EntryRec
           /\ Get(k, now) # Absent => Fresh(mem[k].exp, now) /\ Get(k, now) = mem[k]
<1>1. mem[k] \in EntryRec
  BY DEF MemOK
<1>2. Fresh(mem[k].exp, now) => mem[k] # Absent
  BY AbsentType, SMT DEF Fresh
<1> QED
  BY <1>1, <1>2, AbsentType DEF Stored, Get

\* Removing stored entries and counting them off.
LEMMA Removes ==
    ASSUME MemOK, Counted, NEW gone \in SUBSET Stored,
           mem' = Without(gone), live' = live - Cardinality(gone)
    PROVE  /\ mem' \in [Keys -> EntryRec] /\ Stored' = Stored \ gone /\ Counted'
           /\ live \in Nat /\ live' \in Nat /\ live' <= live
           /\ \A k \in Keys : mem[k] = Absent => mem'[k] = Absent
<1>1. mem' \in [Keys -> EntryRec]
  BY AbsentType DEF MemOK, Without
<1>2. \A k \in Keys : mem'[k] = IF k \in gone THEN Absent ELSE mem[k]
  BY DEF Without
<1>3. Stored' = Stored \ gone
  BY <1>2 DEF Stored
<1>4. /\ IsFiniteSet(Stored \ gone) /\ IsFiniteSet(gone)
      /\ Cardinality(Stored \ gone) = Cardinality(Stored) - Cardinality(Stored \cap gone)
  BY FS_Difference, FS_Subset DEF Counted
<1>5. Stored \cap gone = gone
  OBVIOUS
<1>6. Cardinality(Stored) \in Nat /\ Cardinality(gone) \in Nat /\ Cardinality(Stored \ gone) \in Nat
  BY <1>4, FS_CardinalityType DEF Counted
<1>7. Counted'
  BY <1>3, <1>4, <1>5 DEF Counted
<1>8. live \in Nat /\ live' \in Nat /\ live' <= live
  <2>1. live = Cardinality(Stored)
    BY DEF Counted
  <2>2. Cardinality(Stored \ gone) = Cardinality(Stored) - Cardinality(gone)
    BY <1>4, <1>5
  <2> QED
    BY <1>6, <2>1, <2>2, SMT
<1> QED
  BY <1>1, <1>2, <1>3, <1>7, <1>8

\* The same for one entry.
LEMMA RemovesOne ==
    ASSUME MemOK, Counted, NEW k \in Stored, mem' = Without({k}), live' = live - 1
    PROVE  /\ mem' \in [Keys -> EntryRec] /\ Stored' = Stored \ {k} /\ Counted'
           /\ live \in Nat /\ live' \in Nat /\ live' <= live
           /\ \A c \in Keys : mem[c] = Absent => mem'[c] = Absent
<1>1. Cardinality({k}) = 1
  BY FS_Singleton
<1> QED
  BY <1>1, Removes

-----------------------------------------------------------------------------
(***************************************************************************)
(* A step of one thread that stores no new key: it removes entries or      *)
(* leaves them, and its own job goes on to j.                              *)
(***************************************************************************)
Shrinks(t, j) ==
    /\ mem' \in [Keys -> EntryRec] /\ Stored' \subseteq Stored /\ Counted'
    /\ live \in Nat /\ live' \in Nat /\ live' <= live
    /\ \A k \in Keys : mem[k] = Absent => mem'[k] = Absent
    /\ job' = [job EXCEPT ![t] = j] /\ j \in JobRec
    /\ LooksUp(j) /\ Carries(t, j) /\ Scans(j)
    /\ UNCHANGED <<clock, cap, opts>> /\ cursor' \in Nat

\* It takes no lock of another thread, and holds its own when it is to put.
LocksWell(t, j) ==
    /\ lock' \in [Shards -> Threads \cup {"none"}]
    /\ \A s \in Shards : lock[s] \notin {"none", t} => lock'[s] = lock[s]
    /\ j.at = "put" => lock'[ShardIndex(j.key)] = t /\ mem'[j.key] = Absent

LEMMA StillTrims ==
    ASSUME NEW j, NEW S, NEW T \in SUBSET S, NEW max, MustTrim(j, S, max)
    PROVE  MustTrim(j, T, max)
  BY DEF MustTrim

LEMMA ShrinkStep ==
    ASSUME MemInv, NEW t \in Threads, NEW j, Shrinks(t, j), LocksWell(t, j),
           MustTrim(job[t], Stored, cap) /\ cap > 0 /\ live' > cap => MustTrim(j, Stored', cap)
    PROVE  MemOK' /\ Counted' /\ JobsOK' /\ PutsAreFree' /\ OvershootIsTrimmed'
<1>1. \A u \in Threads : job'[u] = IF u = t THEN j ELSE job[u]
  BY DEF MemInv, MemOK, Shrinks
<1>2. MemOK'
  BY DEF MemInv, MemOK, Shrinks, LocksWell
<1>3. JobsOK'
  <2>1. \A x : (LooksUp(x)' <=> LooksUp(x)) /\ (Scans(x)' <=> Scans(x))
    BY DEF LooksUp, Scans
  <2>2. \A u, x : Carries(u, x)' <=> Carries(u, x)
    BY DEF Carries, Fills
  <2> QED
    BY <1>1, <2>1, <2>2 DEF MemInv, JobsOK, Shrinks
<1>4. PutsAreFree'
  <2> SUFFICES ASSUME NEW u \in Threads, job'[u].at = "put"
               PROVE  lock'[ShardIndex(job'[u].key)] = u /\ mem'[job'[u].key] = Absent
    BY DEF PutsAreFree
  <2>1. CASE u = t
    BY <1>1, <2>1 DEF LocksWell
  <2>2. CASE u # t
    <3>1. job'[u] = job[u] /\ job[u].at = "put"
      BY <1>1, <2>2
    <3>2. job[u].key \in Keys /\ lock[ShardIndex(job[u].key)] = u /\ mem[job[u].key] = Absent
      BY <3>1 DEF MemInv, JobsOK, Carries, Fills, PutsAreFree
    <3>3. u # "none"
      BY MemoryCacheAssumption DEF Threads
    <3> QED
      BY <2>2, <3>1, <3>2, <3>3, ShardTypes DEF LocksWell, Shrinks
  <2> QED
    BY <2>1, <2>2
<1>5. OvershootIsTrimmed'
  <2> SUFFICES ASSUME cap > 0, live' > cap PROVE \E u \in Threads : MustTrim(job'[u], Stored', cap)
    BY DEF OvershootIsTrimmed, Shrinks
  <2>1. live > cap
    BY SMT DEF Shrinks, MemInv, MemOK
  <2>2. PICK u \in Threads : MustTrim(job[u], Stored, cap)
    BY <2>1 DEF MemInv, OvershootIsTrimmed
  <2>3. CASE u = t
    BY <1>1, <2>2, <2>3
  <2>4. CASE u # t
    BY <1>1, <2>2, <2>4, StillTrims DEF Shrinks
  <2> QED
    BY <2>3, <2>4
<1> QED
  BY <1>2, <1>3, <1>4, <1>5 DEF Shrinks

\* A step that leaves the entries alone.
LEMMA NothingStored ==
    ASSUME MemInv, UNCHANGED <<mem, live>>
    PROVE  /\ mem' \in [Keys -> EntryRec] /\ Stored' \subseteq Stored /\ Counted'
           /\ live \in Nat /\ live' \in Nat /\ live' <= live
           /\ \A k \in Keys : mem[k] = Absent => mem'[k] = Absent
<1>1. Stored' = Stored /\ live' = live
  BY DEF Stored
<1>2. live \in Nat
  BY FS_CardinalityType DEF MemInv, Counted
<1>3. live <= live
  BY <1>2, SMT
<1> QED
  BY <1>1, <1>2, <1>3 DEF MemInv, MemOK, Counted

LEMMA IdleJob ==
    /\ Idle \in JobRec /\ LooksUp(Idle) /\ Scans(Idle) /\ Idle.at = "idle"
    /\ \A t : Carries(t, Idle)
<1>1. << >> \in Visits
  BY SMT DEF Visits
<1>2. Idle \in JobRec
  BY <1>1, AbsentType, 0 \in Nat DEF Idle, JobRec, Ats
<1>3. Idle.at = "idle"
  BY DEF Idle
<1> QED
  BY <1>2, <1>3 DEF LooksUp, Scans, Carries, Fills

\* A thread's job.
LEMMA JobOf ==
    ASSUME MemInv, NEW t \in Threads
    PROVE  /\ job[t] \in JobRec /\ LooksUp(job[t]) /\ Carries(t, job[t]) /\ Scans(job[t])
           /\ job[t].now \in Nat /\ job[t].udp \in BOOLEAN /\ job[t].limit \in Nat
           /\ job[t].visit \in Visits /\ job[t].entry \in EntryRec /\ job[t].at \in Ats
           /\ job[t].then \in Ats /\ job[t].key \in Keys \cup {<<"", "">>}
<1>1. job[t] \in JobRec
  BY DEF MemInv, MemOK
<1> QED
  BY <1>1 DEF MemInv, JobsOK, JobRec

\* A job that only moves to another place.
LEMMA JobMoves ==
    ASSUME MemInv, NEW t \in Threads, NEW at \in Ats
    PROVE  LET j == [job[t] EXCEPT !.at = at]
           IN  /\ j \in JobRec /\ j.at = at /\ j.key = job[t].key /\ j.entry = job[t].entry
               /\ j.visit = job[t].visit /\ j.then = job[t].then /\ j.limit = job[t].limit
<1>1. job[t] \in JobRec
  BY JobOf
<1> QED
  BY <1>1 DEF JobRec

\* A step that leaves the locks alone and is not about to put.
LEMMA SameLocks ==
    ASSUME MemInv, UNCHANGED lock, NEW t, NEW j, j.at # "put"
    PROVE  LocksWell(t, j)
  BY DEF MemInv, MemOK, LocksWell

-----------------------------------------------------------------------------
(* lookup                                                                  *)

\* The end of a call leaves nothing to do and nobody else's work.
LEMMA EndOfCall ==
    ASSUME MemInv, NEW t \in Threads, Done(t), UNCHANGED <<mem, live, clock, cap, opts, lock>>,
           cursor' \in Nat, ~MustTrim(job[t], Stored, cap) \/ ~(cap > 0 /\ live' > cap)
    PROVE  MemOK' /\ Counted' /\ JobsOK' /\ PutsAreFree' /\ OvershootIsTrimmed'
<1>1. job' = [job EXCEPT ![t] = Idle]
  BY DEF Done
<1>2. Shrinks(t, Idle)
  BY <1>1, IdleJob, NothingStored DEF Shrinks
<1> QED
  BY <1>2, IdleJob, SameLocks, ShrinkStep

\* Serve gives back what the lookup found: the question's own entry, an
\* NXDOMAIN of an ancestor, or for UDP the truncated answer.
LEMMA ServeAnswers ==
    ASSUME MemInv, NEW t \in Threads, job[t].at \in {"exact", "ancestors", "truncated"},
           NEW k \in Keys, Serve(t, k), Get(k, job[t].now) # Absent,
           \/ k[1] = job[t].key[1]
           \/ /\ Get(k, job[t].now).kind = "nxdomain"
              /\ \E i \in DOMAIN Ancestors[job[t].key[1]] : k[1] = Ancestors[job[t].key[1]][i],
           k[2] = "truncated" => job[t].udp
    PROVE  HitAnswersTheQuestion'
<1> DEFINE e == Get(k, job[t].now)
           x == Decayed(e.ttls, e.filled, job[t].now)
           f == [e EXCEPT !.ttls = x]
<1>1. e \in EntryRec /\ e = mem[k] /\ Fresh(mem[k].exp, job[t].now)
  BY JobOf, FreshIsStored DEF MemInv
<1>2. f.kind = e.kind /\ f.exp = e.exp
  BY <1>1 DEF EntryRec
<1>3. /\ hit' = [q |-> job[t].key[1], udp |-> job[t].udp, key |-> k, now |-> job[t].now, entry |-> f]
  BY DEF Serve
<1>4. /\ hit'.q = job[t].key[1] /\ hit'.udp = job[t].udp /\ hit'.key = k
      /\ hit'.now = job[t].now /\ hit'.entry = f
  BY <1>3
<1> HIDE DEF f
<1>5. Fresh(hit'.entry.exp, hit'.now)
  BY <1>1, <1>2, <1>4
<1>6. hit'.key[2] = "truncated" => hit'.udp
  BY <1>4
<1>7. \/ hit'.key[1] = hit'.q
      \/ /\ hit'.entry.kind = "nxdomain"
         /\ \E i \in DOMAIN Ancestors[hit'.q] : hit'.key[1] = Ancestors[hit'.q][i]
  BY <1>2, <1>4
<1> QED
  BY <1>5, <1>6, <1>7 DEF HitAnswersTheQuestion

LEMMA BeginLookupStep ==
    ASSUME MemInv, NEW t \in Fillers, NEW q \in Questions, NEW udp \in BOOLEAN,
           BeginLookup(t, q, udp)
    PROVE  MemInv'
<1> DEFINE j == [Idle EXCEPT !.at = "exact", !.key = CompleteKey(q), !.udp = udp, !.now = clock]
<1>1. t \in Threads /\ CompleteKey(q) \in Keys /\ CompleteKey(q)[1] = q
  BY SMT DEF Threads, CompleteKey, Keys
<1>2. j \in JobRec /\ j.at = "exact" /\ j.key = CompleteKey(q)
  BY <1>1, IdleJob DEF JobRec, Ats, MemInv, MemOK
<1>3. LooksUp(j) /\ Carries(t, j) /\ Scans(j)
  BY <1>1, <1>2 DEF LooksUp, Carries, Fills, Scans
<1>4. job' = [job EXCEPT ![t] = j] /\ UNCHANGED <<clock, mem, live, cap, lock, cursor, opts>>
  BY DEF BeginLookup
<1>5. Shrinks(t, j)
  BY <1>2, <1>3, <1>4, NothingStored DEF Shrinks, MemInv, MemOK
<1>6. ~MustTrim(job[t], Stored, cap)
  BY DEF BeginLookup, MustTrim
<1>7. hit' = NoHit
  BY DEF BeginLookup, Call
<1> HIDE DEF j
<1> QED
  BY <1>1, <1>2, <1>4, <1>5, <1>6, <1>7, SameLocks, ShrinkStep DEF MemInv, HitAnswersTheQuestion

LEMMA ReadExactStep ==
    ASSUME MemInv, NEW t \in Fillers, ReadExact(t)
    PROVE  MemInv'
<1> DEFINE k == job[t].key
           v == IF opts.negative /\ opts.covers THEN Ancestors[k[1]] ELSE << >>
           j == [job[t] EXCEPT !.at = "ancestors", !.visit = v]
<1>1. t \in Threads /\ job[t].at = "exact"
  BY DEF ReadExact, Threads
<1>2. k[1] \in Questions /\ k = CompleteKey(k[1]) /\ k \in Keys /\ k[2] = "complete"
  <2>1. k[1] \in Questions /\ k = CompleteKey(k[1])
    BY <1>1, JobOf DEF LooksUp
  <2> QED
    BY <2>1, KeyTypes
<1>3. UNCHANGED <<mem, live, clock, cap, opts, lock, cursor>> /\ ~MustTrim(job[t], Stored, cap)
  BY <1>1 DEF ReadExact, MustTrim
<1>4. CASE Get(k, job[t].now) # Absent
  <2>1. Serve(t, k)
    BY <1>4 DEF ReadExact
  <2>2. HitAnswersTheQuestion'
    BY <1>1, <1>2, <1>4, <2>1, ServeAnswers
  <2>3. Done(t) /\ cursor' \in Nat
    BY <1>3, <2>1 DEF Serve, MemInv, MemOK
  <2> QED
    BY <1>1, <1>3, <2>2, <2>3, EndOfCall DEF MemInv
<1>5. CASE Get(k, job[t].now) = Absent
  <2>1. job' = [job EXCEPT ![t] = j] /\ hit' = hit
    BY <1>5 DEF ReadExact
  <2>2. v \in Seq(Questions) /\ \A i \in 1 .. Len(v) : \E n \in DOMAIN Ancestors[k[1]] :
            v[i] = Ancestors[k[1]][n]
    <3>1. Ancestors[k[1]] \in Seq(Questions)
      BY <1>2, CacheEntriesAssumption
    <3> QED
      BY <3>1, SMT
  <2> HIDE DEF v
  <2>3. j \in JobRec /\ j.at = "ancestors" /\ j.key = k /\ j.visit = v
    BY <1>1, <2>2, JobOf DEF JobRec, Ats, Visits
  <2> HIDE DEF j
  <2>4. LooksUp(j) /\ Carries(t, j) /\ Scans(j)
    BY <1>2, <2>2, <2>3 DEF LooksUp, Carries, Fills, Scans
  <2>5. Shrinks(t, j)
    BY <1>3, <2>1, <2>3, <2>4, NothingStored DEF Shrinks, MemInv, MemOK
  <2> QED
    BY <1>1, <1>3, <2>1, <2>3, <2>5, SameLocks, ShrinkStep DEF MemInv, HitAnswersTheQuestion
<1> QED
  BY <1>4, <1>5

LEMMA ReadAncestorStep ==
    ASSUME MemInv, NEW t \in Fillers, ReadAncestor(t)
    PROVE  MemInv'
<1> DEFINE q == job[t].key[1]
           v == job[t].visit
           k == CompleteKey(Head(v))
           e == Get(k, job[t].now)
<1>1. t \in Threads /\ job[t].at = "ancestors"
  BY DEF ReadAncestor, Threads
<1>2. /\ q \in Questions /\ job[t].key = CompleteKey(q) /\ v \in Seq(Questions)
      /\ \A i \in 1 .. Len(v) : \E n \in DOMAIN Ancestors[q] : v[i] = Ancestors[q][n]
  BY <1>1, JobOf DEF LooksUp
<1>3. UNCHANGED <<mem, live, clock, cap, opts, lock, cursor>> /\ ~MustTrim(job[t], Stored, cap)
  BY <1>1 DEF ReadAncestor, MustTrim
<1>4. ASSUME NEW j, job' = [job EXCEPT ![t] = j], hit' = hit, j \in JobRec, LooksUp(j),
             j.at \in {"ancestors", "truncated"}
      PROVE  MemInv'
  <2>1. Carries(t, j) /\ Scans(j)
    BY <1>4 DEF Carries, Fills, Scans
  <2>2. Shrinks(t, j)
    BY <1>3, <1>4, <2>1, NothingStored DEF Shrinks, MemInv, MemOK
  <2> QED
    BY <1>1, <1>3, <1>4, <2>2, SameLocks, ShrinkStep DEF MemInv, HitAnswersTheQuestion
<1>5. CASE Do(t, "truncated") /\ hit' = hit
  <2> DEFINE j == [job[t] EXCEPT !.at = "truncated"]
  <2>1. j \in JobRec /\ j.at = "truncated" /\ j.key = job[t].key
    BY <1>1, JobMoves DEF Ats
  <2>2. LooksUp(j)
    BY <1>2, <2>1 DEF LooksUp
  <2>3. job' = [job EXCEPT ![t] = j]
    BY <1>5 DEF Do
  <2> QED
    BY <1>4, <1>5, <2>1, <2>2, <2>3
<1>6. CASE v # << >> /\ e.kind = "nxdomain" /\ Serve(t, k)
  <2>1. Head(v) \in Questions /\ Head(v) = v[1] /\ 1 \in 1 .. Len(v)
    BY <1>2, <1>6, SMT
  <2>2. k \in Keys /\ k[1] = Head(v) /\ k[2] = "complete"
    BY <2>1 DEF CompleteKey, Keys
  <2>3. e # Absent
    BY <1>6, AbsentType
  <2>4. \E i \in DOMAIN Ancestors[job[t].key[1]] : k[1] = Ancestors[job[t].key[1]][i]
    BY <1>2, <2>1, <2>2
  <2>5. HitAnswersTheQuestion'
    BY <1>1, <1>6, <2>2, <2>3, <2>4, ServeAnswers
  <2>6. Done(t) /\ cursor' \in Nat
    BY <1>3, <1>6 DEF Serve, MemInv, MemOK
  <2> QED
    BY <1>1, <1>3, <2>5, <2>6, EndOfCall DEF MemInv
<1>7. CASE v # << >> /\ job' = [job EXCEPT ![t].visit = Tail(@)] /\ hit' = hit
  <2> DEFINE j == [job[t] EXCEPT !.visit = Tail(v)]
  <2>1. Tail(v) \in Seq(Questions) /\ Len(v) \in Nat /\ Len(Tail(v)) = Len(v) - 1
    BY <1>2, <1>7, SMT
  <2>2. \A i \in 1 .. Len(Tail(v)) : Tail(v)[i] = v[i + 1] /\ i + 1 \in 1 .. Len(v)
    BY <1>2, <1>7, <2>1, SMT
  <2>3. j \in JobRec /\ j.at = "ancestors" /\ j.key = job[t].key /\ j.visit = Tail(v)
    BY <1>1, <2>1, JobOf DEF JobRec, Visits
  <2>4. job' = [job EXCEPT ![t] = j]
    BY <1>7
  <2> HIDE DEF j, v, q
  <2>6. \A i \in 1 .. Len(Tail(v)) : \E n \in DOMAIN Ancestors[q] : Tail(v)[i] = Ancestors[q][n]
    BY <1>2, <2>2
  <2>5. LooksUp(j)
    <3>1. j.key[1] = q
      BY <2>3 DEF q
    <3> QED
      BY <1>2, <2>1, <2>3, <2>6, <3>1, SMT DEF LooksUp
  <2> QED
    BY <1>4, <1>7, <2>3, <2>4, <2>5
<1> QED
  BY <1>5, <1>6, <1>7 DEF ReadAncestor

LEMMA ReadTruncatedStep ==
    ASSUME MemInv, NEW t \in Fillers, ReadTruncated(t)
    PROVE  MemInv'
<1> DEFINE k == TruncatedKey(job[t].key[1])
<1>1. t \in Threads /\ job[t].at = "truncated"
  BY DEF ReadTruncated, Threads
<1>2. job[t].key[1] \in Questions
  BY <1>1, JobOf DEF LooksUp
<1>3. k \in Keys /\ k[1] = job[t].key[1]
  BY <1>2 DEF TruncatedKey, Keys
<1>4. UNCHANGED <<mem, live, clock, cap, opts, lock, cursor>> /\ ~MustTrim(job[t], Stored, cap)
  BY <1>1 DEF ReadTruncated, MustTrim
<1>5. Done(t) /\ cursor' \in Nat
  BY <1>4 DEF ReadTruncated, Serve, MemInv, MemOK
<1>6. CASE opts.truncated /\ job[t].udp /\ Get(k, job[t].now) # Absent
  <2>1. Serve(t, k)
    BY <1>6 DEF ReadTruncated
  <2>2. HitAnswersTheQuestion'
    BY <1>1, <1>3, <1>6, <2>1, ServeAnswers
  <2> QED
    BY <1>1, <1>4, <1>5, <2>2, EndOfCall DEF MemInv
<1>7. CASE ~(opts.truncated /\ job[t].udp /\ Get(k, job[t].now) # Absent)
  BY <1>1, <1>4, <1>5, <1>7, EndOfCall DEF ReadTruncated, MemInv, HitAnswersTheQuestion
<1> QED
  BY <1>6, <1>7

-----------------------------------------------------------------------------
(* insert                                                                  *)

\* A TTL is a number: Min of a set of TTLs is one of them.
LEMMA TtlType ==
    ASSUME MemInv, NEW q \in Questions, NEW a \in Answers[q], NEW udp \in BOOLEAN
    PROVE  /\ StoredAs(q, a, udp, opts).ttl \in Nat /\ StoredAs(q, a, udp, opts).key \in Keys
           /\ Kind(a) \in {"nodata", "positive", "nxdomain", "servfail"} /\ a.ttls \in SUBSET Nat
<1>1. a \in [rcode : Nat, answers : Nat, ttls : SUBSET Nat, tc : BOOLEAN]
  BY CacheEntriesAssumption
<1>2. a.ttls \in SUBSET Nat /\ a.rcode \in Nat
  BY <1>1
<1>3. Kind(a) \in {"nodata", "positive", "nxdomain", "servfail"}
  BY <1>2, SMT DEF Kind
<1>4. \A S \in SUBSET Nat : S # {} => Min(S) \in Nat
  <2> SUFFICES ASSUME NEW S \in SUBSET Nat, S # {} PROVE Min(S) \in Nat
    OBVIOUS
  <2>1. \E x \in S : \A y \in S : ~(<<y, x>> \in OpToRel(<, Nat))
    BY NatLessThanWellFounded, WFMin
  <2>2. \E x \in S : \A y \in S : x =< y
    <3>1. \A x, y \in Nat : y < x => <<y, x>> \in OpToRel(<, Nat)
      BY DEF OpToRel
    <3>2. PICK x \in S : \A y \in S : ~(<<y, x>> \in OpToRel(<, Nat))
      BY <2>1
    <3>3. \A y \in S : ~(y < x)
      BY <3>1, <3>2
    <3> QED
      BY <3>3, SMT
  <2> QED
    BY <2>2 DEF Min
<1>5. opts.servfail_ttl \in Nat /\ opts.truncated_ttl \in Nat
  <2>1. opts \in [negative : BOOLEAN, covers : BOOLEAN, servfail_ttl : Nat, truncated : BOOLEAN,
                  truncated_ttl : Nat \ {0}]
    BY MemoryCacheAssumption DEF MemInv, MemOK
  <2> QED
    BY <2>1
<1>6. TtlFor(a, opts) \in Nat
  BY <1>2, <1>4, <1>5, SMT DEF TtlFor, DefaultTtl, NotCached
<1>7. StoredAs(q, a, udp, opts).ttl \in Nat /\ StoredAs(q, a, udp, opts).key \in Keys
  BY <1>5, <1>6, KeyTypes, 0 \in Nat DEF StoredAs, NotCached
<1> QED
  BY <1>2, <1>3, <1>7

\* A step that changes no more than the clock and the last hit.
LEMMA SameEntries ==
    ASSUME MemInv, UNCHANGED <<mem, live, cap, lock, job, cursor, opts>>, clock' \in Nat
    PROVE  MemOK' /\ Counted' /\ JobsOK' /\ PutsAreFree' /\ OvershootIsTrimmed'
<1>1. MemOK'
  BY DEF MemInv, MemOK
<1>2. Counted' /\ Stored' = Stored
  BY DEF MemInv, Counted, Stored
<1>3. JobsOK'
  BY DEF MemInv, JobsOK, LooksUp, Carries, Fills, Scans
<1>4. PutsAreFree'
  BY DEF MemInv, PutsAreFree
<1>5. OvershootIsTrimmed'
  BY <1>2 DEF MemInv, OvershootIsTrimmed
<1> QED
  BY <1>1, <1>2, <1>3, <1>4, <1>5

LEMMA BeginInsertStep ==
    ASSUME MemInv, NEW t \in Fillers, NEW q \in Questions, NEW a \in Answers[q],
           NEW udp \in BOOLEAN, BeginInsert(t, q, a, udp)
    PROVE  MemInv'
<1> DEFINE st == StoredAs(q, a, udp, opts)
           e == [kind |-> Kind(a), ttls |-> a.ttls, filled |-> clock, exp |-> clock + st.ttl]
           j == [Idle EXCEPT !.at = "insert", !.key = st.key, !.now = clock, !.entry = e]
<1>1. t \in Threads /\ st.key \in Keys /\ st.ttl \in Nat /\ clock \in Nat
  BY TtlType DEF Threads, MemInv, MemOK
<1>2. UNCHANGED <<clock, mem, live, cap, lock, cursor, opts>> /\ hit' = NoHit
  BY DEF BeginInsert, Call
<1>3. HitAnswersTheQuestion'
  BY <1>2 DEF HitAnswersTheQuestion
<1>4. CASE st.ttl = NotCached
  <2>1. job' = job
    BY <1>4 DEF BeginInsert
  <2> QED
    BY <1>1, <1>2, <1>3, <2>1, SameEntries DEF MemInv
<1>5. CASE st.ttl # NotCached
  <2>1. clock + st.ttl \in Nat
    BY <1>1, SMT
  <2>2. e \in EntryRec /\ e # Absent
    <3>1. e.kind # "absent" /\ Kind(a) \in {"nodata", "positive", "nxdomain", "servfail"}
      BY TtlType
    <3>2. e \in EntryRec
      BY <1>1, <2>1, <3>1, TtlType DEF EntryRec
    <3> QED
      BY <3>1, <3>2, AbsentType
  <2>3. job' = [job EXCEPT ![t] = j]
    BY <1>5 DEF BeginInsert
  <2> HIDE DEF e, st
  <2>4. j \in JobRec /\ j.at = "insert" /\ j.key = st.key /\ j.entry = e
    BY <1>1, <2>2, IdleJob DEF JobRec, Ats
  <2> HIDE DEF j
  <2>5. LooksUp(j) /\ Carries(t, j) /\ Scans(j)
    BY <1>1, <2>2, <2>4 DEF LooksUp, Carries, Fills, Scans
  <2>6. Shrinks(t, j)
    BY <1>2, <2>3, <2>4, <2>5, NothingStored DEF Shrinks, MemInv, MemOK
  <2>7. ~MustTrim(job[t], Stored, cap)
    BY DEF BeginInsert, MustTrim
  <2> QED
    BY <1>1, <1>2, <1>3, <2>4, <2>6, <2>7, SameLocks, ShrinkStep DEF MemInv
<1> QED
  BY <1>4, <1>5

\* What an insert prunes is stored, and includes its own key unless that is
\* free already.
LEMMA Prunes ==
    ASSUME MemInv, NEW t \in Threads, job[t].key \in Keys, ~Fresh(mem[job[t].key].exp, job[t].now)
    PROVE  /\ Pruned(t).dropped \in SUBSET Stored
           /\ Pruned(t).dropped \subseteq Present(ShardIndex(job[t].key))
           /\ Pruned(t).counted = Cardinality(Pruned(t).dropped)
           /\ mem[job[t].key] = Absent \/ job[t].key \in Pruned(t).dropped
<1> DEFINE s == ShardIndex(job[t].key)
           now == job[t].now
           gone == IF cap > 0 THEN Stale(s, now) ELSE Stale(s, now) \cap {job[t].key}
<1>1. gone \subseteq Stale(s, now) /\ Stale(s, now) \subseteq Present(s) /\ Present(s) \subseteq Stored
  BY DEF Stale, Present, In, Stored
<1>2. mem[job[t].key] = Absent \/ job[t].key \in gone
  BY DEF Stale, Present, In
<1>3. Pruned(t) = [dropped |-> gone, counted |-> Cardinality(gone)]
  BY DEF Pruned
<1> HIDE DEF gone
<1>4. Pruned(t).dropped = gone /\ Pruned(t).counted = Cardinality(gone)
  BY <1>3, SMT
<1> QED
  BY <1>1, <1>2, <1>4

LEMMA InsertCheckStep ==
    ASSUME MemInv, NEW t \in Threads, InsertCheck(t)
    PROVE  MemInv'
<1> DEFINE k == job[t].key
           s == ShardIndex(k)
           p == Pruned(t)
           rest == Present(s) \ p.dropped
<1>1. /\ job[t].at = "insert" /\ k \in Keys /\ job[t].entry # Absent /\ lock[s] = "none"
      /\ job[t].entry \in EntryRec /\ s \in Shards
  BY JobOf, ShardTypes DEF InsertCheck, Carries, Fills
<1>2. UNCHANGED <<clock, cap, cursor, opts, hit>> /\ ~MustTrim(job[t], Stored, cap)
  BY <1>1 DEF InsertCheck, MustTrim
<1>3. HitAnswersTheQuestion'
  BY <1>2 DEF MemInv, HitAnswersTheQuestion
<1>4. ASSUME NEW j, j \in JobRec, j.at \in {"put", "sibling", "evict"}, j.key = k,
             j.entry = job[t].entry, job' = [job EXCEPT ![t] = j], Scans(j), LocksWell(t, j),
             mem' \in [Keys -> EntryRec], Stored' \subseteq Stored, Counted',
             live \in Nat, live' \in Nat, live' <= live,
             \A c \in Keys : mem[c] = Absent => mem'[c] = Absent
      PROVE  MemInv'
  <2>1. LooksUp(j) /\ Carries(t, j)
    BY <1>1, <1>4 DEF LooksUp, Carries
  <2>2. Shrinks(t, j)
    BY <1>2, <1>4, <2>1 DEF Shrinks, MemInv, MemOK
  <2> QED
    BY <1>2, <1>3, <1>4, <2>2, ShrinkStep DEF MemInv
<1>5. CASE Fresh(mem[k].exp, job[t].now)
  <2> DEFINE j == [job[t] EXCEPT !.at = "sibling"]
  <2>1. /\ mem' = [mem EXCEPT ![k] = job[t].entry] /\ UNCHANGED <<live, lock>>
        /\ job' = [job EXCEPT ![t] = j]
    BY <1>5 DEF InsertCheck, Do
  <2>2. j \in JobRec /\ j.at = "sibling" /\ j.key = k /\ j.entry = job[t].entry
    BY JobMoves DEF Ats
  <2> HIDE DEF j
  <2>3. k \in Stored
    BY <1>1, <1>5, JobOf, FreshIsStored DEF MemInv
  <2>4. mem' \in [Keys -> EntryRec] /\ \A c \in Keys : mem'[c] = IF c = k THEN job[t].entry ELSE mem[c]
    BY <1>1, <2>1 DEF MemInv, MemOK
  <2>5. Stored' = Stored
    BY <1>1, <2>3, <2>4 DEF Stored
  <2>6. Counted' /\ live \in Nat /\ live' \in Nat
    BY <2>1, <2>5, FS_CardinalityType DEF MemInv, Counted
  <2>7. live' <= live
    BY <2>1, <2>6, SMT
  <2>8. \A c \in Keys : mem[c] = Absent => mem'[c] = Absent
    BY <2>3, <2>4 DEF Stored
  <2> QED
    BY <1>4, <2>1, <2>2, <2>4, <2>5, <2>6, <2>7, <2>8, SameLocks DEF Scans
<1>6. CASE ~Fresh(mem[k].exp, job[t].now)
  <2>1. /\ p.dropped \in SUBSET Stored /\ p.dropped \subseteq Present(s)
        /\ p.counted = Cardinality(p.dropped) /\ (mem[k] = Absent \/ k \in p.dropped)
    BY <1>1, <1>6, Prunes
  <2>2. ASSUME NEW gone \in SUBSET Stored, p.dropped \subseteq gone, mem' = Without(gone),
               live' = live - Cardinality(gone), lock' = [lock EXCEPT ![s] = t], Do(t, "put")
        PROVE  MemInv'
    <3> DEFINE j == [job[t] EXCEPT !.at = "put"]
    <3>1. j \in JobRec /\ j.at = "put" /\ j.key = k /\ j.entry = job[t].entry
      BY JobMoves DEF Ats
    <3>2. job' = [job EXCEPT ![t] = j]
      BY <2>2 DEF Do
    <3> HIDE DEF j
    <3>3. mem'[k] = Absent
      BY <1>1, <2>1, <2>2 DEF Without
    <3>4. lock' \in [Shards -> Threads \cup {"none"}] /\ lock'[s] = t
          /\ \A c \in Shards : lock[c] \notin {"none", t} => lock'[c] = lock[c]
      BY <1>1, <2>2 DEF MemInv, MemOK
    <3>5. LocksWell(t, j)
      BY <3>1, <3>3, <3>4 DEF LocksWell
    <3> QED
      BY <1>4, <2>2, <3>1, <3>2, <3>5, Removes DEF MemInv, Scans
  <2>3. CASE mem' = Without(p.dropped) /\ live' = live - p.counted
             /\ lock' = [lock EXCEPT ![s] = t] /\ Do(t, "put")
    BY <2>1, <2>2, <2>3
  <2>4. ASSUME NEW victim \in rest, mem' = Without(p.dropped \cup {victim}),
               live' = live - p.counted - 1, lock' = [lock EXCEPT ![s] = t], Do(t, "put")
        PROVE  MemInv'
    <3> DEFINE gone == p.dropped \cup {victim}
    <3>1. gone \in SUBSET Stored /\ victim \notin p.dropped
      BY <2>1 DEF Present, In, Stored
    <3>2. IsFiniteSet(p.dropped)
      BY <2>1, FS_Subset DEF MemInv, Counted
    <3>3. Cardinality(gone) = Cardinality(p.dropped) + 1 /\ Cardinality(p.dropped) \in Nat
      BY <3>1, <3>2, FS_AddElement, FS_CardinalityType
    <3>4. live \in Nat
      BY FS_CardinalityType DEF MemInv, Counted
    <3>5. live' = live - Cardinality(gone)
      BY <2>1, <2>4, <3>3, <3>4, SMT
    <3> QED
      BY <2>2, <2>4, <3>1, <3>5
  <2>5. CASE /\ mem' = Without(p.dropped) /\ live' = live - p.counted /\ UNCHANGED lock
             /\ job' = [job EXCEPT ![t].at = "evict", ![t].then = "insert",
                                   ![t].visit = ScanExcluding(s)]
    <3> DEFINE j == [job[t] EXCEPT !.at = "evict", !.then = "insert", !.visit = ScanExcluding(s)]
    <3>1. ScanExcluding(s) \in Seq(Shards) /\ ScanExcluding(s) # << >>
      BY <1>1, ShardTypes
    <3>2. /\ j \in JobRec /\ j.at = "evict" /\ j.key = k /\ j.entry = job[t].entry
          /\ j.then = "insert" /\ j.visit = ScanExcluding(s)
      BY <3>1, JobOf DEF JobRec, Ats, Visits
    <3>3. job' = [job EXCEPT ![t] = j]
      BY <2>5
    <3> HIDE DEF j
    <3> QED
      BY <1>4, <2>1, <2>5, <3>1, <3>2, <3>3, Removes, SameLocks DEF MemInv, Scans
  <2> QED
    BY <1>6, <2>3, <2>4, <2>5 DEF InsertCheck
<1> QED
  BY <1>5, <1>6


\* The entry goes into the free place; whoever is over the cap now has still
\* to load it.
LEMMA InsertPutStep ==
    ASSUME MemInv, NEW t \in Threads, InsertPut(t)
    PROVE  MemInv'
<1> DEFINE k == job[t].key
           j == [job[t] EXCEPT !.at = "loadmax"]
<1>1. /\ job[t].at = "put" /\ k \in Keys /\ job[t].entry \in EntryRec /\ job[t].entry # Absent
      /\ mem[k] = Absent /\ lock[ShardIndex(k)] = t /\ ShardIndex(k) \in Shards
  BY JobOf, ShardTypes DEF InsertPut, Carries, Fills, MemInv, PutsAreFree
<1>2. /\ mem' = [mem EXCEPT ![k] = job[t].entry] /\ live' = live + 1
      /\ lock' = [lock EXCEPT ![ShardIndex(k)] = "none"] /\ job' = [job EXCEPT ![t] = j]
      /\ UNCHANGED <<clock, cap, cursor, opts, hit>>
  BY DEF InsertPut, Do
<1>3. j \in JobRec /\ j.at = "loadmax" /\ j.key = k /\ j.entry = job[t].entry
  BY JobMoves DEF Ats
<1> HIDE DEF j
<1>4. mem' \in [Keys -> EntryRec] /\ \A c \in Keys : mem'[c] = IF c = k THEN job[t].entry ELSE mem[c]
  BY <1>1, <1>2 DEF MemInv, MemOK
<1>5. Stored' = Stored \cup {k} /\ k \notin Stored
  <2>1. k \notin Stored /\ k \in Stored'
    BY <1>1, <1>4 DEF Stored
  <2>2. \A c \in Keys : c # k => (c \in Stored' <=> c \in Stored)
    BY <1>4 DEF Stored
  <2>3. Stored \subseteq Keys /\ Stored' \subseteq Keys
    BY DEF Stored
  <2> QED
    BY <1>1, <2>1, <2>2, <2>3
<1>6. Counted'
  <2>1. Cardinality(Stored \cup {k}) = Cardinality(Stored) + 1 /\ IsFiniteSet(Stored \cup {k})
    BY <1>5, FS_AddElement DEF MemInv, Counted
  <2> QED
    BY <1>2, <1>5, <2>1 DEF MemInv, Counted
<1>7. \A u \in Threads : job'[u] = IF u = t THEN j ELSE job[u]
  BY <1>2 DEF MemInv, MemOK
<1>8. MemOK'
  BY <1>1, <1>2, <1>3, <1>4 DEF MemInv, MemOK
<1>9. LooksUp(j) /\ Carries(t, j) /\ Scans(j)
  BY <1>1, <1>3 DEF LooksUp, Carries, Scans
<1>10. JobsOK'
  <2>1. \A x : (LooksUp(x)' <=> LooksUp(x)) /\ (Scans(x)' <=> Scans(x))
    BY DEF LooksUp, Scans
  <2>2. \A u, x : Carries(u, x)' <=> Carries(u, x)
    BY DEF Carries, Fills
  <2> QED
    BY <1>7, <1>9, <2>1, <2>2 DEF MemInv, JobsOK
<1>11. PutsAreFree'
  <2> SUFFICES ASSUME NEW u \in Threads, job'[u].at = "put"
               PROVE  lock'[ShardIndex(job'[u].key)] = u /\ mem'[job'[u].key] = Absent
    BY DEF PutsAreFree
  <2>1. u # t /\ job'[u] = job[u]
    BY <1>3, <1>7
  <2>2. job[u].key \in Keys /\ lock[ShardIndex(job[u].key)] = u /\ mem[job[u].key] = Absent
    BY <2>1 DEF MemInv, JobsOK, Carries, Fills, PutsAreFree
  <2>3. ShardIndex(job[u].key) # ShardIndex(k) /\ job[u].key # k
    BY <1>1, <2>1, <2>2
  <2>4. lock'[ShardIndex(job[u].key)] = lock[ShardIndex(job[u].key)]
    BY <1>2, <2>2, <2>3, ShardTypes DEF MemInv, MemOK
  <2> QED
    BY <1>4, <2>1, <2>2, <2>3, <2>4
<1>12. OvershootIsTrimmed'
  <2>1. MustTrim(job'[t], Stored', cap')
    BY <1>3, <1>7 DEF MustTrim
  <2> QED
    BY <2>1 DEF OvershootIsTrimmed
<1> QED
  BY <1>2, <1>6, <1>8, <1>10, <1>11, <1>12 DEF MemInv, HitAnswersTheQuestion

-----------------------------------------------------------------------------
(* evict_one, trim_to_max, set_max_entries                                 *)

\* A step of a thread that leaves the entries alone, and owes the trimming
\* after it if it did before.
LEMMA QuietStep ==
    ASSUME MemInv, NEW t \in Threads, UNCHANGED <<clock, mem, live, cap, lock, opts, hit>>,
           cursor' \in Nat, NEW j, job' = [job EXCEPT ![t] = j], j \in JobRec, j.at # "put",
           LooksUp(j), Carries(t, j), Scans(j),
           MustTrim(job[t], Stored, cap) /\ cap > 0 /\ live > cap => MustTrim(j, Stored, cap)
    PROVE  MemInv'
<1>1. Stored' = Stored /\ HitAnswersTheQuestion'
  BY DEF Stored, MemInv, HitAnswersTheQuestion
<1>2. Shrinks(t, j)
  BY NothingStored DEF Shrinks
<1>3. MustTrim(job[t], Stored, cap) /\ cap > 0 /\ live' > cap => MustTrim(j, Stored', cap)
  BY <1>1
<1> QED
  BY <1>1, <1>2, <1>3, SameLocks, ShrinkStep DEF MemInv

LEMMA TrimEndsStep ==
    ASSUME MemInv, NEW t \in Threads, UNCHANGED <<clock, mem, live, cap, lock, opts, hit, cursor>>,
           TrimEnds(t), Fills(t, job[t]) \/ t = Applier,
           ~(MustTrim(job[t], Stored, cap) /\ cap > 0 /\ live > cap)
    PROVE  MemInv'
<1>1. cursor' \in Nat
  BY DEF MemInv, MemOK
<1>2. CASE t = Applier
  BY <1>1, <1>2, IdleJob, QuietStep DEF TrimEnds, Done
<1>3. CASE t # Applier
  <2> DEFINE j == [job[t] EXCEPT !.at = "sibling"]
  <2>1. j \in JobRec /\ j.at = "sibling" /\ j.key = job[t].key /\ j.entry = job[t].entry
    BY JobMoves DEF Ats
  <2>2. job' = [job EXCEPT ![t] = j]
    BY <1>3 DEF TrimEnds, Do
  <2> HIDE DEF j
  <2>3. LooksUp(j) /\ Carries(t, j) /\ Scans(j)
    BY <1>3, <2>1, JobOf DEF LooksUp, Carries, Scans
  <2> QED
    BY <1>1, <2>1, <2>2, <2>3, QuietStep
<1> QED
  BY <1>2, <1>3

LEMMA LoadMaxStep ==
    ASSUME MemInv, NEW t \in Threads, LoadMax(t)
    PROVE  MemInv'
<1>1. /\ job[t].at = "loadmax" /\ UNCHANGED <<clock, mem, live, cap, lock, cursor, opts, hit>>
      /\ cursor' \in Nat /\ cap \in Nat
  BY DEF LoadMax, MemInv, MemOK
<1>2. Fills(t, job[t]) \/ t = Applier
  BY <1>1 DEF Fills
<1>3. CASE cap = 0
  <2>1. ~(cap > 0)
    BY <1>3, SMT
  <2> QED
    BY <1>1, <1>2, <1>3, <2>1, TrimEndsStep DEF LoadMax
<1>4. CASE cap # 0
  <2> DEFINE j == [job[t] EXCEPT !.at = "trim", !.limit = cap]
  <2>1. /\ j \in JobRec /\ j.at = "trim" /\ j.limit = cap /\ j.key = job[t].key
        /\ j.entry = job[t].entry
    BY <1>1, JobOf DEF JobRec, Ats
  <2>2. job' = [job EXCEPT ![t] = j]
    BY <1>4 DEF LoadMax
  <2> HIDE DEF j
  <2>3. LooksUp(j) /\ Carries(t, j) /\ Scans(j)
    BY <1>1, <2>1, JobOf DEF LooksUp, Carries, Fills, Scans
  <2>4. j.limit <= cap
    BY <1>1, <2>1, SMT
  <2>5. MustTrim(j, Stored, cap)
    BY <2>1, <2>4 DEF MustTrim
  <2> QED
    BY <1>1, <2>1, <2>2, <2>3, <2>5, QuietStep
<1> QED
  BY <1>3, <1>4

LEMMA TrimStep ==
    ASSUME MemInv, NEW t \in Threads, Trim(t)
    PROVE  MemInv'
<1>1. /\ job[t].at = "trim" /\ UNCHANGED <<clock, mem, live, cap, lock, cursor, opts, hit>>
      /\ cursor' \in Nat /\ cap \in Nat /\ job[t].limit \in Nat /\ live \in Nat
  BY JobOf, FS_CardinalityType DEF Trim, MemInv, MemOK, Counted
<1>2. Fills(t, job[t]) \/ t = Applier
  BY <1>1 DEF Fills
<1>3. CASE ~(live > job[t].limit)
  <2>1. MustTrim(job[t], Stored, cap) => job[t].limit <= cap
    BY <1>1 DEF MustTrim
  <2>2. ~(MustTrim(job[t], Stored, cap) /\ cap > 0 /\ live > cap)
    BY <1>1, <1>3, <2>1, SMT
  <2> QED
    BY <1>1, <1>2, <1>3, <2>2, TrimEndsStep DEF Trim
<1>4. CASE live > job[t].limit
  <2> DEFINE j == [job[t] EXCEPT !.at = "evict", !.then = "trim", !.visit = ScanAll]
  <2>0. ScanAll \in Visits
    BY ShardTypes DEF Visits
  <2>1. /\ j \in JobRec /\ j.at = "evict" /\ j.limit = job[t].limit /\ j.key = job[t].key
        /\ j.entry = job[t].entry /\ j.then = "trim" /\ j.visit = ScanAll
    BY <1>1, <2>0, JobOf DEF JobRec, Ats
  <2>2. job' = [job EXCEPT ![t] = j]
    BY <1>4 DEF Trim
  <2> HIDE DEF j
  <2>3. LooksUp(j) /\ Carries(t, j) /\ Scans(j)
    BY <1>1, <2>1, JobOf, ShardTypes DEF LooksUp, Carries, Fills, Scans
  <2>4. \A k \in Stored : \E i \in 1 .. Len(j.visit) : j.visit[i] = ShardIndex(k)
    BY <2>1, ShardTypes DEF Stored
  <2>5. MustTrim(job[t], Stored, cap) => job[t].limit <= cap
    BY <1>1 DEF MustTrim
  <2>6. MustTrim(job[t], Stored, cap) => MustTrim(j, Stored, cap)
    BY <2>1, <2>4, <2>5 DEF MustTrim
  <2> QED
    BY <1>1, <2>1, <2>2, <2>3, <2>6, QuietStep
<1> QED
  BY <1>3, <1>4


LEMMA EvictVisitStep ==
    ASSUME MemInv, NEW t \in Threads, EvictVisit(t)
    PROVE  MemInv'
<1> DEFINE v == job[t].visit
           s == Head(v)
           after == [job[t] EXCEPT !.at = job[t].then, !.visit = << >>]
<1>1. /\ job[t].at = "evict" /\ UNCHANGED <<clock, cap, lock, cursor, opts, hit>>
      /\ cursor' \in Nat /\ cap \in Nat /\ cursor \in Nat
  BY DEF EvictVisit, MemInv, MemOK
<1>2. v \in Seq(Shards) /\ v # << >> /\ job[t].then \in {"insert", "trim"}
  BY <1>1, JobOf DEF Scans
<1>3. s \in Shards /\ s = v[1] /\ Len(v) \in Nat
  BY <1>2, SMT
<1>4. Fills(t, job[t]) \/ t = Applier
  BY <1>1 DEF Fills
<1>5. << >> \in Visits
  BY SMT DEF Visits
<1>6. /\ after \in JobRec /\ after.at = job[t].then /\ after.key = job[t].key
      /\ after.entry = job[t].entry /\ after.limit = job[t].limit /\ after.then = job[t].then
  BY <1>2, <1>5, JobOf DEF JobRec
<1>7. LooksUp(after) /\ Scans(after) /\ after.at \notin {"put", "evict"}
  BY <1>2, <1>6 DEF LooksUp, Scans
<1>8. Carries(t, after)
  BY <1>1, <1>2, <1>6, JobOf DEF Carries, Fills
<1>9. MustTrim(job[t], Stored, cap) => after.at = "trim" /\ after.limit <= cap
  BY <1>1, <1>6 DEF MustTrim
<1>10. ASSUME NEW T PROVE MustTrim(job[t], Stored, cap) => MustTrim(after, T, cap)
  BY <1>9 DEF MustTrim
<1> HIDE DEF after
<1>11. ASSUME NEW x \in Victims(s, job[t].now), mem' = Without({x}), live' = live - 1,
              job' = [job EXCEPT ![t] = after]
       PROVE  MemInv'
  <2>1. x \in Stored
    BY <1>11 DEF Victims, Stale, Present, In, Stored
  <2>2. Shrinks(t, after)
    BY <1>1, <1>6, <1>7, <1>8, <1>11, <2>1, RemovesOne DEF Shrinks, MemInv
  <2>3. LocksWell(t, after)
    BY <1>1, <1>7, SameLocks
  <2>4. HitAnswersTheQuestion'
    BY <1>1 DEF MemInv, HitAnswersTheQuestion
  <2> QED
    BY <1>10, <2>2, <2>3, <2>4, ShrinkStep DEF MemInv
<1>12. ASSUME Present(s) = {}, NEW k \in Stored, NEW i \in 1 .. Len(v), v[i] = ShardIndex(k)
       PROVE  i # 1
  BY <1>3, <1>12 DEF Present, In, Stored
<1>13. CASE /\ Present(s) = {} /\ Len(v) > 1 /\ job' = [job EXCEPT ![t].visit = Tail(@)]
            /\ UNCHANGED <<mem, live>>
  <2> DEFINE j == [job[t] EXCEPT !.visit = Tail(v)]
  <2>1. /\ Tail(v) \in Seq(Shards) /\ Tail(v) # << >> /\ Len(Tail(v)) = Len(v) - 1
        /\ \A i \in 1 .. Len(v) : i # 1 => i - 1 \in 1 .. Len(Tail(v)) /\ Tail(v)[i - 1] = v[i]
    <3> HIDE DEF v
    <3>1. Tail(v) \in Seq(Shards) /\ Len(Tail(v)) = Len(v) - 1
      BY <1>2, <1>3, <1>13, SMT
    <3>2. Tail(v) # << >>
      BY <1>3, <1>13, <3>1, SMT
    <3>3. \A n \in 1 .. Len(Tail(v)) : Tail(v)[n] = v[n + 1]
      BY <1>2, <1>3, <1>13, <3>1, SMT
    <3>4. \A i \in 1 .. Len(v) : i # 1 => i - 1 \in 1 .. Len(Tail(v)) /\ (i - 1) + 1 = i
      BY <1>3, <3>1, SMT
    <3> QED
      BY <3>1, <3>2, <3>3, <3>4
  <2>2. Tail(v) \in Visits
    BY <2>1 DEF Visits
  <2>3. /\ j \in JobRec /\ j.at = "evict" /\ j.key = job[t].key /\ j.entry = job[t].entry
        /\ j.limit = job[t].limit /\ j.then = job[t].then /\ j.visit = Tail(v)
    BY <1>1, <2>2, JobOf DEF JobRec
  <2>4. job' = [job EXCEPT ![t] = j]
    BY <1>13
  <2> HIDE DEF j
  <2>5. LooksUp(j) /\ Carries(t, j) /\ Scans(j)
    BY <1>1, <1>2, <2>1, <2>3, JobOf DEF LooksUp, Carries, Fills, Scans
  <2>6. ASSUME MustTrim(job[t], Stored, cap) PROVE MustTrim(j, Stored, cap)
    <3>1. /\ job[t].then = "trim" /\ job[t].limit <= cap
          /\ \A k \in Stored : \E i \in 1 .. Len(v) : v[i] = ShardIndex(k)
      BY <1>1, <2>6 DEF MustTrim
    <3>2. ASSUME NEW k \in Stored PROVE \E i \in 1 .. Len(j.visit) : j.visit[i] = ShardIndex(k)
      <4>1. PICK i \in 1 .. Len(v) : v[i] = ShardIndex(k)
        BY <3>1
      <4>2. i # 1
        BY <1>12, <1>13, <4>1
      <4> QED
        BY <2>1, <2>3, <4>1, <4>2
    <3> QED
      BY <2>3, <3>1, <3>2 DEF MustTrim
  <2>7. j.at # "put"
    BY <2>3
  <2> QED
    BY <1>1, <1>13, <2>3, <2>4, <2>5, <2>6, <2>7, QuietStep
<1>14. CASE /\ Present(s) = {} /\ Len(v) = 1 /\ job[t].then = "trim" /\ TrimEnds(t)
            /\ UNCHANGED <<mem, live>>
  <2>1. ASSUME MustTrim(job[t], Stored, cap), cap > 0, live > cap PROVE FALSE
    <3>1. \A k \in Stored : \E i \in 1 .. Len(v) : v[i] = ShardIndex(k)
      BY <1>1, <2>1 DEF MustTrim
    <3>2. \A i \in 1 .. Len(v) : i = 1
      BY <1>14, SMT
    <3>3. Stored = {}
      BY <1>12, <1>14, <3>1, <3>2
    <3>4. live = 0
      BY <3>3, FS_EmptySet DEF MemInv, Counted
    <3> QED
      BY <1>1, <2>1, <3>4, SMT
  <2> QED
    BY <1>1, <1>4, <1>14, <2>1, TrimEndsStep
<1>15. CASE UNCHANGED <<mem, live>> /\ job' = [job EXCEPT ![t] = after]
  <2>1. after.at # "put"
    BY <1>7
  <2> QED
    BY <1>1, <1>6, <1>7, <1>8, <1>10, <1>15, <2>1, QuietStep
<1>16. ASSUME job' = [job EXCEPT ![t].at = job[t].then, ![t].visit = << >>]
       PROVE  job' = [job EXCEPT ![t] = after]
  BY <1>16 DEF after
<1> QED
  BY <1>11, <1>13, <1>14, <1>15, <1>16 DEF EvictVisit

LEMMA SetMaxEntriesStep ==
    ASSUME MemInv, NEW c \in Caps, SetMaxEntries(c)
    PROVE  MemInv'
<1> DEFINE j == [Idle EXCEPT !.at = "setmax", !.now = clock]
<1>1. /\ job[Applier].at = "idle" /\ cap' = c /\ UNCHANGED <<clock, mem, live, lock, cursor, opts>>
      /\ hit' = NoHit /\ Applier \in Threads /\ c \in Nat /\ cap \in Nat /\ clock \in Nat /\ live \in Nat
  BY MemoryCacheAssumption, FS_CardinalityType
  DEF SetMaxEntries, Call, MemInv, MemOK, Threads, Counted
<1>2. Counted' /\ Stored' = Stored
  BY <1>1 DEF MemInv, Counted, Stored
<1>3. HitAnswersTheQuestion'
  BY <1>1 DEF HitAnswersTheQuestion
<1>4. j \in JobRec /\ j.at = "setmax"
  BY <1>1, IdleJob DEF JobRec, Ats
<1>5. LooksUp(j) /\ Carries(Applier, j) /\ Scans(j)
  BY <1>4 DEF LooksUp, Carries, Fills, Scans
<1> HIDE DEF j
<1>6. CASE c > 0 /\ (cap > c \/ cap = 0)
  <2>1. job' = [job EXCEPT ![Applier] = j]
    BY <1>6 DEF SetMaxEntries, j
  <2>2. \A u \in Threads : job'[u] = IF u = Applier THEN j ELSE job[u]
    BY <2>1 DEF MemInv, MemOK
  <2>3. MemOK'
    BY <1>1, <1>4, <2>1 DEF MemInv, MemOK
  <2>4. JobsOK'
    <3>1. \A x : (LooksUp(x)' <=> LooksUp(x)) /\ (Scans(x)' <=> Scans(x))
      BY DEF LooksUp, Scans
    <3>2. \A u, x : Carries(u, x)' <=> Carries(u, x)
      BY DEF Carries, Fills
    <3> QED
      BY <1>5, <2>2, <3>1, <3>2 DEF MemInv, JobsOK
  <2>5. PutsAreFree'
    BY <1>1, <1>4, <2>2 DEF MemInv, PutsAreFree
  <2>6. OvershootIsTrimmed'
    <3>1. MustTrim(job'[Applier], Stored', cap')
      BY <1>1, <1>4, <2>2 DEF MustTrim
    <3> QED
      BY <1>1, <3>1 DEF OvershootIsTrimmed
  <2> QED
    BY <1>2, <1>3, <2>3, <2>4, <2>5, <2>6 DEF MemInv
<1>7. CASE ~(c > 0 /\ (cap > c \/ cap = 0))
  <2>1. job' = job
    BY <1>7 DEF SetMaxEntries
  <2>2. MemOK'
    BY <1>1, <2>1 DEF MemInv, MemOK
  <2>3. JobsOK'
    BY <2>1 DEF MemInv, JobsOK, LooksUp, Carries, Fills, Scans
  <2>4. PutsAreFree'
    BY <1>1, <2>1 DEF MemInv, PutsAreFree
  <2>5. ASSUME c > 0, live > c PROVE \E u \in Threads : MustTrim(job[u], Stored, c)
    <3>1. cap > 0 /\ cap <= c /\ live > cap
      BY <1>1, <1>7, <2>5, SMT
    <3>2. PICK u \in Threads : MustTrim(job[u], Stored, cap)
      BY <3>1 DEF MemInv, OvershootIsTrimmed
    <3>3. job[u].limit \in Nat
      BY JobOf
    <3>4. job[u].limit <= cap => job[u].limit <= c
      BY <1>1, <3>1, <3>3, SMT
    <3> QED
      BY <3>2, <3>4 DEF MustTrim
  <2>6. OvershootIsTrimmed'
    BY <1>1, <1>2, <2>1, <2>5 DEF OvershootIsTrimmed
  <2> QED
    BY <1>2, <1>3, <2>2, <2>3, <2>4, <2>6 DEF MemInv
<1> QED
  BY <1>6, <1>7

LEMMA SetMaxTestStep ==
    ASSUME MemInv, SetMaxTest
    PROVE  MemInv'
<1> DEFINE j == [job[Applier] EXCEPT !.at = "loadmax"]
<1>1. /\ job[Applier].at = "setmax" /\ UNCHANGED <<clock, mem, live, cap, lock, cursor, opts, hit>>
      /\ Applier \in Threads /\ cursor' \in Nat
  BY DEF SetMaxTest, Threads, MemInv, MemOK
<1>2. CASE live > cap
  <2>1. j \in JobRec /\ j.at = "loadmax"
    BY <1>1, JobMoves DEF Ats
  <2>2. job' = [job EXCEPT ![Applier] = j]
    BY <1>2 DEF SetMaxTest, Do
  <2> HIDE DEF j
  <2>3. LooksUp(j) /\ Carries(Applier, j) /\ Scans(j) /\ MustTrim(j, Stored, cap) /\ j.at # "put"
    BY <2>1 DEF LooksUp, Carries, Fills, Scans, MustTrim
  <2> QED
    BY <1>1, <2>1, <2>2, <2>3, QuietStep
<1>3. CASE ~(live > cap)
  BY <1>1, <1>3, IdleJob, QuietStep DEF SetMaxTest, Done
<1> QED
  BY <1>2, <1>3

-----------------------------------------------------------------------------
(* The truncated sibling, the reaper, the clock                            *)

LEMMA RemoveSiblingStep ==
    ASSUME MemInv, NEW t \in Fillers, RemoveSibling(t)
    PROVE  MemInv'
<1> DEFINE k == TruncatedKey(job[t].key[1])
<1>1. /\ t \in Threads /\ job[t].at = "sibling" /\ UNCHANGED <<clock, cap, lock, cursor, opts, hit>>
      /\ job' = [job EXCEPT ![t] = Idle] /\ cursor' \in Nat
  BY DEF RemoveSibling, Threads, Done, MemInv, MemOK
<1>2. ~MustTrim(job[t], Stored, cap)
  BY <1>1 DEF MustTrim
<1>3. CASE UNCHANGED <<mem, live>>
  BY <1>1, <1>2, <1>3, IdleJob, QuietStep
<1>4. CASE mem[k] # Absent /\ mem' = Without({k}) /\ live' = live - 1
  <2>1. job[t].key \in Keys
    BY <1>1, JobOf DEF Carries, Fills
  <2>2. job[t].key[1] \in Questions
    BY <2>1 DEF Keys
  <2>3. k \in Stored
    BY <1>4, <2>2, KeyTypes DEF Stored
  <2>4. Shrinks(t, Idle)
    BY <1>1, <1>4, <2>3, IdleJob, RemovesOne DEF Shrinks, MemInv
  <2>5. HitAnswersTheQuestion'
    BY <1>1 DEF MemInv, HitAnswersTheQuestion
  <2> QED
    BY <1>1, <1>2, <2>4, <2>5, IdleJob, SameLocks, ShrinkStep DEF MemInv
<1> QED
  BY <1>3, <1>4 DEF RemoveSibling

LEMMA BeginReapStep ==
    ASSUME MemInv, BeginReap
    PROVE  MemInv'
<1> DEFINE v == [i \in 1 .. MemShards |-> (cursor + i - 1) % MemShards]
           j == [Idle EXCEPT !.at = "reap", !.now = clock, !.visit = v]
<1>1. /\ job[Reaper].at = "idle" /\ UNCHANGED <<clock, mem, live, cap, lock, cursor, opts>>
      /\ hit' = NoHit /\ Reaper \in Threads /\ cursor \in Nat /\ cursor' \in Nat /\ clock \in Nat
      /\ MemShards \in Nat \ {0}
  BY MemoryCacheAssumption DEF BeginReap, Call, Threads, MemInv, MemOK
<1>2. v \in Seq(Shards) /\ v # << >>
  <2>1. \A n \in Nat : n % MemShards \in 0 .. MemShards - 1
    BY <1>1, SMT
  <2>2. \A i \in 1 .. MemShards : cursor + i - 1 \in Nat
    BY <1>1, SMT
  <2>3. \A i \in 1 .. MemShards : (cursor + i - 1) % MemShards \in Shards
    BY <2>1, <2>2 DEF Shards
  <2> QED
    BY <1>1, <2>3, SMT
<1>3. job' = [job EXCEPT ![Reaper] = j]
  BY DEF BeginReap
<1> HIDE DEF v
<1>4. v \in Visits
  BY <1>2 DEF Visits
<1>5. j \in JobRec /\ j.at = "reap" /\ j.visit = v
  BY <1>1, <1>4, IdleJob DEF JobRec, Ats
<1> HIDE DEF j
<1>6. LooksUp(j) /\ Carries(Reaper, j) /\ Scans(j)
  BY <1>2, <1>5 DEF LooksUp, Carries, Fills, Scans
<1>7. Shrinks(Reaper, j)
  BY <1>1, <1>3, <1>5, <1>6, NothingStored DEF Shrinks
<1>8. ~MustTrim(job[Reaper], Stored, cap)
  BY <1>1 DEF MustTrim
<1> QED
  BY <1>1, <1>5, <1>7, <1>8, SameLocks, ShrinkStep DEF MemInv, HitAnswersTheQuestion

\* The shard a visit comes to next, and the one after it.
LEMMA HeadOfVisit ==
    ASSUME NEW v \in Seq(Shards), v # << >>, MemShards \in Nat \ {0}
    PROVE  Head(v) \in Shards /\ Head(v) \in Nat /\ (Head(v) + 1) % MemShards \in Nat /\ Len(v) \in Nat
<1>1. Head(v) \in Shards /\ Len(v) \in Nat
  BY SMT
<1>2. \A n \in Shards : n \in Nat /\ (n + 1) % MemShards \in Nat
  BY SMT DEF Shards
<1> QED
  BY <1>1, <1>2

LEMMA ReapShardStep ==
    ASSUME MemInv, ReapShard
    PROVE  MemInv'
<1> DEFINE v == job[Reaper].visit
           s == Head(v)
<1>1. /\ job[Reaper].at = "reap" /\ UNCHANGED <<clock, cap, lock, opts, hit>> /\ Reaper \in Threads
      /\ MemShards \in Nat \ {0}
  BY MemoryCacheAssumption DEF ReapShard, Threads
<1>2. v \in Seq(Shards) /\ v # << >>
  BY <1>1, JobOf DEF Scans
<1>3. s \in Shards /\ s \in Nat /\ (s + 1) % MemShards \in Nat /\ Len(v) \in Nat
  BY <1>1, <1>2, HeadOfVisit
<1>4. PICK gone \in SUBSET Stale(s, job[Reaper].now) :
          /\ mem' = Without(gone) /\ live' = live - Cardinality(gone)
          /\ \/ cursor' = s /\ Done(Reaper)
             \/ /\ cursor' = (s + 1) % MemShards
                /\ IF Len(v) = 1 THEN Done(Reaper)
                   ELSE job' = [job EXCEPT ![Reaper].visit = Tail(@)]
  BY DEF ReapShard
<1>5. gone \in SUBSET Stored /\ cursor' \in Nat
  BY <1>3, <1>4 DEF Stale, Present, In, Stored
<1>6. ~MustTrim(job[Reaper], Stored, cap)
  BY <1>1 DEF MustTrim
<1>7. HitAnswersTheQuestion'
  BY <1>1 DEF MemInv, HitAnswersTheQuestion
<1>8. ASSUME NEW j, job' = [job EXCEPT ![Reaper] = j], j \in JobRec, j.at # "put",
             LooksUp(j), Carries(Reaper, j), Scans(j)
      PROVE  MemInv'
  <2>1. Shrinks(Reaper, j)
    BY <1>1, <1>4, <1>5, <1>8, Removes DEF Shrinks, MemInv
  <2> QED
    BY <1>1, <1>6, <1>7, <1>8, <2>1, SameLocks, ShrinkStep DEF MemInv
<1>9. CASE Done(Reaper)
  BY <1>8, <1>9, IdleJob DEF Done
<1>10. CASE Len(v) # 1 /\ job' = [job EXCEPT ![Reaper].visit = Tail(@)]
  <2> DEFINE j == [job[Reaper] EXCEPT !.visit = Tail(v)]
  <2>1. Tail(v) \in Seq(Shards) /\ Tail(v) # << >>
    <3> HIDE DEF v
    <3>1. Len(v) # 0
      BY <1>2, SMT
    <3>2. Tail(v) \in Seq(Shards) /\ Len(Tail(v)) = Len(v) - 1
      BY <1>2, SMT
    <3>3. Len(v) \in Nat /\ Len(v) # 1
      BY <1>3, <1>10
    <3> QED
      BY <3>1, <3>2, <3>3, SMT
  <2>2. Tail(v) \in Visits
    BY <2>1 DEF Visits
  <2>3. j \in JobRec /\ j.at = "reap" /\ j.visit = Tail(v)
    BY <1>1, <2>2, JobOf DEF JobRec
  <2>4. job' = [job EXCEPT ![Reaper] = j]
    BY <1>10
  <2> HIDE DEF j
  <2>5. LooksUp(j) /\ Carries(Reaper, j) /\ Scans(j) /\ j.at # "put"
    BY <2>1, <2>3 DEF LooksUp, Carries, Fills, Scans
  <2> QED
    BY <1>8, <2>3, <2>4, <2>5
<1> QED
  BY <1>4, <1>9, <1>10

LEMMA TickStep ==
    ASSUME MemInv, Tick
    PROVE  MemInv'
<1>1. /\ UNCHANGED <<mem, live, cap, lock, job, cursor, opts>> /\ hit' = NoHit /\ clock' = clock + 1
      /\ clock \in Nat
  BY DEF Tick, Call, MemInv, MemOK
<1>2. clock' \in Nat
  BY <1>1, SMT
<1> QED
  BY <1>1, <1>2, SameEntries DEF MemInv, HitAnswersTheQuestion

-----------------------------------------------------------------------------
LEMMA MemNextStep ==
    ASSUME MemInv, MemNext
    PROVE  MemInv'
<1>1. ASSUME NEW t \in Threads, MemStep(t) PROVE MemInv'
  BY <1>1, InsertCheckStep, InsertPutStep, LoadMaxStep, TrimStep, EvictVisitStep, ReadExactStep,
     ReadAncestorStep, ReadTruncatedStep, RemoveSiblingStep, SetMaxTestStep, ReapShardStep
  DEF MemStep
<1>2. ASSUME NEW t \in Fillers, NEW q \in Questions, NEW a \in Answers[q], BeginInsert(t, q, a, a.tc)
      PROVE  MemInv'
  <2>1. a.tc \in BOOLEAN
    <3>1. a \in [rcode : Nat, answers : Nat, ttls : SUBSET Nat, tc : BOOLEAN]
      BY CacheEntriesAssumption
    <3> QED
      BY <3>1
  <2> QED
    BY <1>2, <2>1, BeginInsertStep
<1> QED
  BY <1>1, <1>2, BeginLookupStep, SetMaxEntriesStep, BeginReapStep, TickStep DEF MemNext

LEMMA MemInitially == Init => MemInv
<1> SUFFICES ASSUME Init PROVE MemInv
  OBVIOUS
<1>1. /\ clock = 0 /\ mem = [k \in Keys |-> Absent] /\ live = 0 /\ cursor = 0 /\ hit = NoHit
      /\ lock = [s \in Shards |-> "none"] /\ job = [t \in Threads |-> Idle]
  BY DEF Init, MemInit
<1>2. cap \in Nat /\ opts \in MemOpts
  BY MemoryCacheAssumption, 0 \in Nat DEF Init
<1>3. MemOK
  BY <1>1, <1>2, IdleJob, AbsentType, 0 \in Nat DEF MemOK
<1>4. Stored = {}
  BY <1>1 DEF Stored
<1>5. Counted
  BY <1>1, <1>4, FS_EmptySet DEF Counted
<1>6. JobsOK /\ PutsAreFree
  BY <1>1, IdleJob DEF JobsOK, PutsAreFree
<1>7. ~(cap > 0 /\ live > cap)
  BY <1>1, <1>2, SMT
<1> QED
  BY <1>1, <1>3, <1>5, <1>6, <1>7 DEF MemInv, OvershootIsTrimmed, HitAnswersTheQuestion

\* The inductive invariant of the memory backend.
THEOREM MemoryInductive == Spec => []MemInv
<1>1. Init => MemInv
  BY MemInitially
<1>2. MemInv /\ [Next]_vars => MemInv'
  <2> SUFFICES ASSUME MemInv, [Next]_vars PROVE MemInv'
    OBVIOUS
  <2>1. CASE MemNext
    BY <2>1, MemNextStep
  <2>2. CASE UNCHANGED memVars
    BY <2>2, SameEntries DEF memVars, MemInv, MemOK, HitAnswersTheQuestion
  <2> QED
    BY <2>1, <2>2 DEF Next, vars
<1> QED
  BY <1>1, <1>2, PTL DEF Spec

\* live_entries is the number of entries whatever inserts, evictions, removals,
\* reaping and cap changes do in different shards at the same time, for every
\* number of threads, shards and keys, and with no call in progress the cache is
\* within max_entries.
THEOREM EntriesStayCounted == Spec => []EntriesAreCounted
<1>1. MemInv => EntriesAreCounted
  <2> SUFFICES ASSUME MemInv PROVE EntriesAreCounted
    OBVIOUS
  <2>1. live = Cardinality({k \in Keys : mem[k] # Absent}) /\ live \in Nat /\ cap \in Nat
    BY FS_CardinalityType DEF MemInv, Counted, Stored, MemOK
  <2>2. ASSUME cap > 0, \A t \in Threads : job[t].at = "idle" PROVE live <= cap
    <3>1. ~(live > cap)
      BY <2>2 DEF MemInv, OvershootIsTrimmed, MustTrim
    <3> QED
      BY <2>1, <3>1, SMT
  <2> QED
    BY <2>1, <2>2 DEF EntriesAreCounted
<1> QED
  BY <1>1, MemoryInductive, PTL

\* What a lookup of the memory backend serves is its question's entry, or an
\* NXDOMAIN of an ancestor, truncated for UDP clients only, and was fresh when
\* the lookup began: for every TTL, question and interleaving of threads.
THEOREM HitsAnswerTheQuestion == Spec => []HitAnswersTheQuestion
<1>1. MemInv => HitAnswersTheQuestion
  BY DEF MemInv
<1> QED
  BY <1>1, MemoryInductive, PTL
=============================================================================
