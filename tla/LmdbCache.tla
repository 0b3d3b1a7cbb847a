----------------------------- MODULE LmdbCache ------------------------------
(***************************************************************************)
(* The LMDB cache backend (lookup/cache/lmdb.rs) and the part of the cache *)
(* registry that opens, reconfigures and replaces it (registry.rs).        *)
(*                                                                         *)
(* On disk there are three directory names: the configured path and its    *)
(* two siblings, the staging directory of a warm shard_count change and    *)
(* the abandoned layout it leaves.  A directory holds one environment per  *)
(* shard, or one unsharded (legacy) environment, and a sidecar file with   *)
(* the number of shards.  Renaming and unlinking change names only: an     *)
(* open backend keeps the directory it opened.                             *)
(*                                                                         *)
(* A write transaction is a begin and a commit, since the map of an        *)
(* environment may be resized between the two.  A crash loses the process  *)
(* at any point; what was committed stays, the names stay.                 *)
(***************************************************************************)
EXTENDS CacheEntries

CONSTANTS LmdbKeys,     \* the keys that are filled
          MaxN,         \* largest shard count
          Dirs,         \* directory identities
          Configs,      \* names of configurations
          Setting       \* what each configuration says

ASSUME LmdbCacheAssumption ==
    /\ MaxN \in Nat \ {0} /\ LmdbKeys \subseteq Keys /\ Hash \in [Keys -> Nat]
    /\ LmdbKeys # {} /\ Dirs # {} /\ "none" \notin Dirs \cup Configs
    /\ Setting \in [Configs -> [n : 0 .. MaxN,          \* shard_count, 0 when omitted
                                max : Nat,              \* max_entries, 0 is no limit
                                full : {"refuse", "evict_one", "sample"},
                                sync : {"full", "periodic", "none"},
                                size : Nat]]            \* map_size

VARIABLES name,         \* directory of each of the three names
          dir,          \* contents of the directories
          obj,          \* the open backend of a directory
          cur,          \* the directory of the backend in service
          snap,         \* installed configuration
          rebuilding,
          ap,           \* the thread that opens and applies
          wr,           \* the threads that fill
          unsynced,     \* history: committed since the last force_sync began
          torn          \* history: a crash hit an open that works in place

lmdbVars == <<name, dir, obj, cur, snap, rebuilding, ap, wr, unsynced, torn>>

None == "none"
Names == {"path", "staging", "abandoned"}
Legacy == MaxN                        \* slot of the unsharded environment
Slots == 0 .. MaxN
NoFile == [here |-> FALSE, keys |-> {}, count |-> 0]
EmptyFile == [NoFile EXCEPT !.here = TRUE]
NoDir == [side |-> 0, file |-> [s \in Slots |-> NoFile]]
Closed == [open |-> FALSE, n |-> 0, legacy |-> FALSE, caps |-> [s \in Slots |-> 0],
           full |-> "refuse", sync |-> "full", size |-> 0, dirty |-> [s \in Slots |-> FALSE],
           flusher |-> "none", i |-> 0, ending |-> FALSE]
NoJob == [at |-> "idle", d |-> None, key |-> None, cap |-> 0, full |-> "refuse",
          replacing |-> FALSE, retry |-> TRUE, victim |-> None, next |-> "idle"]
NoApply == [at |-> "idle", cfg |-> None, d |-> None, where |-> "path", n |-> 0, i |-> 0]

Cfg == Setting[ap.cfg]

-----------------------------------------------------------------------------
(***************************************************************************)
(* Layout arithmetic                                                       *)
(***************************************************************************)
\* per_shard_max_entries: shares of the cap, larger ones first
ShardCaps(max, n) ==
    [s \in Slots |-> IF max = 0 \/ s >= n THEN 0
                     ELSE (max \div n) + (IF s < max % n THEN 1 ELSE 0)]

\* the slot of a backend's i-th environment, and the one a key lives in
Slot(o, i) == IF o.legacy THEN Legacy ELSE i
ShardForKey(o, k) == Slot(o, Hash[k] % o.n)

\* Mutant: shard files without a sidecar are taken for an empty directory.
Detect_IgnoresOrphans(d) ==
    LET have == {s \in Slots : dir[d].file[s] # NoFile}
    IN  IF dir[d].side > 0
          THEN IF \A s \in 0 .. dir[d].side - 1 : s \in have THEN "sharded" ELSE "error"
        ELSE IF Legacy \in have THEN "legacy" ELSE "empty"

\* detect_on_disk_layout: a shard file missing, or left without a sidecar,
\* fails closed
Detect(d) ==
    LET have == {s \in Slots : dir[d].file[s] # NoFile}
    IN  IF dir[d].side > 0
          THEN IF \A s \in 0 .. dir[d].side - 1 : s \in have THEN "sharded" ELSE "error"
        ELSE IF Legacy \in have THEN "legacy"
        ELSE IF have # {} THEN "error" ELSE "empty"

OnDiskCount(d) == IF Detect(d) = "legacy" THEN 1 ELSE dir[d].side

\* explicit_requires_abandon
RequiresAbandon(d, n) == n # 0 /\ Detect(d) # "empty" /\ OnDiskCount(d) # n

\* resolve_effective_shard_count; an empty path gets the maximum (2x threads)
EffectiveCount(d, n) == IF n # 0 THEN n ELSE IF Detect(d) = "empty" THEN MaxN ELSE OnDiskCount(d)

\* a directory nobody names or has open
FreshDir(d) == /\ \A x \in Names : name[x] # d
               /\ ~obj[d].open /\ ap.d # d /\ \A t \in Fillers : wr[t].d # d

-----------------------------------------------------------------------------
(***************************************************************************)
(* Opening: open, open_at, open_for_shard_reopen                           *)
(***************************************************************************)
\* the process starts and opens the configured path
Start(c) ==
    /\ ap.at = "idle" /\ cur = None
    /\ ap' = [NoApply EXCEPT !.at = "mkdir", !.cfg = c]
    /\ UNCHANGED <<name, dir, obj, cur, snap, rebuilding, wr, unsynced, torn, events>>

\* create_dir_all; new directories are alike
MakeDir ==
    /\ ap.at = "mkdir"
    /\ IF name[ap.where] = None
         THEN \E d \in Dirs :
                  /\ FreshDir(d) /\ d = CHOOSE x \in Dirs : FreshDir(x)
                  /\ name' = [name EXCEPT ![ap.where] = d]
                  /\ dir' = [dir EXCEPT ![d] = NoDir]
                  /\ ap' = [ap EXCEPT !.at = "clean", !.d = d]
         ELSE /\ ap' = [ap EXCEPT !.at = "clean", !.d = name[ap.where]]
              /\ UNCHANGED <<name, dir>>
    /\ UNCHANGED <<obj, cur, snap, rebuilding, wr, unsynced, torn, events>>

\* remove_stale_reopen_staging: leftovers beside the configured path
CleanSiblings ==
    /\ ap.at = "clean"
    /\ name' = IF ap.where = "path"
                 THEN [name EXCEPT !["staging"] = None, !["abandoned"] = None] ELSE name
    /\ ap' = [ap EXCEPT !.at = "detect"]
    /\ UNCHANGED <<dir, obj, cur, snap, rebuilding, wr, unsynced, torn, events>>

\* an error of open_at: at start the process gives up, an apply is rejected
OpenFails(why) ==
    ap' = IF ap.where = "path" THEN [NoApply EXCEPT !.at = why] ELSE NoApply

DetectLayout ==
    /\ ap.at = "detect"
    /\ IF Detect(ap.d) = "error" THEN OpenFails("failed")
       ELSE ap' = [ap EXCEPT !.at = IF RequiresAbandon(ap.d, Cfg.n) THEN "abandon" ELSE "create",
                             !.n = EffectiveCount(ap.d, Cfg.n),
                             !.i = IF Detect(ap.d) = "legacy" /\ ~RequiresAbandon(ap.d, Cfg.n)
                                     THEN Legacy ELSE 0]
    /\ UNCHANGED <<name, dir, obj, cur, snap, rebuilding, wr, unsynced, torn, events>>

\* remove_owned_layout_files: the sidecar first, then the files in any order
AbandonStep ==
    /\ ap.at = "abandon"
    /\ \/ /\ dir[ap.d].side # 0
          /\ dir' = [dir EXCEPT ![ap.d].side = 0] /\ UNCHANGED ap
       \/ /\ dir[ap.d].side = 0
          /\ \E s \in Slots : /\ dir[ap.d].file[s] # NoFile
                              /\ dir' = [dir EXCEPT ![ap.d].file[s] = NoFile]
          /\ UNCHANGED ap
       \/ /\ dir[ap.d] = NoDir
          /\ ap' = [ap EXCEPT !.at = "create"] /\ UNCHANGED dir
    /\ UNCHANGED <<name, obj, cur, snap, rebuilding, wr, unsynced, torn, events>>

\* open_directory_env or open_nosubdir_env, then finish_open_env: an environment
\* that does not exist is created empty
OpenShard ==
    /\ ap.at = "create"
    /\ dir' = [dir EXCEPT ![ap.d].file[ap.i] = IF @ = NoFile THEN EmptyFile ELSE @]
    /\ ap' = IF ap.i = Legacy THEN [ap EXCEPT !.at = "opened"]
             ELSE IF ap.i < ap.n - 1 THEN [ap EXCEPT !.i = @ + 1]
             ELSE [ap EXCEPT !.at = "sidecar", !.i = 0]
    /\ UNCHANGED <<name, obj, cur, snap, rebuilding, wr, unsynced, torn, events>>

\* write_sidecar: a temporary file renamed into place
WriteSidecar ==
    /\ ap.at = "sidecar"
    /\ dir' = [dir EXCEPT ![ap.d].side = ap.n]
    /\ ap' = [ap EXCEPT !.at = "opened"]
    /\ UNCHANGED <<name, obj, cur, snap, rebuilding, wr, unsynced, torn, events>>

\* the backend value of open_at; with sync=periodic the flusher thread starts
Opened ==
    LET o == [Closed EXCEPT !.open = TRUE, !.n = ap.n, !.legacy = ap.i = Legacy,
                !.caps = ShardCaps(Cfg.max, ap.n), !.full = Cfg.full, !.sync = Cfg.sync,
                !.size = Cfg.size, !.flusher = IF Cfg.sync = "periodic" THEN "wait" ELSE "none"]
    IN  [o EXCEPT !.caps = IF o.legacy THEN [s \in Slots |-> IF s = Legacy THEN Cfg.max ELSE 0]
                           ELSE @]

FinishOpen ==
    /\ ap.at = "opened"
    /\ \/ /\ obj' = [obj EXCEPT ![ap.d] = Opened]
          /\ IF ap.where = "path"
               THEN cur' = ap.d /\ snap' = ap.cfg /\ ap' = NoApply
               ELSE ap' = [ap EXCEPT !.at = "swap"] /\ UNCHANGED <<cur, snap>>
          /\ UNCHANGED events
       \/ /\ Cfg.sync = "periodic" /\ Spend
          /\ OpenFails("nothread")
          /\ UNCHANGED <<obj, cur, snap>>
    /\ UNCHANGED <<name, dir, rebuilding, wr, unsynced, torn>>

-----------------------------------------------------------------------------
(***************************************************************************)
(* Applying a configuration: LookupCacheRegistry::reconcile                *)
(***************************************************************************)
\* lmdb_explicit_shard_reopen_needed
Reopens(c) == Setting[c].n # 0 /\ Setting[c].n # obj[cur].n

\* an explicit shard_count other than the live one reopens in a staging
\* directory, which is cleared first; anything else is applied to the live backend
BeginApply(c) ==
    /\ ap.at = "idle" /\ cur # None /\ SpendN(2)
    /\ IF Reopens(c)
         THEN /\ name' = [name EXCEPT !["staging"] = None]
              /\ ap' = [NoApply EXCEPT !.at = "mkdir", !.cfg = c, !.where = "staging"]
         ELSE /\ ap' = [NoApply EXCEPT !.at = "hot", !.cfg = c]
              /\ UNCHANGED name
    /\ UNCHANGED <<dir, obj, cur, snap, rebuilding, wr, unsynced, torn>>

\* swap_backend: fills that loaded the old backend go on with it
Swap ==
    /\ ap.at = "swap"
    /\ cur' = ap.d /\ snap' = ap.cfg
    /\ name' = [name EXCEPT !["abandoned"] = None]
    /\ ap' = [ap EXCEPT !.at = "aside"]
    /\ UNCHANGED <<dir, obj, rebuilding, wr, unsynced, torn, events>>

\* finalize_shard_reopen: two renames and the removal; an error is only logged
MoveAside ==
    /\ ap.at = "aside"
    /\ \/ /\ name' = [name EXCEPT !["abandoned"] = name["path"], !["path"] = None]
          /\ ap' = [ap EXCEPT !.at = "install"] /\ UNCHANGED events
       \/ /\ Spend
          /\ ap' = NoApply /\ UNCHANGED name
    /\ UNCHANGED <<dir, obj, cur, snap, rebuilding, wr, unsynced, torn>>

Install ==
    /\ ap.at = "install"
    /\ \/ /\ name' = [name EXCEPT !["path"] = name["staging"], !["staging"] = None]
          /\ ap' = [ap EXCEPT !.at = "unlink"] /\ UNCHANGED events
       \/ /\ Spend
          /\ ap' = NoApply /\ UNCHANGED name
    /\ UNCHANGED <<dir, obj, cur, snap, rebuilding, wr, unsynced, torn>>

Unlink ==
    /\ ap.at = "unlink"
    /\ name' = [name EXCEPT !["abandoned"] = None]
    /\ ap' = NoApply
    /\ UNCHANGED <<dir, obj, cur, snap, rebuilding, wr, unsynced, torn, events>>

\* the cap, when it differs from the installed configuration's, and the policy
HotPolicy ==
    LET caps == IF Cfg.max = Setting[snap].max THEN obj[cur].caps
                ELSE IF obj[cur].legacy THEN [s \in Slots |-> IF s = Legacy THEN Cfg.max ELSE 0]
                ELSE ShardCaps(Cfg.max, obj[cur].n)
    IN  /\ ap.at = "hot"
        /\ obj' = [obj EXCEPT ![cur].caps = caps, ![cur].full = Cfg.full]
        /\ ap' = [ap EXCEPT !.at = "sync"]
        /\ UNCHANGED <<name, dir, cur, snap, rebuilding, wr, unsynced, torn, events>>

(***************************************************************************)
(* apply_sync_config and reconcile_flusher.  A flusher that cannot be      *)
(* started restores the old mode and rejects the apply, with the cap and   *)
(* the policy already changed.  Leaving periodic stops the flusher and     *)
(* waits for it; then the dirty shards are synced once more.  If the wait  *)
(* times out in the middle of a tick, that last sync is skipped.           *)
(***************************************************************************)
HotSync ==
    /\ ap.at = "sync"
    /\ \/ /\ \/ obj[cur].sync = Cfg.sync /\ UNCHANGED obj
             \/ /\ obj[cur].sync # Cfg.sync /\ obj[cur].sync # "periodic"
                /\ obj' = [obj EXCEPT ![cur].sync = Cfg.sync,
                             ![cur].flusher = IF Cfg.sync = "periodic" THEN "wait" ELSE "none"]
             \/ /\ obj[cur].sync # Cfg.sync /\ obj[cur].flusher \in {"visit", "sync"}
                /\ obj' = [obj EXCEPT ![cur].sync = Cfg.sync, ![cur].ending = TRUE]
          /\ ap' = [ap EXCEPT !.at = "size"] /\ UNCHANGED events
       \/ /\ obj[cur].sync = "periodic" /\ Cfg.sync # "periodic" /\ obj[cur].flusher = "wait"
          /\ obj' = [obj EXCEPT ![cur].sync = Cfg.sync, ![cur].flusher = "visit",
                                ![cur].i = 0, ![cur].ending = TRUE]
          /\ ap' = [ap EXCEPT !.at = "join"] /\ UNCHANGED events
       \/ /\ obj[cur].sync # "periodic" /\ Cfg.sync = "periodic"
          /\ Spend
          /\ ap' = NoApply /\ UNCHANGED obj
    /\ UNCHANGED <<name, dir, cur, snap, rebuilding, wr, unsynced, torn>>

FinalSyncDone ==
    /\ ap.at = "join" /\ obj[cur].flusher = "none"
    /\ ap' = [ap EXCEPT !.at = "size"]
    /\ UNCHANGED <<name, dir, obj, cur, snap, rebuilding, wr, unsynced, torn, events>>

\* grow_map_size goes straight to the resize, shrink_map_size sets rebuilding
HotSize ==
    /\ ap.at = "size"
    /\ ap' = [ap EXCEPT !.at = IF Cfg.size > obj[cur].size THEN "resize"
                               ELSE IF Cfg.size < obj[cur].size THEN "shrink" ELSE "store"]
    /\ rebuilding' = (Cfg.size < obj[cur].size)
    /\ UNCHANGED <<name, dir, obj, cur, snap, wr, unsynced, torn, events>>

\* one thread at a time writes an environment
Writable(d, s) == \A t \in Fillers : ~(wr[t].at = "txn" /\ wr[t].d = d /\
                                       ShardForKey(obj[d], wr[t].key) = s)

Live(d) == {s \in Slots : obj[d].open /\ \E i \in 0 .. obj[d].n - 1 : s = Slot(obj[d], i)}
KeysIn(d, s) == dir[d].file[s].keys
Lost(d) == obj[d].sync # "full"          \* NO_SYNC: a commit is not flushed
Bump(c, up) == IF up THEN c + 1 ELSE IF c = 0 THEN 0 ELSE c - 1

(***************************************************************************)
(* The shrink ladder: evict one entry after another, from the first shard  *)
(* that has one; clear all of them; resize.  How much space is in use is   *)
(* not modelled, so any rung may be the last, and an empty environment may *)
(* still be too large.                                                     *)
(***************************************************************************)
ShrinkEvict ==
    /\ ap.at = "shrink"
    /\ \E s \in Live(cur) :
        /\ KeysIn(cur, s) # {} /\ \A x \in Live(cur) : x < s => KeysIn(cur, x) = {}
        /\ Writable(cur, s)
        /\ \E k \in KeysIn(cur, s) :
             dir' = [dir EXCEPT ![cur].file[s] = [here |-> TRUE, keys |-> @.keys \ {k}, count |-> Bump(@.count, FALSE)]]
        /\ obj' = [obj EXCEPT ![cur].dirty[s] = TRUE]
        /\ unsynced' = [unsynced EXCEPT ![cur][s] = @ \/ Lost(cur)]
    /\ UNCHANGED <<name, cur, snap, rebuilding, ap, wr, torn, events>>

ShrinkClear ==
    /\ ap.at = "shrink" /\ \A s \in Live(cur) : Writable(cur, s)
    /\ dir' = [dir EXCEPT ![cur].file = [s \in Slots |-> IF s \in Live(cur) THEN EmptyFile ELSE @[s]]]
    /\ obj' = [obj EXCEPT ![cur].dirty = [s \in Slots |-> @[s] \/ s \in Live(cur)]]
    /\ unsynced' = [unsynced EXCEPT ![cur] = [s \in Slots |-> @[s] \/ (Lost(cur) /\ s \in Live(cur))]]
    /\ \/ ap' = [ap EXCEPT !.at = "resize"] /\ UNCHANGED <<rebuilding, events>>
       \/ /\ Spend
          /\ ap' = NoApply /\ rebuilding' = FALSE
    /\ UNCHANGED <<name, cur, snap, wr, torn>>

ShrinkFits ==
    /\ ap.at = "shrink"
    /\ ap' = [ap EXCEPT !.at = "resize"]
    /\ UNCHANGED <<name, dir, obj, cur, snap, rebuilding, wr, unsynced, torn, events>>

\* resize_total_to: Env::resize of every shard
Resize ==
    /\ ap.at = "resize"
    /\ obj' = [obj EXCEPT ![cur].size = Cfg.size]
    /\ rebuilding' = FALSE
    /\ ap' = [ap EXCEPT !.at = "store"]
    /\ UNCHANGED <<name, dir, cur, snap, wr, unsynced, torn, events>>

StoreConfig ==
    /\ ap.at = "store"
    /\ snap' = ap.cfg /\ ap' = NoApply
    /\ UNCHANGED <<name, dir, obj, cur, rebuilding, wr, unsynced, torn, events>>

-----------------------------------------------------------------------------
(***************************************************************************)
(* insert_inner and remove                                                 *)
(***************************************************************************)
Go(t, at) == wr' = [wr EXCEPT ![t].at = at]
Quit(t) == wr' = [wr EXCEPT ![t] = NoJob]
SlotOf(t) == ShardForKey(obj[wr[t].d], wr[t].key)
FileOf(t) == dir[wr[t].d].file[SlotOf(t)]

\* fill_from_forward skips an instance that is rebuilding, and loads its backend;
\* insert_inner loads the cap and the policy
BeginFill(t, k) ==
    /\ wr[t].at = "idle" /\ cur # None /\ ~rebuilding
    /\ Spend
    /\ wr' = [wr EXCEPT ![t] = [NoJob EXCEPT !.at = "exists", !.d = cur, !.key = k,
                 !.cap = obj[cur].caps[ShardForKey(obj[cur], k)], !.full = obj[cur].full]]
    /\ UNCHANGED <<name, dir, obj, cur, snap, rebuilding, ap, unsynced, torn>>

\* shard_key_exists, in a read transaction of its own
KeyExists(t) ==
    /\ wr[t].at = "exists"
    /\ wr' = [wr EXCEPT ![t].replacing = wr[t].key \in FileOf(t).keys, ![t].at = "count"]
    /\ UNCHANGED <<name, dir, obj, cur, snap, rebuilding, ap, unsynced, torn, events>>

\* an eviction goes on with `next'
Evict(t, next) ==
    CASE wr[t].full = "refuse" -> Quit(t)
      [] wr[t].full = "evict_one" -> wr' = [wr EXCEPT ![t].at = "evict", ![t].next = next]
      [] wr[t].full = "sample" -> wr' = [wr EXCEPT ![t].at = "sample", ![t].next = next]

EntryCount(t) ==
    /\ wr[t].at = "count"
    /\ IF wr[t].cap > 0 /\ ~wr[t].replacing /\ FileOf(t).count >= wr[t].cap
         THEN Evict(t, "begin") ELSE Go(t, "begin")
    /\ UNCHANGED <<name, dir, obj, cur, snap, rebuilding, ap, unsynced, torn, events>>

\* a transaction on the key's shard; `dirty' is set by the step after it
Commit(t, file) ==
    /\ dir' = [dir EXCEPT ![wr[t].d].file[SlotOf(t)] = file]
    /\ unsynced' = [unsynced EXCEPT ![wr[t].d][SlotOf(t)] = @ \/ Lost(wr[t].d)]
    /\ UNCHANGED <<name, obj, cur, snap, rebuilding, ap, torn, events>>

\* evict_one_arbitrary: one transaction
EvictOne(t) ==
    LET f == FileOf(t)
    IN  /\ wr[t].at = "evict" /\ Writable(wr[t].d, SlotOf(t))
        /\ \/ \E k \in f.keys :
                 /\ Commit(t, [here |-> TRUE, keys |-> f.keys \ {k}, count |-> Bump(f.count, FALSE)])
                 /\ Go(t, "mark")
           \/ /\ f.keys = {} /\ Quit(t)
              /\ UNCHANGED <<name, dir, obj, cur, snap, rebuilding, ap, unsynced, torn, events>>

\* evict_from_sample: the victim is chosen in a read transaction ...
Sample(t) ==
    /\ wr[t].at = "sample"
    /\ \/ \E k \in FileOf(t).keys : wr' = [wr EXCEPT ![t].victim = k, ![t].at = "delete"]
       \/ FileOf(t).keys = {} /\ Quit(t)
    /\ UNCHANGED <<name, dir, obj, cur, snap, rebuilding, ap, unsynced, torn, events>>

\* ... and deleted in a later one, which counts it whether it was there or not
DeleteVictim(t) ==
    LET f == FileOf(t)
    IN  /\ wr[t].at = "delete" /\ Writable(wr[t].d, SlotOf(t))
        /\ Commit(t, [here |-> TRUE, keys |-> f.keys \ {wr[t].victim}, count |-> Bump(f.count, FALSE)])
        /\ Go(t, "mark")

BeginTxn(t) ==
    /\ wr[t].at = "begin" /\ Writable(wr[t].d, SlotOf(t))
    /\ Go(t, "txn")
    /\ UNCHANGED <<name, dir, obj, cur, snap, rebuilding, ap, unsynced, torn, events>>

PutAndCommit(t) ==
    LET f == FileOf(t)
    IN  /\ wr[t].at = "txn"
        /\ Commit(t, [here |-> TRUE, keys |-> f.keys \cup {wr[t].key},
                      count |-> IF wr[t].replacing THEN f.count ELSE Bump(f.count, TRUE)])
        /\ wr' = [wr EXCEPT ![t].at = "mark", ![t].next = "idle"]

\* MapFull: evict and start over, once
MapFull(t) ==
    /\ wr[t].at = "txn" /\ Spend
    /\ IF wr[t].full # "refuse" /\ wr[t].retry
         THEN wr' = [wr EXCEPT ![t].at = IF wr[t].full = "evict_one" THEN "evict" ELSE "sample",
                               ![t].next = "exists", ![t].retry = FALSE]
         ELSE Quit(t)
    /\ UNCHANGED <<name, dir, obj, cur, snap, rebuilding, ap, unsynced, torn>>

MarkDirty(t) ==
    /\ wr[t].at = "mark"
    /\ obj' = [obj EXCEPT ![wr[t].d].dirty[SlotOf(t)] = TRUE]
    /\ IF wr[t].next = "idle" THEN Quit(t) ELSE Go(t, wr[t].next)
    /\ UNCHANGED <<name, dir, cur, snap, rebuilding, ap, unsynced, torn, events>>

\* get_result finds the entry expired and removes whatever is there by then
BeginRemove(t, k) ==
    /\ wr[t].at = "idle" /\ cur # None /\ k \in KeysIn(cur, ShardForKey(obj[cur], k))
    /\ Spend
    /\ wr' = [wr EXCEPT ![t] = [NoJob EXCEPT !.at = "remove", !.d = cur, !.key = k]]
    /\ UNCHANGED <<name, dir, obj, cur, snap, rebuilding, ap, unsynced, torn>>

RemoveExpired(t) ==
    LET f == FileOf(t)
    IN  /\ wr[t].at = "remove" /\ Writable(wr[t].d, SlotOf(t))
        /\ IF wr[t].key \in f.keys
             THEN /\ Commit(t, [here |-> TRUE, keys |-> f.keys \ {wr[t].key}, count |-> Bump(f.count, FALSE)])
                  /\ Go(t, "mark")
             ELSE /\ Quit(t)
                  /\ UNCHANGED <<name, dir, obj, cur, snap, rebuilding, ap, unsynced, torn, events>>

-----------------------------------------------------------------------------
(***************************************************************************)
(* The flusher: flusher_loop and force_sync_iter                           *)
(***************************************************************************)
NextShard(d) ==
    IF obj[d].i + 1 < obj[d].n THEN [obj[d] EXCEPT !.flusher = "visit", !.i = @ + 1]
    ELSE [obj[d] EXCEPT !.flusher = IF obj[d].ending THEN "none" ELSE "wait", !.i = 0]

FlushTick(d) ==
    /\ obj[d].flusher = "wait" /\ ~(ap.at = "sync" /\ d = cur /\ Cfg.sync # "periodic")
    /\ \E s \in Live(d) : obj[d].dirty[s]                \* an idle tick changes nothing
    /\ obj' = [obj EXCEPT ![d].flusher = "visit", ![d].i = 0]
    /\ UNCHANGED <<name, dir, cur, snap, rebuilding, ap, wr, unsynced, torn, events>>

FlushVisit(d) ==
    LET s == Slot(obj[d], obj[d].i)
    IN  /\ obj[d].flusher = "visit"
        /\ IF obj[d].dirty[s]
             THEN /\ obj' = [obj EXCEPT ![d].flusher = "sync", ![d].dirty[s] = FALSE]
                  /\ unsynced' = [unsynced EXCEPT ![d][s] = FALSE]
             ELSE obj' = [obj EXCEPT ![d] = NextShard(d)] /\ UNCHANGED unsynced
        /\ UNCHANGED <<name, dir, cur, snap, rebuilding, ap, wr, torn, events>>

\* Mutant: the flag is cleared again once the sync has succeeded.
FlushEnd_ClearsAgain(d) ==
    LET s == Slot(obj[d], obj[d].i)
    IN  /\ obj[d].flusher = "sync"
        /\ obj' = [obj EXCEPT ![d] = [NextShard(d) EXCEPT !.dirty[s] = FALSE]]
        /\ UNCHANGED <<name, dir, cur, snap, rebuilding, ap, wr, unsynced, torn, events>>

\* Mutant: a failed sync ends the flusher thread.
FlushEnd_StopsOnError(d) ==
    LET s == Slot(obj[d], obj[d].i)
    IN  /\ obj[d].flusher = "sync"
        /\ \/ obj' = [obj EXCEPT ![d] = NextShard(d)] /\ UNCHANGED <<unsynced, events>>
           \/ /\ Spend
              /\ obj' = [obj EXCEPT ![d].flusher = "none", ![d].dirty[s] = TRUE]
              /\ unsynced' = [unsynced EXCEPT ![d][s] = TRUE]
        /\ UNCHANGED <<name, dir, cur, snap, rebuilding, ap, wr, torn>>

\* force_sync returns; a failure restores the flag
FlushEnd(d) ==
    LET s == Slot(obj[d], obj[d].i)
    IN  /\ obj[d].flusher = "sync"
        /\ \/ obj' = [obj EXCEPT ![d] = NextShard(d)] /\ UNCHANGED <<unsynced, events>>
           \/ /\ Spend
              /\ obj' = [obj EXCEPT ![d] = [NextShard(d) EXCEPT !.dirty[s] = TRUE]]
              /\ unsynced' = [unsynced EXCEPT ![d][s] = TRUE]
        /\ UNCHANGED <<name, dir, cur, snap, rebuilding, ap, wr, torn>>

(***************************************************************************)
(* Drop of a backend that was swapped out, when the last fill that loaded  *)
(* it is done: stop the flusher, sync what is dirty, close.  A flusher     *)
(* that does not stop in time is left to end its tick.                     *)
(***************************************************************************)
DropOld(d) ==
    /\ obj[d].open /\ d # cur /\ ap.d # d /\ \A t \in Fillers : wr[t].d # d
    /\ \/ /\ obj[d].flusher = "wait"
          /\ obj' = [obj EXCEPT ![d].flusher = "visit", ![d].i = 0, ![d].ending = TRUE]
       \/ /\ obj[d].flusher \in {"visit", "sync"} /\ ~obj[d].ending
          /\ obj' = [obj EXCEPT ![d].ending = TRUE]
       \/ obj[d].flusher = "none" /\ obj' = [obj EXCEPT ![d] = Closed]
    /\ unsynced' = [unsynced EXCEPT ![d] = IF obj'[d].open THEN @ ELSE [s \in Slots |-> FALSE]]
    /\ UNCHANGED <<name, dir, cur, snap, rebuilding, ap, wr, torn, events>>

\* the process dies; committed data and directory names stay
Crash ==
    /\ cur # None \/ ap.at # "idle"
    /\ ap.at \notin {"failed", "nothread"}
    /\ Spend
    /\ torn' = (torn \/ (ap.where = "path" /\ ap.at \in {"abandon", "create", "sidecar"}))
    /\ obj' = [d \in Dirs |-> Closed] /\ cur' = None /\ snap' = None /\ rebuilding' = FALSE
    /\ ap' = NoApply /\ wr' = [t \in Fillers |-> NoJob]
    /\ unsynced' = [d \in Dirs |-> [s \in Slots |-> FALSE]]
    /\ UNCHANGED <<name, dir>>

-----------------------------------------------------------------------------
\* the path is missing, or holds an unsharded environment with one entry
LmdbInit ==
    /\ \E d \in {CHOOSE x \in Dirs : TRUE}, k \in {CHOOSE x \in LmdbKeys : TRUE} :
         \/ /\ name = [x \in Names |-> None] /\ dir = [x \in Dirs |-> NoDir]
         \/ /\ name = [x \in Names |-> IF x = "path" THEN d ELSE None]
            /\ dir = [x \in Dirs |-> IF x = d THEN [NoDir EXCEPT
                        !.file[Legacy] = [here |-> TRUE, keys |-> {k}, count |-> 1]] ELSE NoDir]
    /\ obj = [d \in Dirs |-> Closed] /\ cur = None /\ snap = None /\ rebuilding = FALSE
    /\ ap = NoApply /\ wr = [t \in Fillers |-> NoJob]
    /\ unsynced = [d \in Dirs |-> [s \in Slots |-> FALSE]] /\ torn = FALSE

ApplierStep ==
    \/ MakeDir \/ CleanSiblings \/ DetectLayout \/ AbandonStep \/ OpenShard
    \/ WriteSidecar \/ FinishOpen \/ Swap \/ MoveAside \/ Install \/ Unlink
    \/ HotPolicy \/ HotSync \/ FinalSyncDone \/ HotSize
    \/ ShrinkEvict \/ ShrinkClear \/ ShrinkFits \/ Resize \/ StoreConfig

WriterStep(t) ==
    \/ KeyExists(t) \/ EntryCount(t) \/ EvictOne(t) \/ Sample(t) \/ DeleteVictim(t)
    \/ BeginTxn(t) \/ PutAndCommit(t) \/ MapFull(t) \/ MarkDirty(t) \/ RemoveExpired(t)

FlusherStep(d) == FlushTick(d) \/ FlushVisit(d) \/ FlushEnd(d)

\* threads are alike: a call is begun by a fixed one of those that are idle
FirstFree(t) == wr[t].at = "idle" /\ t = CHOOSE u \in Fillers : wr[u].at = "idle"

LmdbNext ==
    \/ \E c \in Configs : Start(c) \/ BeginApply(c)
    \/ ApplierStep
    \/ \E t \in Fillers :
          WriterStep(t) \/ \E k \in LmdbKeys : FirstFree(t) /\ (BeginFill(t, k) \/ BeginRemove(t, k))
    \/ \E d \in Dirs : FlusherStep(d) \/ DropOld(d)
    \/ Crash

=============================================================================
