---------------------------- MODULE LookupCompile ----------------------------
(***************************************************************************)
(* Lookup profiles and cache instances (conduit-config/src/lookup.rs).     *)
(* validate runs this same compilation, and runs it again when the         *)
(* snapshot is built.                                                      *)
(*                                                                         *)
(* An Option is a sequence of at most one element.  Enumerations hold one  *)
(* of their spellings or "typo"; a path is "", "dir" (a writable directory *)
(* or a path under one), "file" or "readonly".                             *)
(***************************************************************************)
EXTENDS Naturals, Sequences, SequencesExt

Or(opt, default) == IF opt = <<>> THEN default ELSE opt[1]

MaxLmdbShards == 64

(* The enum parsers.                                                       *)
ParseBackendType(t) == t \in {"memory", "lmdb", "ebpf_map"}
ParseOnHit(r) == r \in {"", "skip", "run"}
ParseEviction(e) == e \in {"", "passive", "active"}
ParseWhenFull(w) == w \in {"", "evict_one", "refuse", "sample"}
ParseSync(s) == s \in {"", "full", "no_meta", "periodic", "none"}

(* compile_truncated_udp: enabled needs a positive ttl.                    *)
CompileTruncatedUdp(t) ==
    t = <<>> \/ ~Or(t[1].enabled, FALSE) \/ Or(t[1].ttl_secs, 0) > 0

CompileOnHit(o) == o = <<>> \/ ParseOnHit(o[1])

CompileMemory(m) ==
    m = <<>> \/ (Or(m[1].shard_count, 16) > 0 /\ ParseEviction(Or(m[1].eviction, "passive")))

(* preflight_lmdb_path: validation touches the file system, so its verdict *)
(* can change between two evaluations of the same document.                *)
PreflightLmdbPath(path) == path = "dir"

CompileLmdb(l) ==
    /\ l # <<>> /\ l[1].path # "" /\ l[1].map_size > 0
    /\ ParseWhenFull(Or(l[1].when_full, "evict_one"))
    /\ Or(l[1].when_full, "evict_one") = "sample" => Or(l[1].sample_size, 16) >= 1
    /\ ParseSync(Or(l[1].sync, "full"))
    /\ l[1].sync_interval # <<>> =>
          /\ Or(l[1].sync, "full") = "periodic"
          /\ l[1].sync_interval[1] \in 250..60000
    /\ Or(l[1].shard_count, 1) > 0
    /\ PreflightLmdbPath(l[1].path)

(* The shard count a new store would have: the configured one, clamped, or *)
(* twice the threads that look up.                                         *)
LmdbShards(l, threads) ==
    LET want == Or(l[1].shard_count, 2 * threads)
    IN  IF want > MaxLmdbShards THEN MaxLmdbShards ELSE want

CompileCacheInstance(c) ==
    /\ c.name # ""
    /\ ParseBackendType(c.type) /\ c.type # "ebpf_map"
    /\ c.type = "memory" => c.lmdb = <<>> /\ CompileMemory(c.memory)
    /\ c.type = "lmdb" => c.memory = <<>> /\ CompileLmdb(c.lmdb)
    /\ CompileOnHit(c.on_hit)
    /\ CompileTruncatedUdp(c.truncated_udp)

CompileCacheInstances(caches) ==
    /\ \A i \in DOMAIN caches : CompileCacheInstance(caches[i])
    /\ \A i, j \in DOMAIN caches : caches[i].name = caches[j].name => i = j

CompileProvider(p, names) ==
    \/ p.type = "forward"
    \/ p.type = "cache" /\ p.cache \in names \ {""}

(* lookup is absent, or maps profile names to their providers.             *)
CompileLookup(lookup, caches) ==
    LET names == {caches[i].name : i \in DOMAIN caches}
    IN  /\ CompileCacheInstances(caches)
        /\ lookup # <<>> =>
              /\ DOMAIN lookup[1] # {} /\ "" \notin DOMAIN lookup[1]
              /\ \A name \in DOMAIN lookup[1] :
                    /\ lookup[1][name] # <<>>
                    /\ \A i \in DOMAIN lookup[1][name] :
                          CompileProvider(lookup[1][name][i], names)

(* lookup_concurrency_for_lmdb_default: the policy workers, or the sum of  *)
(* the listeners' threads.                                                 *)
LookupThreads(runtime, policyWorkers, block, threads) ==
    LET Positive(n) == IF n = 0 THEN 1 ELSE n
    IN  CASE runtime \in {"split_io", "tokio"} -> Positive(policyWorkers)
          [] runtime = "sync" /\ threads = <<>> -> Positive(block)
          [] OTHER -> Positive(FoldLeft(LAMBDA n, t : n + t, 0, threads))

=============================================================================
