------------------------------ MODULE Primitives ------------------------------
(***************************************************************************)
(* The typed configuration changes of the control plane                    *)
(* (mutate_desired in conduit-core/src/configurator.rs, reached from the   *)
(* services of conduit-api/src): each edits the effective configuration,   *)
(* and the overlay that produces the result is synthesized from it.        *)
(*                                                                         *)
(* fields is a partial function holding the fields a request sets.  A      *)
(* cache is [name, type, set], a sink [name, set], a data source [name,    *)
(* path], with set mapping the fields that are set to their values.        *)
(***************************************************************************)
EXTENDS ConfigSynthesize, TLC

Rejected == [ok |-> FALSE, cfg |-> EmptyConfig]
Accepted(cfg) == [ok |-> TRUE, cfg |-> cfg]

(* find_cache_mut, find_event_sink_mut, and the data source of a name: 0   *)
(* when there is no such entry.                                            *)
FindNamed(list, name) == IF name = "" THEN 0
                         ELSE SelectInSeq(list, LAMBDA x : x.name = name)

(* find_backend_index: the name wins over the address.                     *)
FindBackendIndex(backends, id) ==
    LET byName == SelectInSeq(backends, LAMBDA b : b.name = id)
    IN  IF byName # 0 THEN byName
        ELSE SelectInSeq(backends, LAMBDA b : b.address = id)

BackendIdentityExists(backends, entry) ==
    \E i \in DOMAIN backends :
        \/ entry.name # "" /\ backends[i].name = entry.name
        \/ entry.address # "" /\ backends[i].address = entry.address

(* find_pool_mut: 0 when there is no such pool, which has no backends.     *)
FindPool(cfg, pool) == SelectInSeq(cfg.pools, LAMBDA x : x.name = pool)

PoolBackends(cfg, pool) ==
    LET i == FindPool(cfg, pool) IN IF i = 0 THEN <<>> ELSE cfg.pools[i].backends

WithBackends(cfg, pool, backends) == [cfg EXCEPT !.pools[FindPool(cfg, pool)].backends = backends]

SetBackendWeight(cfg, p) ==
    LET backends == PoolBackends(cfg, p.pool)
        i == FindBackendIndex(backends, p.backend)
    IN  IF i = 0 THEN Rejected
        ELSE Accepted(WithBackends(cfg, p.pool, [backends EXCEPT ![i].weight = p.weight]))

RemoveBackendById(cfg, p) ==
    LET backends == PoolBackends(cfg, p.pool)
        i == FindBackendIndex(backends, p.backend)
    IN  IF i = 0 THEN Rejected
        ELSE Accepted(WithBackends(cfg, p.pool, RemoveAt(backends, i)))

AddBackend(cfg, p) ==
    LET backends == PoolBackends(cfg, p.pool)
    IN  IF \/ FindPool(cfg, p.pool) = 0
           \/ BackendIdentityExists(backends, p.entry)
           \/ p.entry.address = ""
        THEN Rejected
        ELSE Accepted(WithBackends(cfg, p.pool, Append(backends, [p.entry EXCEPT !.remove = FALSE])))

LimitFields == [orchestrator |-> {"max_attempts", "max_txn_duration_ms"},
                rhai |-> {"max_operations", "max_call_depth", "hook_timeout_ms"},
                data_source_limits |-> {"max_file_bytes", "max_entries", "max_key_bytes",
                                        "max_value_bytes", "max_tables",
                                        "max_total_bytes"}]

(* SetOrchestratorLimits and SetRhaiLimits: an absent section starts from  *)
(* all zeros.                                                              *)
SetLimits(cfg, p) ==
    IF p.fields = Unset THEN Rejected
    ELSE LET old == IF p.section \in DOMAIN cfg.sections THEN cfg.sections[p.section]
                    ELSE [f \in LimitFields[p.section] |-> 0]
         IN  Accepted([cfg EXCEPT !.sections = (p.section :> (p.fields @@ old)) @@ @])

SetDataSourceLimits(cfg, p) ==
    Accepted([cfg EXCEPT !.sections = ("data_source_limits" :> p.limits) @@ @])

UpsertDataSource(cfg, p) ==
    LET i == FindNamed(cfg.data_sources, p.source.name)
    IN  CASE p.source.name = "" -> Rejected
          [] p.source.name # "" /\ i # 0 ->
               Accepted([cfg EXCEPT !.data_sources[i] = p.source])
          [] OTHER -> Accepted([cfg EXCEPT !.data_sources = Append(@, p.source)])

RemoveDataSource(cfg, p) ==
    IF FindNamed(cfg.data_sources, p.name) = 0 THEN Rejected
    ELSE Accepted([cfg EXCEPT !.data_sources = SelectSeq(@, LAMBDA s : s.name # p.name)])

(* SetEventSinkFilters and SetEventSinkEmit *)
SetSink(cfg, p) ==
    IF "events" \notin DOMAIN cfg.sections THEN Rejected
    ELSE LET i == FindNamed(cfg.sections["events"], p.name)
         IN  IF i = 0 THEN Rejected
             ELSE Accepted([cfg EXCEPT !.sections["events"][i].set = p.fields @@ @])

PatchMetrics(cfg, p) ==
    MergeFileAndOverlay(cfg, [EmptyConfig EXCEPT !.version = cfg.version,
                                                 !.metrics = p.metrics])

(* SetCacheMaxEntries, SetCacheLmdbHot, SetCachePolicyHot; only the second *)
(* asks for a type.                                                        *)
SetCache(cfg, p) ==
    LET i == FindNamed(cfg.caches, p.name)
    IN  IF p.fields = Unset \/ i = 0 THEN Rejected
        ELSE IF p.type # "any" /\ cfg.caches[i].type # p.type THEN Rejected
        ELSE Accepted([cfg EXCEPT !.caches[i].set = p.fields @@ @])

MutateDesired(cfg, p) ==
    CASE p.op = "SetBackendWeight" -> SetBackendWeight(cfg, p)
      [] p.op = "RemoveBackend" -> RemoveBackendById(cfg, p)
      [] p.op = "AddBackend" -> AddBackend(cfg, p)
      [] p.op = "SetLimits" -> SetLimits(cfg, p)
      [] p.op = "SetDataSourceLimits" -> SetDataSourceLimits(cfg, p)
      [] p.op = "UpsertDataSource" -> UpsertDataSource(cfg, p)
      [] p.op = "RemoveDataSource" -> RemoveDataSource(cfg, p)
      [] p.op = "SetSink" -> SetSink(cfg, p)
      [] p.op = "PatchMetrics" -> PatchMetrics(cfg, p)
      [] p.op = "SetCache" -> SetCache(cfg, p)

=============================================================================
