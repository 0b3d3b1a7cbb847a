------------------------------ MODULE ControlApi ------------------------------
(***************************************************************************)
(* The gRPC services of the control plane (conduit-api/src) up to the      *)
(* point where they hand a proposal to the Configurator: who may call,     *)
(* which requests are refused before they become a proposal, and what the  *)
(* read services answer from the installed snapshot.                       *)
(*                                                                         *)
(* A request is a proposal [op, ...] together with meta, the two headers a *)
(* key may come in ("none" when absent).  An optional message that is not  *)
(* set is outside the request's domain.                                    *)
(***************************************************************************)
EXTENDS Primitives

Section(cfg, x) == IF x \in DOMAIN cfg.sections THEN <<cfg.sections[x]>> ELSE <<>>

-----------------------------------------------------------------------------
(* Authorization by the keys of the snapshot that is installed when the    *)
(* request arrives; no keys, no check.                                     *)

ApiKeys(cfg) == IF Section(cfg, "control") = <<>> THEN {}
                ELSE Section(cfg, "control")[1].api_keys

ApiKeyMatches(keys, meta) == {meta.authorization, meta.x_api_key} \cap keys # {}

AuthorizeApiKeys(cfg, meta) == ApiKeys(cfg) = {} \/ ApiKeyMatches(ApiKeys(cfg), meta)

-----------------------------------------------------------------------------
(* What each service checks before it proposes.                            *)

Has(req, f) == f \in DOMAIN req

ControlArguments(req) == req.op \in {"merge", "replace"} => Has(req, "patch")

PoolsArguments(req) ==
    /\ req.pool # ""
    /\ req.op = "AddBackend" => Has(req, "entry")
    /\ req.op # "AddBackend" => req.backend # ""

CachesArguments(req) == req.name # "" /\ req.fields # Unset

DataSourcesArguments(req) ==
    CASE req.op = "UpsertDataSource" -> Has(req, "source") /\ req.source.name # ""
      [] req.op = "RemoveDataSource" -> req.name # ""
      [] OTHER -> Has(req, "limits")

EventsArguments(req) == req.name # "" /\ Has(req, "fields")

OrchestratorArguments(req) == req.fields # Unset

RhaiArguments(req) == req.fields # Unset

MetricsArguments(req) == Has(req, "metrics")

ArgumentsOk(req) ==
    CASE req.op \in {"merge", "replace", "clear", "reload"} -> ControlArguments(req)
      [] req.op \in {"SetBackendWeight", "AddBackend", "RemoveBackend"} -> PoolsArguments(req)
      [] req.op = "SetCache" -> CachesArguments(req)
      [] req.op \in {"UpsertDataSource", "RemoveDataSource", "SetDataSourceLimits"} ->
            DataSourcesArguments(req)
      [] req.op = "SetSink" -> EventsArguments(req)
      [] req.op = "SetLimits" -> IF req.section = "rhai" THEN RhaiArguments(req)
                                 ELSE OrchestratorArguments(req)
      [] req.op = "PatchMetrics" -> MetricsArguments(req)

(* The interceptor, then the handler.                                      *)
Admitted(cfg, req) == AuthorizeApiKeys(cfg, req.meta) /\ ArgumentsOk(req)

-----------------------------------------------------------------------------
(* The read services, all from the installed snapshot.                     *)

NotFound == [found |-> FALSE]
Found(value) == [found |-> TRUE, value |-> value]

GetNamed(list, name) == LET i == FindNamed(list, name)
                   IN  IF i = 0 THEN NotFound ELSE Found(list[i])

GetPool(cfg, name) == GetNamed(cfg.pools, name)
GetCache(cfg, name) == GetNamed(cfg.caches, name)
GetDataSource(cfg, name) == GetNamed(cfg.data_sources, name)
GetEventSink(cfg, name) == IF Section(cfg, "events") = <<>> THEN NotFound
                           ELSE GetNamed(Section(cfg, "events")[1], name)

(* get_orchestrator, get_rhai and get_data_source_limits answer with zeros *)
(* when the section is absent.                                             *)
GetLimits(cfg, x) == IF Section(cfg, x) = <<>> THEN [f \in LimitFields[x] |-> 0]
                     ELSE Section(cfg, x)[1]

GetMetrics(cfg) == cfg.metrics

(* What a caller who was told ok reads back through the service they       *)
(* called.                                                                 *)
ReadsBack(cfg, req) ==
    LET pool == GetPool(cfg, req.pool)
        backends == pool.value.backends
    IN  CASE req.op = "SetBackendWeight" ->
               /\ pool.found /\ FindBackendIndex(backends, req.backend) # 0
               /\ backends[FindBackendIndex(backends, req.backend)].weight = req.weight
          [] req.op = "RemoveBackend" ->
               pool.found => \A i \in DOMAIN backends : backends[i].name # req.backend
          [] req.op = "AddBackend" ->
               /\ pool.found
               /\ \E i \in DOMAIN backends : /\ backends[i].address = req.entry.address
                                             /\ backends[i].name = req.entry.name
          [] req.op = "SetLimits" ->
               \A f \in DOMAIN req.fields : GetLimits(cfg, req.section)[f] = req.fields[f]
          [] req.op = "SetDataSourceLimits" ->
               GetLimits(cfg, "data_source_limits") = req.limits
          [] req.op = "UpsertDataSource" ->
               GetDataSource(cfg, req.source.name) = Found(req.source)
          [] req.op = "RemoveDataSource" -> ~GetDataSource(cfg, req.name).found
          [] req.op = "SetSink" ->
               \A f \in DOMAIN req.fields :
                   GetEventSink(cfg, req.name).value.set[f] = req.fields[f]
          [] req.op = "PatchMetrics" ->
               \A x \in DOMAIN req.metrics : GetMetrics(cfg)[x] = req.metrics[x]
          [] req.op = "SetCache" ->
               \A f \in DOMAIN req.fields :
                   GetCache(cfg, req.name).value.set[f] = req.fields[f]

=============================================================================
