--------------------------- MODULE MetricsRegistry ---------------------------
(***************************************************************************)
(* The built-in registry a metrics plan is turned into: which families it  *)
(* registers, which record calls it counts, which labels a series has, and *)
(* which families a scrape shows (conduit-metrics builtin.rs and           *)
(* export.rs).  Families are named without their "conduit_" prefix.        *)
(***************************************************************************)
EXTENDS MetricsPlan

FamiliesOf ==
    [volume |-> {"queries_total", "responses_total", "responses_truncated_total",
                 "queries_dropped_total", "acl_decisions_total", "queries_by_pool_total"},
     failures |-> {"parse_rejected_total", "forward_errors_total", "script_errors_total",
                   "retries_total", "slot_pool_exhausted_total"},
     lookup |-> {"lookup_provider_outcomes_total", "cache_lookups_total"},
     timing |-> {"phase_duration_seconds", "forward_attempts_total", "forward_duration_seconds",
                 "lookup_duration_seconds", "cache_lookup_duration_seconds",
                 "cache_fill_duration_seconds", "cache_eviction_duration_seconds",
                 "response_duration_seconds"},
     cache_detail |-> {"cache_fills_total", "cache_singleflight_coalesced_total",
                       "cache_evictions_total", "cache_entries", "cache_entries_limit",
                       "cache_bytes_used", "cache_bytes_limit", "cache_lmdb_shards",
                       "cache_lmdb_sync", "cache_lmdb_periodic_sync_age_seconds",
                       "cache_lmdb_periodic_sync_duration_seconds",
                       "cache_lmdb_periodic_sync_failures_total", "cache_lmdb_errors_total"},
     forward_detail |-> {"forward_outstanding"},
     health |-> {"backend_health_observed", "backend_health_applied",
                 "backend_health_probe_automatic", "backend_health_effective_weight",
                 "backend_health_latency_ewma_ms", "backend_health_transitions_total",
                 "pool_backends_active", "probe_results_total"},
     runtime |-> {"slots_in_use", "slots_capacity"},
     topology |-> {"pool_backends_configured", "listener_info", "listener_ingress_threads",
                   "listener_rcvbuf_bytes", "backend_info", "backend_weight"},
     process |-> {"process_resident_bytes", "process_open_fds", "process_max_fds",
                  "process_threads", "process_cpu_seconds_total"},
     meta |-> {"build_info", "start_time_seconds", "uptime_seconds", "config_generation"}]

BuiltinMetricCategory(family) == CHOOSE c \in Categories : family \in FamiliesOf[c]

-----------------------------------------------------------------------------
(* new_from_plan_internal: the tier of a plan is its default granularity,  *)
(* whatever its categories are.                                            *)
Full(plan) == plan.enabled /\ plan.granularity = "fine"

(* Built whatever the plan says.                                           *)
AlwaysRegistered ==
    {"queries_total", "queries_by_pool_total", "phase_duration_seconds", "forward_attempts_total",
     "forward_errors_total", "forward_duration_seconds", "retries_total"}
        \cup FamiliesOf.forward_detail \cup FamiliesOf.topology \cup FamiliesOf.meta

EnabledRegistered ==
    {"responses_total", "responses_truncated_total", "queries_dropped_total",
     "acl_decisions_total", "parse_rejected_total", "script_errors_total",
     "slot_pool_exhausted_total"} \cup FamiliesOf.lookup

FullRegistered ==
    {"response_duration_seconds", "lookup_duration_seconds", "cache_lookup_duration_seconds",
     "cache_fill_duration_seconds", "cache_eviction_duration_seconds"} \cup FamiliesOf.cache_detail

Registered(plan) ==
    AlwaysRegistered
        \cup (IF plan.enabled THEN EnabledRegistered ELSE {})
        \cup (IF Full(plan) THEN FullRegistered \cup FamiliesOf.runtime ELSE {})
        \cup (IF CollectFor(plan, "health") THEN FamiliesOf.health ELSE {})
        \cup (IF CollectFor(plan, "process") THEN FamiliesOf.process ELSE {})

-----------------------------------------------------------------------------
(* The record calls.  Volume, failures, timing and health ask the plan     *)
(* whether to collect; the other counters only exist or do not.            *)

RecordsVolume(plan, family) == family \in FamiliesOf.volume => CollectFor(plan, "volume")
RecordsFailures(plan, family) ==
    family \in FamiliesOf.failures \ {"slot_pool_exhausted_total"} => CollectFor(plan, "failures")
RecordsTiming(plan, family) ==
    family \in FamiliesOf.timing \ FullRegistered => CollectFor(plan, "timing")
RecordsFullOnly(plan, family) == family \in FullRegistered => Full(plan)

Records(plan, family) ==
    /\ plan.enabled /\ family \in Registered(plan)
    /\ RecordsVolume(plan, family) /\ RecordsFailures(plan, family)
    /\ RecordsTiming(plan, family) /\ RecordsFullOnly(plan, family)

(* The label names of the families whose schema follows the plan; the      *)
(* other families have one schema for the life of the process.             *)
VolumeLabels(plan, family) ==
    LET ip == IF "ip_family" \in ToSet(plan.dimensions.volume) THEN {"ip_family"} ELSE {}
    IN CASE family = "queries_total" -> ToSet(plan.dimensions.volume)
         [] family = "responses_total" -> ToSet(plan.dimensions.responses)
         [] family = "acl_decisions_total" -> ToSet(plan.dimensions.acl)
         [] family = "queries_dropped_total" -> {"listener", "protocol", "reason"} \cup ip
         [] family = "responses_truncated_total" -> {"listener", "protocol", "answer_source"} \cup ip
         [] OTHER -> {"pool"}

ForwardLabels(plan, family) ==
    CASE family = "forward_attempts_total" -> ToSet(plan.dimensions.timing) \cup {"outcome"}
      [] family = "forward_duration_seconds" -> ToSet(plan.dimensions.timing)
      [] OTHER -> ToSet(plan.dimensions.forward_failures)

LabelNames(plan, family) ==
    CASE family \in FamiliesOf.volume -> VolumeLabels(plan, family)
      [] family \in {"forward_attempts_total", "forward_duration_seconds", "forward_errors_total"} ->
            ForwardLabels(plan, family)
      [] OTHER -> {}

(* A series of the process-wide store: metric name and label names.        *)
SeriesIdentity(plan, family) == <<family, LabelNames(plan, family)>>

-----------------------------------------------------------------------------
(* emits_family and gather_prometheus_families                             *)
EmitsFamily(plan, family) == plan.enabled /\ EmitFor(plan, BuiltinMetricCategory(family))
Exported(plan) == {f \in Registered(plan) : EmitsFamily(plan, f)}
EventFamiliesExported(plan, sinks) == plan.enabled /\ plan.event_export.emit /\ sinks # <<>>
=============================================================================
