---------------------------- MODULE ConfigSchema ----------------------------
(***************************************************************************)
(* The YAML surface of the configuration (conduit-config/src/file.rs):     *)
(* which keys a document may hold, what an omitted key becomes when it is  *)
(* loaded, and what is written back when the running configuration is      *)
(* exported.                                                               *)
(*                                                                         *)
(* A field holds "none" (an Option that is None), "empty" (a zero, an      *)
(* empty string or an empty list), "dflt" (the built-in default) or        *)
(* another value.  A document is a partial function from the keys it       *)
(* mentions to values; the loaded struct is total.  Reading and writing    *)
(* are separate code, so each has its own table.  A YAML struct reads its  *)
(* fields by their serde attributes:                                       *)
(*   req    no default: a document without the key does not load           *)
(*   dfl    default = "...": the built-in default when omitted             *)
(*   opt    an Option: None when omitted                                   *)
(*   zero   serde(default): empty when omitted                             *)
(* with strict, whether deny_unknown_fields refuses a misspelled key.  The *)
(* conversion back writes every field except                               *)
(*   some      skipped when None                                           *)
(*   nonempty  skipped when empty, zero or false                           *)
(* and writes the default for an empty value of a fill field.              *)
(***************************************************************************)
EXTENDS Naturals, FiniteSets, Sequences, SequencesExt, Functions

Struct(strict, req, dfl, opt, zero) ==
    [strict |-> strict, req |-> req, dfl |-> dfl, opt |-> opt, zero |-> zero]

Fields(s) == s.req \cup s.dfl \cup s.opt \cup s.zero

Writes(some, nonempty, fill) ==
    [some |-> some, nonempty |-> nonempty, fill |-> fill]

-----------------------------------------------------------------------------
(* The structs.                                                            *)

TopLevel == {"listeners", "forward", "orchestrator", "events", "rhai", "pools",
             "control", "rules", "logging", "data_sources", "metrics",
             "tracing", "dataplane", "shutdown", "data_source_limits",
             "caches", "lookup", "acls"}

(* Sections a startup document always has, filled with their defaults.     *)
Materialised == {"listeners", "forward", "orchestrator", "events", "rhai",
                 "rules", "logging"}

ShutdownAndAcl ==
    [shutdown |-> Struct(TRUE, {}, {}, {"drain", "drain_timeout_ms"}, {}),
     logging |-> Struct(FALSE, {}, {"level", "output"}, {"query_access"}, {}),
     query_access |-> Struct(TRUE, {}, {}, {"acl_denied_sample"},
                             {"acl_denied"}),
     denied_sample |-> Struct(TRUE, {"mode"}, {}, {"rate", "nth"}, {}),
     acls |-> Struct(TRUE, {}, {"default_action"}, {}, {"rules"}),
     acl_rule |-> Struct(TRUE, {"match", "action"}, {}, {"tag"}, {})]

DataplaneAndRules ==
    [dataplane |-> Struct(FALSE, {}, {"runtime", "policy_workers",
                          "io_workers"}, {"slot_chunk_size"}, {}),
     rules |-> Struct(FALSE, {}, {"match_mode"}, {}, {"rules"}),
     rule |-> Struct(FALSE, {"name", "hook", "selectors", "actions"}, {}, {},
                     {}),
     selector |-> Struct(FALSE, {"type", "value"}, {}, {"key", "key_from"},
                         {}),
     action |-> Struct(FALSE, {"type"}, {}, {}, {"value"})]

ListenersAndForward ==
    [listeners |-> Struct(FALSE, {"listeners"}, {"threads", "reuse_port"}, {},
                          {"rcvbuf", "sndbuf"}),
     listener |-> Struct(FALSE, {"address", "protocol"}, {}, {"threads",
                         "reuse_port", "name", "rcvbuf", "acls"}, {}),
     forward |-> Struct(FALSE, {}, {"outstanding_per_backend", "timeout_ms",
                        "source_selection"}, {}, {"sources_v4", "sources_v6",
                        "upstream_transport", "client_tcp_uses_upstream_tcp"})]

OrchestratorAndEvents ==
    [orchestrator |-> Struct(FALSE, {}, {"max_attempts",
                             "max_txn_duration_ms", "txn_table_capacity"}, {},
                             {}),
     events |-> Struct(FALSE, {}, {"queue_depth", "drop_policy"}, {},
                       {"sinks"}),
     filters |-> Struct(FALSE, {}, {}, {"tag_required", "sample_percent",
                        "sample_key", "sample_key_from", "pool", "backend"},
                        {"selectors"}),
     connect_retry |-> Struct(FALSE, {}, {"jitter"}, {}, {"initial_ms",
                              "max_ms", "multiplier", "max_elapsed_ms"})]

DataSourcesAndRhai ==
    [data_source |-> Struct(TRUE, {"name", "type", "path"}, {},
                            {"max_file_bytes", "max_entries", "max_key_bytes",
                            "max_value_bytes"}, {"key_column",
                            "value_column"}),
     data_source_limits |-> Struct(TRUE, {}, {}, {}, {"max_file_bytes",
                                   "max_entries", "max_key_bytes",
                                   "max_value_bytes", "max_tables",
                                   "max_total_bytes"}),
     rhai |-> Struct(FALSE, {}, {"max_operations", "max_call_depth"}, {},
                     {"hook_timeout_ms"})]

PoolsAndBackends ==
    [pool |-> Struct(FALSE, {"name"}, {}, {"max_inflight", "health",
                     "remove"}, {"backends", "sources_v4", "sources_v6"}),
     health |-> Struct(TRUE, {}, {}, {"interval_ms", "timeout_ms", "rise",
                       "fall", "probe_qname", "probe_qtype", "initial_state",
                       "latency_weighting", "min_eligible",
                       "passive_fast_trip", "passive_fall"}, {"enabled",
                       "acceptable_rcodes"}),
     backend |-> Struct(FALSE, {}, {}, {"name", "weight", "probe_qname",
                        "probe_qtype", "probe_source", "transport", "remove"},
                        {"address"})]

MetricsStructs ==
    [metrics |-> Struct(FALSE, {}, {}, {"enabled", "categories",
                        "granularity", "event_export", "prometheus", "otel"},
                        {"profile", "base", "collection", "user_metrics"}),
     categories |-> Struct(FALSE, {}, {}, {"include", "exclude"}, {}),
     granularity |-> Struct(FALSE, {}, {}, {}, {"default", "overrides"}),
     collect_emit |-> Struct(FALSE, {}, {}, {"collect", "emit"}, {}),
     family |-> Struct(FALSE, {}, {}, {"dimensions"}, {"rcode"}),
     user_metric |-> Struct(FALSE, {"name"}, {}, {"collect", "emit"},
                            {"export", "help"}),
     prometheus |-> Struct(FALSE, {}, {}, {}, {"listen_address", "path"}),
     otel |-> Struct(FALSE, {}, {}, {"allow_invalid_certs", "push_interval_ms"},
                     {"endpoint", "resource_attributes", "headers"})]

TracingAndControl ==
    [tracing |-> Struct(FALSE, {}, {}, {}, {"enabled", "activation",
                        "output"}),
     activation |-> Struct(FALSE, {}, {}, {"tag", "sample_percent",
                           "sample_key", "sample_key_from"}, {"selectors"}),
     output |-> Struct(FALSE, {}, {}, {}, {"log_json"}),
     control |-> Struct(FALSE, {}, {"listen_address"}, {"tls"},
                        {"reflection_enabled", "api_keys"}),
     tls |-> Struct(FALSE, {"cert_path", "key_path"}, {},
                    {"client_ca_path"}, {})]

LookupAndCaches ==
    [lookup |-> Struct(FALSE, {}, {}, {}, {"profiles"}),
     provider |-> Struct(FALSE, {"type"}, {}, {"cache"}, {}),
     cache |-> Struct(FALSE, {"name", "type"}, {}, {"negative_cache",
                      "on_hit", "truncated_udp", "rotate_rrset_on_serve",
                      "memory", "lmdb", "key", "max_entries"}, {}),
     negative |-> Struct(FALSE, {}, {}, {"enabled",
                         "nxdomain_covers_descendants", "servfail_ttl_secs"},
                         {}),
     truncated_udp |-> Struct(FALSE, {}, {}, {"enabled", "ttl_secs"}, {}),
     on_hit |-> Struct(FALSE, {"response_rules"}, {}, {}, {}),
     key |-> Struct(FALSE, {}, {}, {"augment"}, {}),
     memory |-> Struct(FALSE, {}, {}, {"shard_count", "eviction"}, {}),
     lmdb |-> Struct(FALSE, {"path", "map_size"}, {}, {"when_full",
                     "sample_size", "shard_count", "sync", "sync_interval"},
                     {})]

Shapes == ShutdownAndAcl @@ DataplaneAndRules @@ ListenersAndForward
          @@ OrchestratorAndEvents @@ DataSourcesAndRhai @@ PoolsAndBackends
          @@ MetricsStructs @@ TracingAndControl @@ LookupAndCaches

-----------------------------------------------------------------------------
(* What the conversions back to YAML leave out.                            *)

WritesLogging ==
    [shutdown |-> Writes({"drain", "drain_timeout_ms"}, {}, {}),
     logging |-> Writes({"query_access"}, {}, {"level", "output"}),
     query_access |-> Writes({"acl_denied_sample"}, {"acl_denied"}, {}),
     denied_sample |-> Writes({"rate", "nth"}, {}, {}),
     acls |-> Writes({}, {}, {"default_action"}),
     acl_rule |-> Writes({"tag"}, {}, {})]

WritesRules ==
    [rules |-> Writes({}, {}, {}), rule |-> Writes({}, {}, {}),
     selector |-> Writes({"key", "key_from"}, {}, {}),
     action |-> Writes({}, {}, {}),
     dataplane |-> Writes({"slot_chunk_size"}, {}, {})]

WritesForward ==
    [listeners |-> Writes({}, {}, {}),
     listener |-> Writes({"threads", "reuse_port", "name", "rcvbuf", "acls"}, {},
                         {}),
     forward |-> Writes({}, {}, {"source_selection"}),
     orchestrator |-> Writes({}, {}, {}), events |-> Writes({}, {}, {})]

WritesEvents ==
    [filters |-> Writes({"sample_key", "sample_key_from"}, {}, {}),
     connect_retry |-> Writes({}, {}, {}), sink |-> Writes({}, {"export_id"}, {})]

WritesSources ==
    [rhai |-> Writes({}, {}, {}),
     data_source |-> Writes({"max_file_bytes", "max_entries", "max_key_bytes",
                             "max_value_bytes"}, {}, {}),
     data_source_limits |-> Writes({}, {"max_file_bytes", "max_entries",
                                        "max_key_bytes", "max_value_bytes",
                                        "max_tables", "max_total_bytes"}, {})]

WritesHealth ==
    [health |-> Writes({"interval_ms", "timeout_ms", "rise", "fall", "probe_qname",
                        "probe_qtype", "initial_state", "latency_weighting",
                        "min_eligible", "passive_fast_trip", "passive_fall"},
                       {"acceptable_rcodes"}, {})]

WritesMetrics ==
    [metrics |-> Writes({"enabled", "categories", "granularity", "event_export"},
                        {"profile", "base", "collection"}, {}),
     categories |-> Writes({"include", "exclude"}, {}, {}),
     granularity |-> Writes({}, {"default", "overrides"}, {}),
     collect_emit |-> Writes({"collect", "emit"}, {}, {}),
     family |-> Writes({"dimensions"}, {"rcode"}, {}),
     user_metric |-> Writes({"collect", "emit"}, {"export", "help"}, {}),
     prometheus |-> Writes({}, {"listen_address", "path"}, {}),
     otel |-> Writes({"allow_invalid_certs", "push_interval_ms"},
                     {"endpoint", "resource_attributes", "headers"}, {})]

WritesTracing ==
    [tracing |-> Writes({}, {}, {}),
     activation |-> Writes({"sample_key", "sample_key_from"}, {}, {}),
     output |-> Writes({}, {}, {})]

WritesControl ==
    [control |-> Writes({"tls"}, {"reflection_enabled", "api_keys"}, {}),
     tls |-> Writes({"client_ca_path"}, {}, {})]

WritesCaches ==
    [lookup |-> Writes({}, {"profiles"}, {}),
     provider |-> Writes({"cache"}, {}, {}),
     cache |-> Writes({"negative_cache", "on_hit", "truncated_udp",
                       "rotate_rrset_on_serve", "memory", "lmdb", "key",
                       "max_entries"}, {}, {}),
     negative |-> Writes({"enabled", "nxdomain_covers_descendants",
                          "servfail_ttl_secs"}, {}, {}),
     truncated_udp |-> Writes({"enabled", "ttl_secs"}, {}, {}),
     on_hit |-> Writes({}, {}, {}), key |-> Writes({"augment"}, {}, {}),
     memory |-> Writes({"shard_count", "eviction"}, {}, {}),
     lmdb |-> Writes({"when_full", "sample_size", "shard_count", "sync",
                      "sync_interval"}, {}, {})]

WritesPools ==
    [pool |-> Writes({"max_inflight", "health", "remove"}, {}, {}),
     backend |-> Writes({"name", "weight", "probe_qname", "probe_qtype",
                         "probe_source", "transport", "remove"}, {}, {})]

Written == WritesLogging @@ WritesRules @@ WritesForward @@ WritesEvents
           @@ WritesSources @@ WritesHealth @@ WritesMetrics @@ WritesTracing
           @@ WritesControl @@ WritesCaches @@ WritesPools

-----------------------------------------------------------------------------
(* Loading a document, and writing a loaded struct back.                   *)

(* serde refuses a missing key without a default and, in a strict struct, a*)
(* key the struct does not have.                                           *)
Loads(s, doc) ==
    /\ s.req \subseteq DOMAIN doc
    /\ s.strict => DOMAIN doc \subseteq Fields(s)

Omitted(s, f) == CASE f \in s.dfl -> "dflt"
                   [] f \in s.opt -> "none"
                   [] f \in s.zero -> "empty"

(* The From<Yaml...> conversions copy field by field.                      *)
LoadStruct(s, doc) ==
    [f \in Fields(s) |-> IF f \in DOMAIN doc THEN doc[f] ELSE Omitted(s, f)]

(* The From<&...> conversions write what the table does not leave out.     *)
ExportStruct(s, w, v) ==
    LET kept == {f \in Fields(s) : /\ f \in w.some => v[f] # "none"
                                   /\ f \in w.nonempty => v[f] # "empty"}
    IN  [f \in kept |-> IF f \in w.fill /\ v[f] = "empty" THEN "dflt" ELSE v[f]]

(* A list that may be left unset is loaded as the list and a flag.         *)
Flagged(x) == [set |-> x # "none", list |-> IF x = "none" THEN "empty" ELSE x]
Unflagged(p) == IF p.set THEN p.list ELSE "none"
Flags == [categories |-> {"include", "exclude"}, family |-> {"dimensions"}]

(* An Option that is loaded as zero or "" when it is None.                 *)
Unwrapped == {"push_interval_ms", "client_ca_path"}

UnwrapOrDefault(v) ==
    [f \in DOMAIN v |-> IF f \in Unwrapped /\ v[f] = "none" THEN "empty" ELSE v[f]]

NoneIfEmpty(v) ==
    [f \in DOMAIN v |-> IF f \in Unwrapped /\ v[f] = "empty" THEN "none" ELSE v[f]]

LoadMetrics(name, doc) ==
    LET v == UnwrapOrDefault(LoadStruct(Shapes[name], doc))
    IN  IF name \notin DOMAIN Flags THEN v
        ELSE [f \in DOMAIN v |-> IF f \in Flags[name] THEN Flagged(v[f]) ELSE v[f]]

ExportMetrics(name, v) ==
    ExportStruct(Shapes[name], Written[name],
        IF name \notin DOMAIN Flags THEN NoneIfEmpty(v)
        ELSE [f \in DOMAIN v |-> IF f \in Flags[name] THEN Unflagged(v[f]) ELSE v[f]])

(* A tracing section without activation or output is written with both,    *)
(* holding their defaults.                                                 *)
TracingParts == {"activation", "output"}

ExportTracing(v) ==
    ExportStruct(Shapes.tracing, Written.tracing,
        [f \in DOMAIN v |-> IF f \in TracingParts /\ v[f] = "none" THEN "empty" ELSE v[f]])

LoadControl(name, doc) == UnwrapOrDefault(LoadStruct(Shapes[name], doc))
ExportControl(name, v) == ExportStruct(Shapes[name], Written[name], NoneIfEmpty(v))

(* remove: false is the same as no marker, and no marker is ever exported. *)
NoMarker(v) == [v EXCEPT !.remove = IF @ = "true" THEN @ ELSE "none"]
LoadPool(doc) == NoMarker(LoadStruct(Shapes.pool, doc))
LoadBackend(doc) == NoMarker(LoadStruct(Shapes.backend, doc))

ExportPool(v) == ExportStruct(Shapes.pool, Written.pool, [v EXCEPT !.remove = "none"])

(* A backend whose weight is the default is exported without one.          *)
ExportBackend(v) ==
    ExportStruct(Shapes.backend, Written.backend,
        [v EXCEPT !.remove = "none", !.weight = IF @ = "dflt" THEN "none" ELSE @])

(* resolve_sink_identity: name and export_id default to each other.        *)
SinkIdentity(v) ==
    LET name == IF v.name = "none" THEN "empty" ELSE v.name
    IN  [name |-> IF name = "empty" THEN v.export_id ELSE name,
         export_id |-> IF v.export_id = "empty" THEN name ELSE v.export_id]

SinkShape == Struct(FALSE, {"type"}, {}, {"name", "connect_retry", "filters"},
                    {"export_id", "destinations", "emit", "extra_fields",
                     "extra_tags"})

NoFilters == [f \in Fields(Shapes.filters) |-> "none"]

(* yaml_event_filters_nonempty: filters that filter nothing load as none.  *)
FiltersNonempty(f) ==
    \/ f.tag_required # "none" \/ f.selectors # "empty"
    \/ f.sample_percent # "none"
    \/ \E k \in {"sample_key", "sample_key_from", "pool", "backend"} :
          f[k] \notin {"none", "empty"}

LoadFilters(doc) ==
    LET f == LoadStruct(Shapes.filters, doc)
    IN  IF FiltersNonempty(f) THEN f ELSE NoFilters

(* The wire identity is written once when both halves agree.               *)
ExportSink(v) ==
    LET id == SinkIdentity(v)
        w == IF id.name = "empty" THEN v
             ELSE [v EXCEPT !.name = id.name,
                            !.export_id = IF id.name = id.export_id THEN "empty"
                                          ELSE id.export_id]
    IN  ExportStruct(SinkShape, Written.sink, w)

(* lmdb.map_size is read as bytes or with an SI suffix and written as      *)
(* bytes; a suffix that does not parse fails the whole load.               *)
LmdbLoads(doc) == Loads(Shapes.lmdb, doc) /\ doc.map_size # "2MiB"

LoadLmdb(doc) ==
    LET v == LoadStruct(Shapes.lmdb, doc)
    IN  [v EXCEPT !.map_size = IF @ = "2MB" THEN "2000000" ELSE @]

(* key.augment is a marker: whatever it held, only its presence is kept.   *)
LoadCaches(name, doc) ==
    LET v == LoadStruct(Shapes[name], doc)
    IN  CASE name = "lmdb" -> LoadLmdb(doc)
          [] name = "key" -> [v EXCEPT !.augment = IF @ = "none" THEN @ ELSE "empty"]
          [] OTHER -> v

-----------------------------------------------------------------------------
(* The document as a whole.  A section is a value of its own; "omitted" is *)
(* one the document does not mention.                                      *)

(* load_yaml: the materialised sections are always there.                  *)
LoadYaml(doc) ==
    [x \in TopLevel |-> IF doc[x] = "omitted"
                        THEN IF x \in Materialised THEN "dflt" ELSE "none"
                        ELSE doc[x]]

(* load_overlay_patch: what the patch does not mention stays unset.        *)
LoadOverlay(doc) ==
    [x \in TopLevel |-> IF doc[x] = "omitted" THEN "none" ELSE doc[x]]

(* config_to_yaml: these sections are left out when they hold their        *)
(* defaults; control, metrics, tracing and acls never are, since there a   *)
(* missing section and a default one mean different things.                *)
Elided == {"listeners", "forward", "orchestrator", "events", "rhai", "dataplane",
           "shutdown", "data_source_limits", "lookup"}

ConfigToYaml_Elides(cfg) ==
    [x \in TopLevel |-> IF cfg[x] \in {"none", "dflt"} THEN "omitted" ELSE cfg[x]]

ConfigToYaml(cfg) ==
    [x \in TopLevel |-> IF cfg[x] = "none" \/ (x \in Elided /\ cfg[x] = "dflt")
                        THEN "omitted" ELSE cfg[x]]

-----------------------------------------------------------------------------
(* What a value means to the code that compiles it: an absent weight is    *)
(* the default one, an empty "fill" field its default, a tracing section's *)
(* missing part its defaults, and a materialised or elided section that is *)
(* missing has its defaults.                                               *)
Means(name, v) ==
    [f \in Fields(Shapes[name]) \ {"remove"} |->
        IF (f \in Written[name].fill /\ v[f] = "empty") \/ (f = "weight" /\ v[f] = "none")
        THEN "dflt"
        ELSE IF f \in TracingParts /\ v[f] = "none" THEN "empty" ELSE v[f]]

SectionMeans(x, v) ==
    IF v = "none" /\ x \in Materialised \cup Elided THEN "dflt" ELSE v

Export(name, v) == CASE name = "pool" -> ExportPool(v)
                     [] name = "backend" -> ExportBackend(v)
                     [] name = "tracing" -> ExportTracing(v)
                     [] name \in DOMAIN WritesMetrics -> ExportMetrics(name, v)
                     [] name \in DOMAIN WritesControl -> ExportControl(name, v)
                     [] OTHER -> ExportStruct(Shapes[name], Written[name], v)

Load(name, doc) == CASE name = "pool" -> LoadPool(doc)
                     [] name = "backend" -> LoadBackend(doc)
                     [] name \in DOMAIN WritesMetrics -> LoadMetrics(name, doc)
                     [] name \in DOMAIN WritesControl -> LoadControl(name, doc)
                     [] name \in DOMAIN WritesCaches -> LoadCaches(name, doc)
                     [] name = "filters" -> LoadFilters(doc)
                     [] OTHER -> LoadStruct(Shapes[name], doc)

Accepts(name, doc) == IF name = "lmdb" THEN LmdbLoads(doc)
                      ELSE Loads(Shapes[name], doc)

(* Field values a running struct can have, at most two of them away from a *)
(* uniform one: every conversion looks at one field, or at two.            *)
FieldValues(name, f) ==
    IF f = "remove" THEN {"none"}
    ELSE IF f = "augment" THEN {"none", "empty"}
    ELSE IF name = "tracing" /\ f \in TracingParts THEN {"none", "empty", "a"}
    ELSE IF f \in Unwrapped THEN {"empty", "dflt", "a"}
    ELSE IF name \in DOMAIN Flags /\ f \in {"include", "exclude", "dimensions"}
      THEN {Flagged(x) : x \in {"none", "empty", "a"}}
    ELSE IF f \in Shapes[name].opt THEN {"none", "empty", "dflt", "a"}
    ELSE IF f \in Shapes[name].req THEN {"a"} ELSE {"empty", "dflt", "a"}

Samples(name) ==
    LET fields == Fields(Shapes[name])
        Uniform(x) == [f \in fields |->
            IF name \notin DOMAIN Flags /\ x \in FieldValues(name, f) THEN x
            ELSE CHOOSE y \in FieldValues(name, f) : TRUE]
        bases == {Uniform(x) : x \in {"none", "empty", "dflt", "a"}}
        all == UNION {UNION {{[b EXCEPT ![f] = x] : x \in FieldValues(name, f)} :
                      f \in fields} : b \in bases}
    IN  IF name = "filters" THEN {v \in all : FiltersNonempty(v)} ELSE all

SinkSamples == [type : {"a"}, name : {"none", "empty", "a", "b"},
                connect_retry : {"none", "a"}, filters : {"none"},
                export_id : {"empty", "a", "b"}, destinations : {"a"},
                emit : {"empty", "a"}, extra_fields : {"empty"},
                extra_tags : {"empty"}]

SectionSamples == UNION {{[y \in TopLevel |-> IF y = x THEN v ELSE "none"] :
                          v \in {"none", "dflt", "a"}} : x \in TopLevel}

(* Exporting the running configuration and loading the document again      *)
(* changes nothing: the document loads, and every struct, section and sink *)
(* identity means what it meant.  This is the promise behind editing an    *)
(* exported file and reloading it; it fails as soon as a default is left   *)
(* out on one side that the other side does not fill in.                   *)
RoundTrips ==
    /\ \A name \in DOMAIN Shapes : \A v \in Samples(name) :
          LET doc == Export(name, v)
          IN  /\ Accepts(name, doc)
              /\ Means(name, Load(name, doc)) = Means(name, v)
    /\ \A v \in SinkSamples :
          SinkIdentity(LoadStruct(SinkShape, ExportSink(v))) = SinkIdentity(v)
    /\ \A cfg \in SectionSamples : \A x \in TopLevel :
          /\ SectionMeans(x, LoadYaml(ConfigToYaml(cfg))[x])
                = SectionMeans(x, cfg[x])
          /\ LoadOverlay(ConfigToYaml(cfg))[x] \in {cfg[x], "none"}

=============================================================================
