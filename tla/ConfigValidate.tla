---------------------------- MODULE ConfigValidate ----------------------------
(***************************************************************************)
(* What validate accepts (conduit-config/src/validate.rs and the files it  *)
(* calls) and what the snapshot build then compiles from it                *)
(* (forward.rs, health.rs, lookup.rs, conduit-events/src/compile.rs).  At  *)
(* startup a compile error is a panic, so the two must agree.              *)
(*                                                                         *)
(* Options are sequences of at most one element.  Of a text only what the  *)
(* code tells apart is kept: an address is "", "v4", "v6" or "junk", an    *)
(* enumeration one of its spellings or "typo".                             *)
(***************************************************************************)
EXTENDS LookupCompile

-----------------------------------------------------------------------------
(***************************************************************************)
(* Selectors as they are written in the configuration                      *)
(* (conduit-events/src/selectors.rs): the checks validate makes on one and *)
(* the compilation every snapshot build makes of it.  Rules, event sinks   *)
(* and the tracing activation share both, in the contexts "rule", "sink"   *)
(* and "trace".                                                            *)
(*                                                                         *)
(* A selector is [type, value, key, key_from].  A value is "legal" or      *)
(* "illegal" for its type (a name the wire tables know, a percentage in    *)
(* [0, 100], a count of at least one), or "blank": empty or white space.   *)
(* An unset key or key_from is "".                                         *)
(***************************************************************************)

SelectorTypes == {"qname_suffix", "qname_exact", "qtype", "rcode", "qclass",
                  "opcode", "edns_option", "tag", "answer_source",
                  "cache_instance", "sample_percent", "every_nth_worker",
                  "every_nth_global", "client_cidr"}

RuleOnly == {"every_nth_worker", "every_nth_global", "client_cidr"}

WireTyped == {"qtype", "rcode", "qclass", "opcode", "edns_option",
              "answer_source"}

Contexts == {"rule", "sink", "trace"}

(* validate_selector_type and, outside rules, validate_non_rule_...        *)
TypeAllowed(type, ctx) ==
    /\ type \in SelectorTypes
    /\ ctx # "rule" => type \notin RuleOnly

ValidateWireValue(sel) == sel.type \in WireTyped => sel.value = "legal"

(* validate_sample_key_from: rule_name belongs to rules, sink_name to      *)
(* sinks.                                                                  *)
KeyFromAllowed(from, ctx) ==
    \/ from = "qname"
    \/ from = "rule_name" /\ ctx = "rule"
    \/ from = "sink_name" /\ ctx = "sink"

ValidateKeyFields(key, from, ctx) ==
    /\ key = "" \/ from = ""
    /\ from # "" => KeyFromAllowed(from, ctx)

(* validate_selector_sample_key_fields                                     *)
ValidateSampleKey(sel, ctx) ==
    IF sel.type = "sample_percent" THEN ValidateKeyFields(sel.key, sel.key_from, ctx)
    ELSE sel.key = "" /\ sel.key_from = ""

(* What validate asks of one selector.  A rule's client_cidr must name one *)
(* of the cidr data sources; only rules ask for a legal every_nth count,   *)
(* since the other contexts refuse the type.                               *)
ValidateSelector(sel, ctx, cidrNames) ==
    /\ TypeAllowed(sel.type, ctx)
    /\ ValidateWireValue(sel)
    /\ sel.type = "sample_percent" => sel.value = "legal"
    /\ ValidateSampleKey(sel, ctx)
    /\ sel.type \in {"every_nth_worker", "every_nth_global"} => sel.value = "legal"
    /\ sel.type = "client_cidr" => sel.value \in cidrNames

(* compile_sample_key_fields and compile_sample_key_from: the salt of a    *)
(* sampling decision.                                                      *)
CompileSampleKey(key, from, ctx) ==
    CASE key # "" /\ from # "" -> "error"
      [] key # "" /\ from = "" -> "literal"
      [] key = "" /\ from = "" -> "global"
      [] key = "" /\ from = "qname" -> "from_qname"
      [] key = "" /\ from = "rule_name" /\ ctx = "rule" -> "literal"
      [] key = "" /\ from = "sink_name" /\ ctx = "sink" -> "literal"
      [] OTHER -> "error"

(* CompiledSelector::compile.  An unknown type compiles as a suffix.       *)
CompileSelector(sel, ctx) ==
    /\ sel.type \in WireTyped \cup {"every_nth_worker", "every_nth_global"} =>
          sel.value = "legal"
    /\ sel.type \in {"cache_instance", "client_cidr"} => sel.value # "blank"
    /\ sel.type = "sample_percent" =>
          /\ sel.value = "legal"
          /\ CompileSampleKey(sel.key, sel.key_from, ctx) # "error"

SelectorSamples ==
    [type : SelectorTypes \cup {"typo"}, value : {"legal", "illegal", "blank"},
     key : {"", "k"}, key_from : {"", "qname", "rule_name", "sink_name", "typo"}]

-----------------------------------------------------------------------------
Distinct(list, F(_)) ==
    \A i, j \in DOMAIN list : F(list[i]) = F(list[j]) /\ F(list[i]) # "" => i = j

All(list, P(_)) == \A i \in DOMAIN list : P(list[i])

SocketAddr(a) == a \in {"v4", "v6"}
IpAddr(a) == a \in {"v4", "v6"}

-----------------------------------------------------------------------------
(* Listeners, dataplane, logging.                                          *)

(* resolve_listener_ingress: a listener's own setting, else the block's.   *)
ResolveIngress(block, ln) ==
    LET threads == Or(ln.threads, block.threads)
    IN  [threads |-> IF threads = 0 THEN 1 ELSE threads,
         reuse_port |-> Or(ln.reuse_port, block.reuse_port)]

ListenerOk(block, ln) ==
    /\ ln.address # "" /\ ln.threads # <<0>>
    /\ LET r == ResolveIngress(block, ln)
       IN  ln.protocol = "udp" /\ r.threads > 1 => r.reuse_port

ListenersOk(block) ==
    /\ block.threads > 0
    /\ All(block.listeners, LAMBDA ln : ListenerOk(block, ln))
    /\ Distinct(block.listeners, LAMBDA ln : ln.name)

(* effective_dataplane_runtime *)
Runtime(dp) == IF dp.runtime = "" THEN "sync" ELSE dp.runtime

DataplaneOk(dp) ==
    /\ Runtime(dp) \in {"sync", "split_io", "tokio"}
    /\ Runtime(dp) # "sync" => dp.policy_workers > 0 /\ dp.io_workers > 0
    /\ dp.slot_chunk_size # <<0>>

Levels == {"error", "warn", "info", "debug", "trace"}

DeniedSampleOk(s) ==
    \/ s.mode = "per_source" /\ Or(s.rate, 100) \in 0..100
    \/ s.mode = "every_nth" /\ Or(s.nth, 0) > 0

LoggingOk(l) ==
    /\ l.level \in Levels \cup {""}
    /\ l.output \in {"", "stderr", "stdout"}
    /\ l.query_access # <<>> =>
          /\ l.query_access[1].acl_denied \in Levels \cup {"", "off"}
          /\ All(l.query_access[1].sample, DeniedSampleOk)

-----------------------------------------------------------------------------
(* Forwarding and pools.                                                   *)

MaxSources == 32

ParseSources(list, family) ==
    Len(list) <= MaxSources /\ All(list, LAMBDA a : a = family)

ParseTransport(t) ==
    t \in {"", "udp_only", "tcp_only", "prefer_udp_with_tcp_fallback"}

ForwardOk(f) ==
    /\ f.source_selection \in {"", "round_robin"}
    /\ ParseSources(f.sources_v4, "v4") /\ ParseSources(f.sources_v6, "v6")
    /\ ParseTransport(f.upstream_transport)

UpstreamAddressesOk(pools) ==
    All(pools, LAMBDA p : All(p.backends, LAMBDA b : SocketAddr(b.address)))

(* effective_backend_weight: an absent weight is 100.                      *)
EffectiveBackendWeight(b) == Or(b.weight, 100)

PoolOk(p) ==
    /\ p.name # "" /\ p.backends # <<>>
    /\ All(p.backends, LAMBDA b : b.address # "" /\ EffectiveBackendWeight(b) > 0)
    /\ Distinct(p.backends, LAMBDA b : b.name)
    /\ ParseSources(p.sources_v4, "v4") /\ ParseSources(p.sources_v6, "v6")
    /\ p.max_inflight # <<0>>

PoolsOk(pools) == All(pools, PoolOk) /\ Distinct(pools, LAMBDA p : p.name)

(* CompiledForward::compile_from_config *)
CompileForward(f, pools) ==
    /\ UpstreamAddressesOk(pools)
    /\ ParseSources(f.sources_v4, "v4") /\ ParseSources(f.sources_v6, "v6")
    /\ f.source_selection \in {"", "round_robin"}
    /\ ParseTransport(f.upstream_transport)
    /\ All(pools, LAMBDA p : /\ ParseSources(p.sources_v4, "v4")
                             /\ ParseSources(p.sources_v6, "v6"))

-----------------------------------------------------------------------------
(* Health.  A name of the wire tables is "NS" or "typo"; blank is unset.   *)

ParseQtype(t) == t \in {"", "NS"}
ParseRcode(r) == r = "NOERROR"
ParseInitialState(s) ==
    s \in {"", "optimistic", "require_1_good", "require_full_rise"}

ProbeOk(b) ==
    ParseQtype(b.probe_qtype) /\ (b.probe_source = "" \/ IpAddr(b.probe_source))

HealthOk_ZeroRise(p) ==
    p.health # <<>> =>
        LET h == p.health[1]
        IN  /\ Or(h.interval_ms, 1000) >= 100
            /\ \A f \in {"timeout_ms", "fall", "passive_fall"} : h[f] # <<0>>
            /\ ParseQtype(h.probe_qtype) /\ All(h.acceptable_rcodes, ParseRcode)
            /\ ParseInitialState(h.initial_state)
            /\ All(p.backends, LAMBDA b : ProbeOk(b) /\ ParseTransport(b.transport))

(* validate_health: the surface is checked whether it is enabled or not.   *)
HealthOk(p) ==
    p.health # <<>> =>
        LET h == p.health[1]
        IN  /\ Or(h.interval_ms, 1000) >= 100
            /\ \A f \in {"timeout_ms", "rise", "fall", "passive_fall"} : h[f] # <<0>>
            /\ ParseQtype(h.probe_qtype) /\ All(h.acceptable_rcodes, ParseRcode)
            /\ ParseInitialState(h.initial_state)
            /\ All(p.backends, LAMBDA b : ProbeOk(b) /\ ParseTransport(b.transport))

(* compile_pool_health, for the pools whose health is enabled              *)
CompilePoolHealth(p) ==
    p.health # <<>> /\ p.health[1].enabled =>
        /\ ParseQtype(p.health[1].probe_qtype)
        /\ All(p.health[1].acceptable_rcodes, ParseRcode)
        /\ ParseInitialState(p.health[1].initial_state)
        /\ All(p.backends, LAMBDA b : SocketAddr(b.address) /\ ProbeOk(b))

(* The probe parameters it compiles to.                                    *)
ProbeTimes(h) ==
    LET interval == Or(h.interval_ms, 1000)
    IN  [interval |-> interval, timeout |-> Or(h.timeout_ms, interval),
         rise |-> Or(h.rise, 3), fall |-> Or(h.fall, 2),
         passive_fall |-> Or(h.passive_fall, 2)]

-----------------------------------------------------------------------------
(* Event sinks.  A destination is "unix" or "tcp" when it parses,          *)
(* "tcp:nohost" when only its prefix is right, or "junk".                  *)

ExtraFields == {"pool", "backend", "attempt_count", "txn_id", "qname", "rcode",
                "answer_source", "cache_instance", "tags", "client", "sink_name"}

(* resolve_sink_identity: each half defaults to the other.                 *)
ResolvedIdentity(s) ==
    [name |-> IF s.name # "" THEN s.name ELSE s.export_id,
     export_id |-> IF s.export_id # "" THEN s.export_id ELSE s.name]

ParseExtraFields(fields) == All(fields, LAMBDA f : f \in ExtraFields)

ParseExtraTags(tags, fields) ==
    tags = <<>> \/ /\ \E i \in DOMAIN fields : fields[i] = "tags"
                   /\ tags = <<"*">> \/ All(tags, LAMBDA t : t \notin {"*", ""})

(* ConnectRetryConfig::resolve and validate: zero asks for the default.    *)
ConnectRetryOk(r) == r # <<>> => r[1].multiplier = 0 \/ r[1].multiplier >= 1

SamplePercentOk(p) == Or(p, 100) \in 0..100

FiltersOk(f) ==
    /\ All(f.selectors, LAMBDA sel : ValidateSelector(sel, "sink", {}))
    /\ SamplePercentOk(f.sample_percent)
    /\ ValidateKeyFields(f.sample_key, f.sample_key_from, "sink")
    /\ f.pool # <<"">> /\ f.backend # <<"">>

SinkOk(s) ==
    /\ s.type = "dnstap" /\ ResolvedIdentity(s).name # ""
    /\ s.destinations # <<>> /\ All(s.destinations, LAMBDA d : d # "junk")
    /\ All(s.emit, LAMBDA e : e \in {"query", "response", "retry"})
    /\ ParseExtraFields(s.extra_fields) /\ ParseExtraTags(s.extra_tags, s.extra_fields)
    /\ ConnectRetryOk(s.connect_retry)
    /\ All(s.filters, FiltersOk)

EventsOk(e) ==
    /\ e.queue_depth > 0 /\ e.drop_policy \in {"drop_oldest", "drop_newest"}
    /\ All(e.sinks, SinkOk)
    /\ Distinct(e.sinks, LAMBDA s : ResolvedIdentity(s).name)
    /\ Distinct(e.sinks, LAMBDA s : ResolvedIdentity(s).export_id)

ParseDestination(d) == d \in {"unix", "tcp"}

(* parse_sink_filters *)
CompileFilters(f) ==
    /\ All(f.selectors, LAMBDA sel : TypeAllowed(sel.type, "sink"))
    /\ f.pool # <<"">> /\ f.backend # <<"">>
    /\ CompileSampleKey(f.sample_key, f.sample_key_from, "sink") # "error"
    /\ All(f.selectors, LAMBDA sel : CompileSelector(sel, "sink"))
    /\ SamplePercentOk(f.sample_percent)

(* compile_one_sink: an error here drops the sink without a word.          *)
CompileOneSink(s) ==
    /\ s.type = "dnstap" /\ ResolvedIdentity(s).name # ""
    /\ \E i \in DOMAIN s.destinations : ParseDestination(s.destinations[i])
    /\ All(s.filters, CompileFilters)
    /\ ParseExtraFields(s.extra_fields) /\ ParseExtraTags(s.extra_tags, s.extra_fields)
    /\ ConnectRetryOk(s.connect_retry)

(* normalize_emit: no kind asked for means queries and responses.          *)
NormalizeEmit(emit) ==
    LET asked == {emit[i] : i \in DOMAIN emit} \cap {"query", "response", "retry"}
    IN  IF asked = {} THEN {"query", "response"} ELSE asked

-----------------------------------------------------------------------------
(* Rules, data sources, acls.                                              *)

Actions == {"set_pool", "set_tag", "retry", "retry_now", "set_retry_pool", "drop",
            "drop_now", "clear_drop", "clear_retry", "clear_retry_pool",
            "clear_pool", "clear_tag", "set_rcode", "rhai", "set_source_v4",
            "set_source_v6", "set_retry_source_v4", "set_retry_source_v6",
            "clear_retry_source_v4", "clear_retry_source_v6"}

ResponseOnly == {"retry", "retry_now", "clear_retry", "set_rcode"}
RequestOnly == {"set_source_v4", "set_source_v6"}
NeedsValue == {"rhai", "set_retry_pool", "clear_tag", "set_source_v4",
               "set_source_v6", "set_retry_source_v4", "set_retry_source_v6"}
SetsSource == {"set_source_v4", "set_source_v6", "set_retry_source_v4",
               "set_retry_source_v6"}

(* configured_source_v4_addrs and v6: a list that does not parse           *)
(* contributes nothing.                                                    *)
ConfiguredSources(forward, pools, family, field) ==
    LET Of(list) == IF ParseSources(list, family) THEN {list[i] : i \in DOMAIN list}
                    ELSE {}
    IN  UNION {Of(x[field]) : x \in {forward} \cup {pools[i] : i \in DOMAIN pools}}

(* allowed is the set of configured source addresses.                      *)
ActionOk(act, hook, allowed) ==
    /\ act.type \in Actions
    /\ act.type \in ResponseOnly => hook = "response"
    /\ act.type \in RequestOnly => hook = "request"
    /\ act.type \in NeedsValue => act.value # ""
    /\ act.type = "set_rcode" => ParseRcode(act.value)
    /\ act.type \in SetsSource =>
          /\ act.value \in allowed
          /\ act.value = IF act.type \in {"set_source_v4", "set_retry_source_v4"}
                         THEN "v4" ELSE "v6"

RuleOk(rule, cidrNames, allowed) ==
    /\ rule.name # "" /\ rule.hook \in {"request", "response"}
    /\ All(rule.selectors, LAMBDA sel : ValidateSelector(sel, "rule", cidrNames))
    /\ All(rule.actions, LAMBDA act : ActionOk(act, rule.hook, allowed))

CidrNames(sources) ==
    {sources[i].name : i \in {j \in DOMAIN sources : sources[j].type = "cidr"}}

DataSourcesOk(sources, maxTables) ==
    /\ All(sources, LAMBDA d : d.name # "" /\ d.type \in {"csv", "cidr"} /\ d.path # "")
    /\ Distinct(sources, LAMBDA d : d.name)
    /\ maxTables > 0 => Len(sources) <= maxTables

AclBlockOk(acls, cidrNames) ==
    /\ acls.default_action \in {"allow", "deny", ""}
    /\ All(acls.rules, LAMBDA r :
               /\ r.match \in cidrNames \ {""}
               /\ \/ r.action \in {"drop", "refuse", "accept"} /\ r.tag = <<>>
                  \/ r.action = "tag" /\ r.tag \notin {<<>>, <<"">>})

(* CompiledRule::compile: the selectors; a failure is a panic.             *)
CompileRule(rule) == All(rule.selectors, LAMBDA sel : CompileSelector(sel, "rule"))

-----------------------------------------------------------------------------
(* validate, and the snapshot build of the document it accepted.           *)

Validate(d) ==
    LET allowed == ConfiguredSources(d.forward, d.pools, "v4", "sources_v4")
                   \cup ConfiguredSources(d.forward, d.pools, "v6", "sources_v6")
        cidrs == CidrNames(d.data_sources)
    IN  /\ d.version = 1
        /\ ListenersOk(d.listeners) /\ DataplaneOk(d.dataplane)
        /\ d.max_attempts > 0 /\ d.max_operations > 0 /\ SocketAddr(d.control)
        /\ ForwardOk(d.forward) /\ UpstreamAddressesOk(d.pools)
        /\ All(d.pools, HealthOk) /\ CompileLookup(d.lookup, d.caches)
        /\ PoolsOk(d.pools) /\ LoggingOk(d.logging) /\ EventsOk(d.events)
        /\ All(d.rules, LAMBDA rule : RuleOk(rule, cidrs, allowed))
        /\ DataSourcesOk(d.data_sources, d.max_tables)
        /\ AclBlockOk(d.acls, cidrs)
        /\ All(d.listeners.listeners, LAMBDA ln :
                  All(ln.acls, LAMBDA acls : AclBlockOk(acls, cidrs)))

(* The parts of RuntimeSnapshot::from_config_with_base that can fail.      *)
Build(d) ==
    /\ CompileForward(d.forward, d.pools)
    /\ All(d.pools, CompilePoolHealth)
    /\ CompileLookup(d.lookup, d.caches)
    /\ All(d.rules, CompileRule)
    /\ All(d.acls.rules, LAMBDA r : r.match \in CidrNames(d.data_sources))

-----------------------------------------------------------------------------
(* A valid document, and documents that differ from it in one section.     *)

Opt(S) == {<<>>} \cup {<<x>> : x \in S}

Backend1 == [address |-> "v4", name |-> "b", weight |-> <<>>, probe_qtype |-> "",
             probe_source |-> "", transport |-> ""]
Pool1 == [name |-> "p", backends |-> <<Backend1>>, sources_v4 |-> <<>>,
          sources_v6 |-> <<>>, max_inflight |-> <<>>, health |-> <<>>]
Sink1 == [type |-> "dnstap", name |-> "s", export_id |-> "", destinations |-> <<"unix">>,
          emit |-> <<"query">>, extra_fields |-> <<>>, extra_tags |-> <<>>,
          connect_retry |-> <<>>, filters |-> <<>>]
Document1 ==
    [version |-> 1,
     listeners |-> [threads |-> 1, reuse_port |-> FALSE, listeners |-> <<>>],
     dataplane |-> [runtime |-> "", policy_workers |-> 0, io_workers |-> 0,
                    slot_chunk_size |-> <<>>],
     max_attempts |-> 1, max_operations |-> 1, control |-> "v4", max_tables |-> 2,
     forward |-> [source_selection |-> "", sources_v4 |-> <<"v4">>,
                  sources_v6 |-> <<>>, upstream_transport |-> ""],
     pools |-> <<Pool1>>, caches |-> <<>>, lookup |-> <<>>,
     logging |-> [level |-> "", output |-> "", query_access |-> <<>>],
     events |-> [queue_depth |-> 1, drop_policy |-> "drop_oldest", sinks |-> <<>>],
     rules |-> <<>>, data_sources |-> <<[name |-> "legal", type |-> "cidr", path |-> "f"]>>,
     acls |-> [default_action |-> "allow", rules |-> <<>>]]

HealthSamples ==
    [enabled : BOOLEAN, interval_ms : Opt({99, 100}), timeout_ms : Opt({0, 50}),
     rise : Opt({0}), fall : {<<2>>}, passive_fall : Opt({0}),
     probe_qtype : {"", "typo"}, acceptable_rcodes : {<<>>, <<"typo">>},
     initial_state : {"optimistic", "typo"}]

PoolSamples ==
    {[Pool1 EXCEPT !.health = h] : h \in Opt(HealthSamples)}
    \cup {[Pool1 EXCEPT !.backends = <<b>>, !.sources_v4 = v4, !.health = h] :
             b \in [address : {"", "v4", "junk"}, name : {"", "b"}, weight : Opt({0, 5}),
                    probe_qtype : {"", "typo"}, probe_source : {"", "v6", "junk"},
                    transport : {"", "typo"}],
             v4 \in Opt({"v4", "v6"}),
             h \in {<<>>, <<[enabled |-> TRUE, interval_ms |-> <<>>, timeout_ms |-> <<>>,
                            rise |-> <<>>, fall |-> <<>>, passive_fall |-> <<>>,
                            probe_qtype |-> "", acceptable_rcodes |-> <<>>,
                            initial_state |-> ""]>>}}

CacheSamples ==
    [name : {"", "c"}, type : {"memory", "ebpf_map", "typo"}, lmdb : {<<>>},
     memory : Opt([shard_count : Opt({0, 4}), eviction : Opt({"active", "typo"})]),
     on_hit : Opt({"typo"}), truncated_udp : Opt([enabled : {<<TRUE>>}, ttl_secs : Opt({0, 1})])]
    \cup
    [name : {"c"}, type : {"lmdb"}, memory : {<<>>}, on_hit : {<<>>}, truncated_udp : {<<>>},
     lmdb : Opt([path : {"", "dir", "file"}, map_size : {0, 1},
                 when_full : Opt({"sample", "typo"}), sample_size : Opt({0}),
                 sync : Opt({"periodic"}), sync_interval : Opt({249, 250}),
                 shard_count : Opt({0, 1, 65})])]

SinkSamples ==
    {[Sink1 EXCEPT !.name = n, !.destinations = <<d>>, !.extra_fields = xf,
                   !.extra_tags = xt, !.connect_retry = r] :
        n \in {"", "s"}, d \in {"unix", "tcp:nohost", "junk"},
        xf \in {<<>>, <<"tags">>, <<"typo">>}, xt \in {<<>>, <<"*">>, <<"*", "t">>},
        r \in Opt([multiplier : {0, 1}])}
    \cup
    {[Sink1 EXCEPT !.filters = <<f>>] :
        f \in [selectors : {<<sel>> : sel \in {s \in SelectorSamples : s.key = ""}},
               sample_percent : Opt({101}), sample_key : {""},
               sample_key_from : {"", "sink_name", "rule_name"}, pool : Opt({""}),
               backend : {<<>>}]}

RuleSamples ==
    {[name |-> "r", hook |-> "request", selectors |-> <<sel>>, actions |-> <<>>] :
        sel \in SelectorSamples}
    \cup {[name |-> "r", hook |-> h, selectors |-> <<>>,
           actions |-> <<[type |-> t, value |-> v]>>] :
             h \in {"request", "response", "typo"}, t \in Actions \cup {"typo"},
             v \in {"", "v4", "v6", "NOERROR"}}

ListenerSamples ==
    [name : {"l"}, address : {"", "a"}, protocol : {"udp", "tcp"}, threads : Opt({0, 2}),
     reuse_port : Opt(BOOLEAN),
     acls : Opt({[default_action |-> "deny",
                  rules |-> <<[match |-> "typo", action |-> "drop", tag |-> <<>>]>>]})]

AclSamples ==
    {[default_action |-> da, rules |-> <<[match |-> m, action |-> a, tag |-> t]>>] :
        da \in {"", "deny", "typo"}, m \in {"", "legal", "typo"},
        a \in {"drop", "tag", "typo"}, t \in Opt({"", "t"})}

LookupSamples ==
    [{"default"} -> {<<>>} \cup {<<[type |-> t, cache |-> c]>> :
                                  t \in {"cache", "forward", "typo"}, c \in {"", "c", "x"}}]

MemoryCache1 == [name |-> "c", type |-> "memory", lmdb |-> <<>>, memory |-> <<>>,
                 on_hit |-> <<>>, truncated_udp |-> <<>>]

Inventory ==
    {[Document1 EXCEPT !.pools = <<p>>] : p \in PoolSamples}
    \cup {[Document1 EXCEPT !.forward.source_selection = x, !.forward.sources_v6 = v6,
                             !.forward.upstream_transport = t, !.dataplane.runtime = r,
                             !.control = c] :
             x \in {"", "typo"}, t \in {"udp_only", "typo"}, v6 \in Opt({"v4", "v6"}),
             r \in {"sync", "split_io", "typo"}, c \in {"v4", "junk"}}
    \cup {[Document1 EXCEPT !.caches = <<c>>] : c \in CacheSamples}
    \cup {[Document1 EXCEPT !.caches = <<MemoryCache1>>, !.lookup = l] :
             l \in Opt(LookupSamples)}
    \cup {[Document1 EXCEPT !.rules = <<r>>] : r \in RuleSamples}
    \cup {[Document1 EXCEPT !.listeners.listeners = <<ln>>] : ln \in ListenerSamples}
    \cup {[Document1 EXCEPT !.acls = a] : a \in AclSamples}
    \cup {[Document1 EXCEPT !.data_sources = @ \o <<[name |-> n, type |-> t, path |-> "f"]>>,
                             !.max_tables = m, !.logging.level = l] :
             n \in {"", "legal", "x"}, t \in {"csv", "typo"}, m \in {0, 1},
             l \in {"info", "typo"}}

(* A selector on the cache instance with nothing in it passes validate and *)
(* does not compile.                                                       *)
NamesItsCache(sel) == sel.type = "cache_instance" => sel.value # "blank"

-----------------------------------------------------------------------------
(* Startup calls the compilers with a panic behind them, and an apply that *)
(* fails in them is rejected after its overlay was committed, so whatever  *)
(* validate accepts must build: forwarding, upstream addresses, health     *)
(* with probe parameters that are never zero (a zero interval would spin,  *)
(* a zero rise or fall would flip at once), cache environments with a      *)
(* legal number of shards, rules, and every sink whose destination         *)
(* resolves.                                                               *)
ValidatedCompiles ==
    /\ Validate(Document1)
    /\ \A d \in Inventory :
          Validate(d) /\ All(d.rules, LAMBDA r : All(r.selectors, NamesItsCache)) =>
              /\ Build(d)
              /\ All(d.pools, LAMBDA p : All(p.health, LAMBDA h :
                        \A f \in DOMAIN ProbeTimes(h) : ProbeTimes(h)[f] > 0))
              /\ All(d.caches, LAMBDA c : c.type = "lmdb" =>
                        LmdbShards(c.lmdb, LookupThreads(Runtime(d.dataplane), 0, 0, <<>>))
                            \in 1..MaxLmdbShards)
    /\ \A s \in SinkSamples :
          /\ EventsOk([Document1.events EXCEPT !.sinks = <<s>>])
          /\ ParseDestination(s.destinations[1])
          /\ All(s.filters, LAMBDA f : All(f.selectors, NamesItsCache))
          => CompileOneSink(s) /\ NormalizeEmit(s.emit) # {}

=============================================================================
