----------------------------- MODULE MetricsPlan -----------------------------
(***************************************************************************)
(* How the metrics section of the configuration becomes a plan: which      *)
(* categories are active, which are collected and emitted, which label     *)
(* dimensions each family carries (conduit-metrics plan.rs), and how the   *)
(* user metrics that scripts declare are bound to it (conduit-script       *)
(* metrics.rs, conduit-metrics consumer.rs).  Optional values are          *)
(* sequences of length at most one.  Warnings, which change nothing, are   *)
(* left out.                                                               *)
(***************************************************************************)
EXTENDS Naturals, Sequences, FiniteSets, SequencesExt

Categories == {"volume", "failures", "lookup", "timing", "cache_detail", "forward_detail",
               "health", "runtime", "topology", "process", "meta"}
Granularities == {"coarse", "balanced", "fine"}
RcodeModes == {"coarse", "iana"}

OrElse(option, default) == IF option = <<>> THEN default ELSE option[1]
ErrorIf(error, cond) == IF cond THEN {error} ELSE {}

-----------------------------------------------------------------------------
(* The preset tables.                                                       *)

ExpandBase(base) ==
    CASE base = "none" -> {}
      [] base = "minimal" -> {"volume", "failures", "lookup", "health", "topology", "meta"}
      [] OTHER -> Categories

DefaultGranularityForBase(base) == IF base = "minimal" THEN "coarse" ELSE "fine"
DefaultResponsesRcode(g) == IF g = "fine" THEN "iana" ELSE "coarse"

AllowedDimensions ==
    [volume |-> <<"listener", "protocol", "qtype", "qclass", "ip_family">>,
     responses |-> <<"listener", "protocol", "rcode", "ip_family", "answer_source">>,
     timing |-> <<"pool", "backend">>,
     forward_failures |-> <<"pool", "backend", "reason">>,
     acl |-> <<"tier", "action", "listener", "ip_family">>,
     cache_lookup |-> <<"cache", "profile", "result">>]
Families == DOMAIN AllowedDimensions

NormalizeDimensions(family, provided) ==
    SelectSeq(AllowedDimensions[family], LAMBDA dim : dim \in provided)

(* The dimensions a preset leaves out of a family's vocabulary.            *)
PresetFamilyDimensions(family, g) ==
    LET dropped ==
        [volume |-> [coarse |-> {"qtype", "qclass", "ip_family"},
                     balanced |-> {"qclass", "ip_family"}, fine |-> {}],
         responses |-> [coarse |-> {"ip_family"}, balanced |-> {"ip_family"}, fine |-> {}],
         timing |-> [coarse |-> {"pool", "backend"}, balanced |-> {"backend"}, fine |-> {}],
         forward_failures |-> [coarse |-> {}, balanced |-> {"backend"}, fine |-> {}],
         acl |-> [coarse |-> {"ip_family"}, balanced |-> {"ip_family"}, fine |-> {}],
         cache_lookup |-> [coarse |-> {}, balanced |-> {}, fine |-> {}]]
    IN NormalizeDimensions(family, ToSet(AllowedDimensions[family]) \ dropped[family][g])

-----------------------------------------------------------------------------
(* resolve_metrics_plan.                                                    *)

DisabledPlan ==
    [enabled |-> FALSE, categories |-> {}, collect |-> {}, emit |-> {}, granularity |-> "fine",
     dimensions |-> [f \in Families |-> <<>>], rcode |-> "iana",
     event_export |-> [collect |-> FALSE, emit |-> FALSE], user_metrics |-> << >>]

(* An enabled section whose profile alias is "off" counts as disabled.     *)
Enabled(m) == OrElse(m.enabled, FALSE) /\ m.profile # "off"

Base(m) == IF m.base # "" THEN m.base
           ELSE IF m.profile = "minimal" THEN "minimal" ELSE "standard"

ResolveCategories_ExcludeFirst(m) ==
    (ExpandBase(Base(m)) \ m.exclude) \cup (m.include \cap Categories)
ResolveCategories(m) ==
    (ExpandBase(Base(m)) \cup (m.include \cap Categories)) \ m.exclude

Granularity(m) == IF m.granularity \in Granularities THEN m.granularity
                  ELSE DefaultGranularityForBase(Base(m))

(* m.overrides: family -> [dims: optional set, rcode: string]; an explicit *)
(* empty list is an override too.                                          *)
OverrideErrors(m) ==
    UNION {LET o == m.overrides[f]
           IN IF f \notin Families THEN {"family"}
              ELSE ErrorIf("dimension", ~ OrElse(o.dims, {}) \subseteq ToSet(AllowedDimensions[f]))
                   \cup ErrorIf("rcode", o.rcode # "" /\ (f # "responses" \/ o.rcode \notin RcodeModes))
           : f \in DOMAIN m.overrides}

FamilyDimensions(m) ==
    [f \in Families |->
        IF f \in DOMAIN m.overrides /\ m.overrides[f].dims # <<>>
        THEN NormalizeDimensions(f, m.overrides[f].dims[1])
        ELSE PresetFamilyDimensions(f, Granularity(m))]

ResponsesRcode(m) ==
    IF "responses" \in DOMAIN m.overrides /\ m.overrides["responses"].rcode # ""
    THEN m.overrides["responses"].rcode ELSE DefaultResponsesRcode(Granularity(m))

(* A pair of collect and emit switches: both default to on, and emitting   *)
(* what is not collected is refused.                                       *)
Switches(ce) == [collect |-> OrElse(ce.collect, TRUE), emit |-> OrElse(ce.emit, TRUE)]
Contradictory(s) == ~s.collect /\ s.emit

CollectionErrors(m) ==
    UNION {IF c \notin Categories THEN {"collection"}
           ELSE ErrorIf("collect", Contradictory(Switches(m.collection[c])))
           : c \in DOMAIN m.collection}

On(m, switch) == {c \in Categories : c \in DOMAIN m.collection => Switches(m.collection[c])[switch]}

UserMetricMode(m, u) ==
    LET tier == Granularity(m) = "fine"
    IN IF u.collect # <<>> \/ u.emit # <<>> THEN Switches(u)
       ELSE IF u.export = "minimal" THEN [collect |-> TRUE, emit |-> TRUE]
       ELSE [collect |-> tier, emit |-> tier]

UserMetricErrors(m) ==
    UNION {LET u == m.user_metrics[i]
           IN ErrorIf("name", u.name = "")
                \cup ErrorIf("duplicate", \E j \in 1..i-1 : m.user_metrics[j].name = u.name)
                \cup ErrorIf("export", u.export \notin {"", "minimal", "full"})
                \cup ErrorIf("collect", Contradictory(UserMetricMode(m, u)))
           : i \in DOMAIN m.user_metrics}

PlanErrors(m) ==
    ErrorIf("profile", m.profile \notin {"", "minimal", "full"})
        \cup ErrorIf("base", Base(m) \notin {"none", "minimal", "standard"})
        \cup ErrorIf("category", ~ m.include \cup m.exclude \subseteq Categories)
        \cup ErrorIf("empty", ResolveCategories(m) = {})
        \cup ErrorIf("granularity", m.granularity \notin {""} \cup Granularities)
        \cup OverrideErrors(m) \cup CollectionErrors(m) \cup UserMetricErrors(m)
        \cup ErrorIf("event_export", Contradictory(Switches(m.event_export)))

(* The result is <<plan>>, or <<>> when the section is refused.            *)
ResolveMetricsPlan(m) ==
    IF ~Enabled(m) THEN <<DisabledPlan>>
    ELSE IF PlanErrors(m) # {} THEN <<>>
    ELSE <<[enabled |-> TRUE, categories |-> ResolveCategories(m),
            collect |-> On(m, "collect"), emit |-> On(m, "emit"),
            granularity |-> Granularity(m), dimensions |-> FamilyDimensions(m),
            rcode |-> ResponsesRcode(m), event_export |-> Switches(m.event_export),
            user_metrics |-> [n \in {u.name : u \in ToSet(m.user_metrics)} |->
                UserMetricMode(m, CHOOSE u \in ToSet(m.user_metrics) : u.name = n)]]>>

-----------------------------------------------------------------------------
(* What a plan says of one category, user metric or exported family.       *)

CollectFor(plan, c) == plan.enabled /\ c \in plan.categories \cap plan.collect
EmitFor(plan, c) == plan.enabled /\ c \in plan.categories \cap plan.emit

UserStandardTier(plan) == plan.enabled /\ plan.granularity = "fine"
UserFor(plan, name, switch) ==
    /\ plan.enabled
    /\ IF name \in DOMAIN plan.user_metrics THEN plan.user_metrics[name][switch]
       ELSE UserStandardTier(plan)

-----------------------------------------------------------------------------
(* The user metrics of the scripts.  A site is one call found by scanning  *)
(* a script: [name, keys, write].                                          *)

DisallowedLabelKeys == {"qname", "client", "client_ip", "client_addr", "backend", "txn_id", "dns_id",
                        "address", "ip", "host", "query", "zone", "fqdn"}

(* register: every site of a metric names the same label keys.             *)
RegisterErrors(sites) ==
    ErrorIf("label key", \E s \in sites : s.keys \cap DisallowedLabelKeys # {})
        \cup ErrorIf("conflict", \E s, r \in sites : r.name = s.name /\ r.keys # s.keys)

(* check_consumer_dependencies: a script may not read what is not          *)
(* collected; writes that are recorded or exported nowhere draw a warning. *)
ConsumerErrors(sites, plan) ==
    ErrorIf("consumer", plan.enabled /\ \E s \in sites : ~s.write /\ ~UserFor(plan, s.name, "collect"))

(* apply_from_plan: every listed user metric is one a script registers,    *)
(* and each registered one takes its switches from the plan.               *)
ApplyFromPlan(sites, m, plan) ==
    IF \E u \in ToSet(m.user_metrics) : u.name \notin {s.name : s \in sites} THEN <<>>
    ELSE <<[n \in {s.name : s \in sites} |->
            [keys |-> (CHOOSE s \in sites : s.name = n).keys,
             collect |-> UserFor(plan, n, "collect"), emit |-> UserFor(plan, n, "emit")]]>>

(* The registry a snapshot is built with, <<>> when the build is refused.  *)
ScriptMetrics(sites, m) ==
    LET plan == ResolveMetricsPlan(m)
    IN IF plan = <<>> THEN <<>>
       ELSE IF RegisterErrors(sites) \cup ConsumerErrors(sites, plan[1]) # {} THEN <<>>
       ELSE ApplyFromPlan(sites, m, plan[1])

(* validate_runtime_labels                                                 *)
RuntimeLabelsOk(registry, name, keys) ==
    name \in DOMAIN registry /\ keys \subseteq registry[name].keys \ DisallowedLabelKeys
=============================================================================
