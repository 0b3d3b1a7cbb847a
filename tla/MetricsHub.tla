------------------------------ MODULE MetricsHub ------------------------------
(***************************************************************************)
(* The metrics hub (conduit-metrics lib.rs, store.rs, builtin.rs,          *)
(* export.rs, user.rs): a process-wide store of series, a hot registry     *)
(* that every accepted configuration replaces, transactions that record    *)
(* through the registry they pinned when they began, and scrapes, each on  *)
(* a task of its own, that first bring the counters kept elsewhere up to   *)
(* date.  Registries are numbered by generation; an old one lives on while *)
(* a transaction or a scrape holds it.                                     *)
(***************************************************************************)
EXTENDS MetricsRegistry

CONSTANTS
    MetricScenes,   \* records of the sections to start with and to swap in, the
                    \* transactions, the metric calls found in the scripts, the
                    \* labels they pass, and the bounds on plan swaps, scrapes,
                    \* and exhaustions and transitions
    Scrapers        \* scraper -> "prometheus" or "otlp"

VARIABLES
    metrics,    \* the scene
    store,      \* counter series -> value (MetricStore)
    regs,       \* generation -> registry; the last one is hot
    truth,      \* the totals kept by the slot pool and the health registry
    pinned,     \* transaction -> [at, gen]
    scrape,     \* scraper -> its progress
    scrapes,    \* scrapes begun
    calls       \* transaction's completed record calls: <<family, generation>>, in order

metricsVars == <<metrics, store, regs, truth, pinned, scrape, scrapes, calls>>

Hot == Len(regs)
Plan(g) == regs[g].plan
MetricTxns == metrics.txns
Transitions == "backend_health_transitions_total"

(* The families whose values are followed.                                 *)
Tracked == {"queries_total", "responses_total", Transitions}
Series(plan) == {SeriesIdentity(plan, f) : f \in Registered(plan) \cap Tracked}

(* get_or_create_counter for every series of the new registry: a series    *)
(* that exists keeps its value.                                            *)
GetOrCreate_Fresh(plan, old) == [id \in DOMAIN old \cup Series(plan) |-> 0]
GetOrCreate(plan, old) ==
    [id \in DOMAIN old \cup Series(plan) |-> IF id \in DOMAIN old THEN old[id] ELSE 0]

(* The exhaustion counter and what was last synchronised into each counter *)
(* belong to the registry; the transitions counter is a series of the      *)
(* store.  User metrics live in a registry of their own per generation:    *)
(* one counter per label set, and a lock that a panic poisons.  One of the *)
(* gauge vectors stands for all that a scrape fills.                       *)
NewRegistry(m, plan, scripts) ==
    [section |-> m, plan |-> plan, scripts |-> scripts, exhausted |-> 0, exhaustionSynced |-> 0, transitionsSynced |-> 0,
     gauges |-> "blank", user |-> << >>, poisoned |-> FALSE]

-----------------------------------------------------------------------------
(* apply_compiled, called once the configurator has installed a snapshot;  *)
(* the two are one step here.                                              *)
ApplyCompiled ==
    /\ Hot <= metrics.swaps
    /\ \E m \in metrics.reloads :
          \E plan \in ToSet(ResolveMetricsPlan(m)), scripts \in ToSet(ScriptMetrics(metrics.sites, m)) :
             /\ store' = GetOrCreate(plan, store)
             /\ regs' = Append(regs, NewRegistry(m, plan, scripts))
    /\ UNCHANGED <<metrics, truth, pinned, scrape, scrapes, calls>>

-----------------------------------------------------------------------------
(* Transactions.                                                           *)

(* acquire_pin, at the start of the orchestrator.                          *)
AcquirePin(t) ==
    /\ pinned[t].at = "idle"
    /\ pinned' = [pinned EXCEPT ![t] = [at |-> "query", gen |-> Hot]]
    /\ UNCHANGED <<metrics, store, regs, truth, scrape, scrapes, calls>>

(* One record call through the pinned registry.                            *)
RecordThrough(t, family) ==
    LET g == pinned[t].gen
        id == SeriesIdentity(Plan(g), family)
    IN IF Records(Plan(g), family)
       THEN /\ store' = [store EXCEPT ![id] = @ + 1]
            /\ calls' = Append(calls, <<family, g>>)
       ELSE UNCHANGED <<store, calls>>

RecordQuery(t) ==
    /\ pinned[t].at = "query"
    /\ RecordThrough(t, "queries_total")
    /\ pinned' = [pinned EXCEPT ![t].at = "rules"]
    /\ UNCHANGED <<metrics, regs, truth, scrape, scrapes>>

(* A script's increment of the user metric "hits" with one label: refused  *)
(* for a label the scan did not find, dropped if the snapshot the          *)
(* transaction runs under does not collect the metric, and otherwise added *)
(* to the user registry that is hot now.  The counter of a new label value *)
(* is registered under the metric's name alone, so the second one panics   *)
(* with the lock held.                                                     *)
Increments(t, label) ==
    LET scripts == regs[pinned[t].gen].scripts
    IN /\ RuntimeLabelsOk(scripts, "hits", {label.key}) /\ scripts["hits"].collect
       /\ Plan(Hot).enabled

AddDelta(t) ==
    /\ pinned[t].at = "rules"
    /\ \E label \in metrics.labels :
          LET r == regs[Hot]
              fresh == label \notin DOMAIN r.user
              panics == r.poisoned \/ (fresh /\ DOMAIN r.user # {})
          IN IF ~Increments(t, label)
             THEN /\ pinned' = [pinned EXCEPT ![t].at = "response"]
                  /\ UNCHANGED regs
             ELSE IF panics
             THEN /\ regs' = [regs EXCEPT ![Hot].poisoned = TRUE]
                  /\ pinned' = [pinned EXCEPT ![t].at = "panicked"]
             ELSE /\ regs' = [regs EXCEPT ![Hot].user =
                        [l \in DOMAIN @ \cup {label} |->
                            (IF l \in DOMAIN @ THEN @[l] ELSE 0) + (IF l = label THEN 1 ELSE 0)]]
                  /\ pinned' = [pinned EXCEPT ![t].at = "response"]
    /\ UNCHANGED <<metrics, store, truth, scrape, scrapes, calls>>

RecordResponse(t) ==
    /\ pinned[t].at = "response"
    /\ RecordThrough(t, "responses_total")
    /\ pinned' = [pinned EXCEPT ![t].at = "done"]
    /\ UNCHANGED <<metrics, regs, truth, scrape, scrapes>>

-----------------------------------------------------------------------------
(* What the scraped counters count: the slot pool and the health registry. *)
Happens(total) ==
    /\ truth[total] < metrics.truth
    /\ truth' = [truth EXCEPT ![total] = @ + 1]
    /\ UNCHANGED <<metrics, store, regs, pinned, scrape, scrapes, calls>>

-----------------------------------------------------------------------------
(* A scrape.                                                               *)

Scraping(s, pc) == scrape[s].pc = pc
Step(s, pc) == scrape' = [scrape EXCEPT ![s].pc = pc]

(* The push loop first asks whether metrics are enabled at all; the        *)
(* request handler does not.                                               *)
OtlpWakes(s) ==
    /\ Scraping(s, "idle") /\ Scrapers[s] = "otlp" /\ scrapes < metrics.scrapes
    /\ Plan(Hot).enabled
    /\ scrapes' = scrapes + 1
    /\ Step(s, "asked")
    /\ UNCHANGED <<metrics, store, regs, truth, pinned, calls>>

(* gather_prometheus_families loads the hot registry, and the registry, if *)
(* enabled, takes the snapshot of the totals.                              *)
ScrapeBegins(s) ==
    /\ \/ Scraping(s, "asked") /\ UNCHANGED scrapes
       \/ /\ Scraping(s, "idle") /\ Scrapers[s] = "prometheus" /\ scrapes < metrics.scrapes
          /\ scrapes' = scrapes + 1
    /\ scrape' = [scrape EXCEPT ![s] =
          [pc |-> IF Plan(Hot).enabled THEN "reset" ELSE "idle",
           gen |-> Hot, snap |-> truth, prev |-> 0]]
    /\ UNCHANGED <<metrics, store, regs, truth, pinned, calls>>

(* refresh_scrape_gauges: a gauge vector is emptied and then filled with   *)
(* the rows of the snapshot.                                               *)
ResetGauges(s) ==
    /\ Scraping(s, "reset")
    /\ regs' = [regs EXCEPT ![scrape[s].gen].gauges = "blank"]
    /\ Step(s, "set")
    /\ UNCHANGED <<metrics, store, truth, pinned, scrapes, calls>>

SetGauges(s) ==
    /\ Scraping(s, "set")
    /\ regs' = [regs EXCEPT ![scrape[s].gen].gauges = "rows"]
    /\ Step(s, "exhaustion")
    /\ UNCHANGED <<metrics, store, truth, pinned, scrapes, calls>>

(* sync_exhaustion_counter: load, add, store, with no lock around them.    *)
LoadSynced_StoresToo(s) ==
    /\ Scraping(s, "exhaustion")
    /\ LET prev == regs[scrape[s].gen].exhaustionSynced
           more == scrape[s].snap.exhausted > prev
       IN /\ scrape' = [scrape EXCEPT ![s].prev = prev, ![s].pc = IF more THEN "add" ELSE "health"]
          /\ regs' = IF more THEN [regs EXCEPT ![scrape[s].gen].exhaustionSynced = scrape[s].snap.exhausted]
                     ELSE regs
    /\ UNCHANGED <<metrics, store, truth, pinned, scrapes, calls>>
LoadSynced(s) ==
    /\ Scraping(s, "exhaustion")
    /\ LET prev == regs[scrape[s].gen].exhaustionSynced
           more == scrape[s].snap.exhausted > prev
       IN scrape' = [scrape EXCEPT ![s].prev = prev, ![s].pc = IF more THEN "add" ELSE "health"]
    /\ UNCHANGED <<metrics, store, regs, truth, pinned, scrapes, calls>>

IncExhausted(s) ==
    /\ Scraping(s, "add")
    /\ regs' = [regs EXCEPT ![scrape[s].gen].exhausted = @ + scrape[s].snap.exhausted - scrape[s].prev]
    /\ Step(s, "store")
    /\ UNCHANGED <<metrics, store, truth, pinned, scrapes, calls>>

StoreSynced(s) ==
    /\ Scraping(s, "store")
    /\ regs' = [regs EXCEPT ![scrape[s].gen].exhaustionSynced = scrape[s].snap.exhausted]
    /\ Step(s, "health")
    /\ UNCHANGED <<metrics, store, truth, pinned, scrapes, calls>>

(* sync_health_transition_counters, under the registry's own lock.         *)
SyncTransitions(s) ==
    /\ Scraping(s, "health")
    /\ LET g == scrape[s].gen
           id == SeriesIdentity(Plan(g), Transitions)
           new == scrape[s].snap.transitions - regs[g].transitionsSynced
       IN IF Transitions \in Registered(Plan(g)) /\ new > 0
          THEN /\ store' = [store EXCEPT ![id] = @ + new]
               /\ regs' = [regs EXCEPT ![g].transitionsSynced = scrape[s].snap.transitions]
          ELSE UNCHANGED <<store, regs>>
    /\ Step(s, "gather")
    /\ UNCHANGED <<metrics, truth, pinned, scrapes, calls>>

(* The families are read and sent; the scrape ends.                        *)
Gather(s) ==
    /\ Scraping(s, "gather")
    /\ Step(s, "idle")
    /\ UNCHANGED <<metrics, store, regs, truth, pinned, scrapes, calls>>

-----------------------------------------------------------------------------
MetricsInit ==
    /\ metrics \in MetricScenes
    /\ \E m \in metrics.booted :
          \E plan \in ToSet(ResolveMetricsPlan(m)), scripts \in ToSet(ScriptMetrics(metrics.sites, m)) :
             /\ store = GetOrCreate(plan, << >>)
             /\ regs = <<NewRegistry(m, plan, scripts)>>
    /\ truth = [exhausted |-> 0, transitions |-> 0]
    /\ pinned = [t \in MetricTxns |-> [at |-> "idle", gen |-> 0]]
    /\ scrape = [s \in DOMAIN Scrapers |-> [pc |-> "idle", gen |-> 0, snap |-> truth, prev |-> 0]]
    /\ scrapes = 0
    /\ calls = <<>>

MetricsNext ==
    \/ ApplyCompiled
    \/ \E t \in MetricTxns : AcquirePin(t) \/ RecordQuery(t) \/ AddDelta(t) \/ RecordResponse(t)
    \/ \E total \in DOMAIN truth : Happens(total)
    \/ \E s \in DOMAIN Scrapers : OtlpWakes(s) \/ ScrapeBegins(s) \/ ResetGauges(s)
          \/ SetGauges(s) \/ LoadSynced(s) \/ IncExhausted(s) \/ StoreSynced(s) \/ SyncTransitions(s) \/ Gather(s)

-----------------------------------------------------------------------------
(* Properties                                                              *)

(* What a scrape of the hot registry shows for a family is the number of   *)
(* record calls ever made through registries that collect the family with  *)
(* the same labels: calls made through an old pin after a swap are counted *)
(* too, and no swap forgets any.                                           *)
PinnedCallsReachExport ==
    \A f \in {"queries_total", "responses_total"} :
       LET id == SeriesIdentity(Plan(Hot), f)
       IN EmitsFamily(Plan(Hot), f) =>
             store[id] = Len(SelectSeq(calls, LAMBDA c : c[1] = f /\ SeriesIdentity(Plan(c[2]), f) = id))

(* The documented meaning of the transitions counter over the whole life   *)
(* of the process: no transition is counted twice.  It holds until the     *)
(* first plan swap and not after it (sync_health_transition_counters).     *)
TransitionsCounted(g) ==
    LET id == SeriesIdentity(Plan(g), Transitions)
    IN id \in DOMAIN store => store[id] <= truth.transitions
TransitionsCountedOnce == TransitionsCounted(Hot)

(* A scrape never reports fewer exhaustions or transitions than had        *)
(* happened when it began, however scrapes and plan swaps interleave, and  *)
(* no gauge without its rows unless another scrape is under way            *)
(* (refresh_scrape_gauges); until the first plan swap it reports no more   *)
(* transitions than happened, although scrapes race: the lock makes        *)
(* reading the last synchronised total and adding the difference one step. *)
ScrapesAreRight ==
    /\ \A s \in DOMAIN Scrapers : Scraping(s, "gather") =>
          LET g == scrape[s].gen
              id == SeriesIdentity(Plan(g), Transitions)
          IN /\ regs[g].exhausted >= scrape[s].snap.exhausted
             /\ Transitions \in Registered(Plan(g)) => store[id] >= scrape[s].snap.transitions
             /\ \/ regs[g].gauges = "rows"
                \/ \E other \in DOMAIN Scrapers \ {s} : ~Scraping(other, "idle")
    /\ Hot = 1 => TransitionsCounted(1)

(* Every accepted metrics section yields a plan in which the excluded      *)
(* categories are silent, something is active, no built-in, user or event  *)
(* family is exported that is not collected, and every label is of its     *)
(* family's vocabulary, in the vocabulary's order (resolve_metrics_plan,   *)
(* emits_family, apply_from_plan).                                         *)
PlanIsHonest(m, plan, scripts) ==
    plan.enabled =>
       /\ plan.categories # {}
       /\ \A f \in Exported(plan) :
             LET c == BuiltinMetricCategory(f)
             IN c \notin m.exclude /\ c \in m.include \cup ExpandBase(Base(m)) /\ CollectFor(plan, c)
       /\ \A f \in Families : plan.dimensions[f] =
             SelectSeq(AllowedDimensions[f], LAMBDA d : d \in ToSet(plan.dimensions[f]))
       /\ \A n \in DOMAIN scripts : scripts[n].emit => scripts[n].collect
       /\ EventFamiliesExported(plan, <<"sink">>) => plan.event_export.collect
PlansAreHonest == \A g \in DOMAIN regs : PlanIsHonest(regs[g].section, Plan(g), regs[g].scripts)
=============================================================================
