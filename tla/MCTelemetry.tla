----------------------------- MODULE MCTelemetry -----------------------------
(* The event export with two transactions, of which one is retried, and    *)
(* two collectors; and the metrics hub with two transactions, a scrape     *)
(* listener and a push loop.  The two parts share no state, so each is     *)
(* explored with the other at rest.                                        *)
EXTENDS EventExport, MetricsHub, TLC

Txn(id, pool, tags, attempts) ==
    [id |-> id, index |-> id, qname |-> "a", pool |-> pool, backend |-> "b", rcode |-> "NOERROR",
     answer_source |-> "forward", cache_instance |-> None, client |-> "c", tags |-> tags,
     attempts |-> attempts, answered |-> TRUE]
MCProfile == [t1 |-> Txn(1, "p", [flags |-> {"x"}, strings |-> {"x"}], 2),
              t2 |-> Txn(2, "q", [flags |-> {}, strings |-> {}], 1)]

MCContentType == <<7, 9>>
(* Both collectors are servers of the repository's own framing.            *)
MCReply == [c \in {"c1", "c2"} |->
              AcceptBidirectional(WriteControlFrame(Ready, MCContentType), MCContentType).sent]

MCBucket(id, key) == (id * 37) % 100
MCInTable(view, client) == FALSE

NoFilter == [tag |-> None, selectors |-> <<>>, pool |-> None, backend |-> None,
             percent |-> 100, key |-> None]
Sink(name, emit, filters, dests) ==
    [name |-> name, emit |-> emit, filters |-> filters, dests |-> dests,
     extra |-> <<"sink_name">>, tagMode |-> [all |-> TRUE, keys |-> <<>>]]

Races == <<Sink("s1", {"query", "response"}, NoFilter, <<"c1">>)>>
Fans == <<Sink("s1", {"query", "response", "retry"}, NoFilter, <<"c1", "c2">>)>>
Two == <<Sink("s1", {"query", "response"}, NoFilter, <<"c1">>),
         Sink("s2", {"retry"}, [NoFilter EXCEPT !.pool = "p"], <<"c2">>)>>
Less == <<Two[1]>>
Changed == <<[Two[1] EXCEPT !.emit = {"retry"}], Two[2],
             Sink("s3", {"query"}, NoFilter, <<"c1">>)>>

NoSinks == [booted |-> <<>>, reloads |-> {}, policy |-> "drop_newest", txns |-> {}]

MCScenes ==
    {[booted |-> Races, reloads |-> {Races}, policy |-> "drop_oldest", txns |-> {"t1", "t2"}],
     [booted |-> Fans, reloads |-> {Fans}, policy |-> "drop_newest", txns |-> {"t1"}],
     [booted |-> Two, reloads |-> {Less, Changed}, policy |-> "drop_oldest", txns |-> {"t1"}],
     NoSinks}
-----------------------------------------------------------------------------
Nothing == [x \in {} |-> 0]
Section ==
    [enabled |-> <<TRUE>>, profile |-> "", base |-> "", include |-> {}, exclude |-> {},
     granularity |-> "", overrides |-> Nothing, collection |-> Nothing,
     event_export |-> [collect |-> <<>>, emit |-> <<>>], user_metrics |-> <<>>]
Coarse == [Section EXCEPT !.granularity = "coarse"]
Quiet == [Section EXCEPT !.collection = [volume |-> [collect |-> <<FALSE>>, emit |-> <<FALSE>>]]]
Off == [Section EXCEPT !.enabled = <<FALSE>>]

Switch == {<<>>, <<TRUE>>, <<FALSE>>}
Pairs == [collect : Switch, emit : Switch]
User(n, p, e) == [name |-> n, collect |-> p.collect, emit |-> p.emit, export |-> e]
CategorySections ==
    {[Section EXCEPT !.base = b, !.profile = p, !.include = i, !.exclude = e] :
        b \in {"", "none", "minimal", "standard", "other"},
        p \in {"", "minimal", "full", "off", "other"},
        i \in {{}, {"process"}, {"timing", "volume"}, {"other"}},
        e \in {{}, {"volume"}, {"process", "health"}}}
SwitchSections ==
    {[Section EXCEPT !.granularity = g, !.collection = [volume |-> p], !.event_export = q] :
        g \in {"", "coarse"}, p \in Pairs, q \in Pairs}
UserSections ==
    {[Section EXCEPT !.base = b, !.user_metrics = <<User("hits", p, x), User(n, p, x)>>] :
        b \in {"", "minimal"}, p \in Pairs, x \in {"", "minimal", "full"},
        n \in {"hits", "", "misses"}}
DimensionSections ==
    {[Section EXCEPT !.granularity = g, !.overrides = [f \in {fam} |-> [dims |-> d, rcode |-> rc]]] :
        g \in {"", "balanced"}, fam \in {"volume", "responses", "other"},
        d \in {<<>>, <<{}>>, <<{"qtype", "listener"}>>, <<{"other"}>>}, rc \in {"", "iana", "other"}}

Site(name, write) == [name |-> name, keys |-> {"category"}, write |-> write]
Label(key, value) == [key |-> key, value |-> value]
MetricScene ==
    [booted |-> {Section}, reloads |-> {Section}, txns |-> {}, labels |-> {},
     sites |-> {Site("hits", TRUE), Site("misses", TRUE)}, swaps |-> 0, scrapes |-> 0, truth |-> 0]
AtRest == [MetricScene EXCEPT !.booted = {Off}]
MCMetricScenes ==
    {[MetricScene EXCEPT !.booted = CategorySections \cup SwitchSections \cup UserSections
                                        \cup DimensionSections],
     [MetricScene EXCEPT !.reloads = {Section, Coarse, Quiet, Off}, !.txns = {"t1", "t2"},
                         !.labels = {Label("category", "eu"), Label("category", "us"), Label("tier", "eu")},
                         !.swaps = 1],
     [MetricScene EXCEPT !.reloads = UserSections, !.sites = {Site("hits", TRUE), Site("hits", FALSE)},
                         !.swaps = 1],
     [MetricScene EXCEPT !.scrapes = 2, !.truth = 2],
     [MetricScene EXCEPT !.reloads = {Section, Off}, !.swaps = 1, !.scrapes = 2, !.truth = 1],
     AtRest}
MCScrapers == [listener |-> "prometheus", push |-> "otlp"]

-----------------------------------------------------------------------------
TelemetryInit ==
    /\ Init /\ MetricsInit
    /\ \/ scene = NoSinks /\ \A c \in Collectors : status[c] = "up"
       \/ scene # NoSinks /\ metrics = AtRest
TelemetryNext ==
    \/ scene # NoSinks /\ Next /\ UNCHANGED metricsVars
    \/ scene = NoSinks /\ MetricsNext /\ UNCHANGED vars
Telemetry == TelemetryInit /\ [][TelemetryNext]_<<vars, metricsVars>> /\ Fairness
=============================================================================
