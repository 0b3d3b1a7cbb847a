------------------------------ MODULE Routing ------------------------------
(***************************************************************************)
(* Weighted, health-aware backend selection (routing.rs).                  *)
(*                                                                         *)
(* A pool is [members, weight, health]: members in configuration order,    *)
(* their weights, and either None or [minEligible, latency].  table maps a *)
(* <<pool, backend>> to [up, factor]; factor counts quarters, so 4 is the  *)
(* latency factor 1.0.                                                     *)
(***************************************************************************)
EXTENDS Naturals, Sequences, FiniteSets, SequencesExt

CONSTANT None

Max1(n) == IF n < 1 THEN 1 ELSE n

BackendEligible(table, pool, b) ==
    <<pool, b>> \in DOMAIN table => table[<<pool, b>>].up

\* (configured * factor).round().max(1), halves rounded away from zero.
EffectiveWeight(configured, factor) == Max1((2 * configured * factor + 4) \div 8)

TriedBackendsInPool(attempts, pool) ==
    {attempts[i][2] : i \in {j \in DOMAIN attempts : attempts[j][1] = pool}}

FailOpen(p, eligible) ==
    Len(p.members) <= 1 \/ Len(eligible) < Max1(p.health.minEligible)

\* What one selection picks among, and with which weights: the candidates
\* and their configured weights, or the eligible ones and their scaled weights.
Weighted(pools, pool, table, open, chosen) ==
    LET p == pools[pool]
        weight(b) == IF ~open /\ p.health.latency /\ <<pool, b>> \in DOMAIN table
                     THEN EffectiveWeight(p.weight[b], table[<<pool, b>>].factor) ELSE p.weight[b]
    IN [seq |-> chosen, weight |-> [i \in DOMAIN chosen |-> weight(chosen[i])]]

Narrow(pools, pool, table, candidates, eligible) ==
    LET open == pools[pool].health = None \/ FailOpen(pools[pool], eligible)
    IN Weighted(pools, pool, table, open, IF open THEN candidates ELSE eligible)

Choice(pools, pool, table, attempts) ==
    LET fresh(b) == attempts = <<>> \/ b \notin TriedBackendsInPool(attempts, pool)
        live(b) == BackendEligible(table, pool, b)
    IN Narrow(pools, pool, table, SelectSeq(pools[pool].members, fresh),
              SelectSeq(SelectSeq(pools[pool].members, fresh), live))

Total(weights) == FoldLeft(LAMBDA x, y : x + y, 0, weights)

\* A plausible slip: the bound of a backend's slice is included in it.
Pick_Inclusive(c, pick) ==
    c.seq[CHOOSE i \in DOMAIN c.seq :
            /\ pick <= Total(SubSeq(c.weight, 1, i))
            /\ \A j \in 1 .. i - 1 : pick > Total(SubSeq(c.weight, 1, j))]

\* The backend whose slice of the running weight sum holds pick.
Pick(c, pick) ==
    c.seq[CHOOSE i \in DOMAIN c.seq :
            /\ pick < Total(SubSeq(c.weight, 1, i))
            /\ \A j \in 1 .. i - 1 : pick >= Total(SubSeq(c.weight, 1, j))]

\* None: no candidate is left.
PickWeighted(c, n) ==
    IF Total(c.weight) = 0 THEN None ELSE Pick(c, n % Total(c.weight))

\* None also for an unknown pool.
SelectBackend(pools, pool, id, generation, table, attempts) ==
    IF pool \notin DOMAIN pools THEN None
    ELSE PickWeighted(Choice(pools, pool, table, attempts), id + generation)

\* The per-backend weights the metrics scrape reports for a pool with health.
EffectiveWeightsForScrape(pools, pool, table) ==
    LET p == pools[pool]
        live(b) == BackendEligible(table, pool, b)
        open == FailOpen(p, SelectSeq(p.members, live))
    IN [b \in ToSet(p.members) |->
          CASE open -> p.weight[b]
            [] ~open /\ ~live(b) -> 0
            [] ~open /\ live(b) /\ p.health.latency /\ <<pool, b>> \in DOMAIN table ->
                 EffectiveWeight(p.weight[b], table[<<pool, b>>].factor)
            [] OTHER -> p.weight[b]]

\* runtime.routing as a script reads it at hook entry: a pool and a backend of
\* the configuration, or the empty view.
NoPoolView == [configured |-> FALSE, count |-> 0, eligible |-> 0, failOpen |-> FALSE]
NoBackendView == [configured |-> FALSE, applied |-> "unknown", eligible |-> FALSE, factor |-> 4]

PoolView(pools, pool, table) ==
    LET p == pools[pool]
        live == SelectSeq(p.members, LAMBDA b : BackendEligible(table, pool, b))
    IN IF pool \notin DOMAIN pools THEN NoPoolView
       ELSE [ configured |-> TRUE, count |-> Len(p.members),
              eligible |-> IF p.health = None THEN Len(p.members) ELSE Len(live),
              failOpen |-> p.health # None /\ FailOpen(p, live) ]

\* A pool without health, and a backend without an entry, reads as up.
BackendView(pools, pool, table, b) ==
    CASE pool \notin DOMAIN pools \/ b \notin ToSet(pools[pool].members) -> NoBackendView
      [] pool \in DOMAIN pools /\ b \in ToSet(pools[pool].members)
         /\ pools[pool].health # None /\ <<pool, b>> \in DOMAIN table ->
            LET state == table[<<pool, b>>]
            IN [ configured |-> TRUE, applied |-> IF state.up THEN "up" ELSE "down",
                 eligible |-> state.up, factor |-> state.factor ]
      [] OTHER -> [configured |-> TRUE, applied |-> "up", eligible |-> TRUE, factor |-> 4]

\* The pool named "default", else the first one.
DefaultPoolName(pools, order) ==
    CASE "default" \in DOMAIN pools -> "default"
      [] "default" \notin DOMAIN pools /\ order # <<>> -> order[1]
      [] OTHER -> None
=============================================================================
