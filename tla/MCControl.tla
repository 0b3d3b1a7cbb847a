------------------------------- MODULE MCControl -------------------------------
(* Instance of Configurator for model checking.                            *)
EXTENDS Configurator

B(name, address, weight) ==
    [name |-> name, address |-> address, weight |-> weight, probe |-> "none",
     remove |-> FALSE]
Gone(name, address) == [B(name, address, "none") EXCEPT !.remove = TRUE]
P(name, backends) == [name |-> name, attrs |-> "none", backends |-> backends,
                      remove |-> FALSE]

Patch(pools) == [EmptyConfig EXCEPT !.pools = pools]

(* A file with a named and an unnamed backend, a scraped endpoint and a    *)
(* cache; one without the named backend; one whose rule does not compile.  *)
File1 ==
    [EmptyConfig EXCEPT
        !.pools = <<P("p", <<B("b1", "a1", "5"), B("", "a2", "none")>>)>>,
        !.sections = ("control" :> [api_keys |-> {}])
                     @@ ("events" :> <<[name |-> "s", set |-> Unset]>>),
        !.caches = <<[name |-> "c", type |-> "memory", set |-> Unset]>>,
        !.metrics = ("prometheus.listen" :> "x") @@ ("otel.push" :> "slow")]
File2 ==
    [File1 EXCEPT !.pools = <<P("p", <<B("", "a2", "none")>>)>>,
                  !.sections = ("control" :> [api_keys |-> {"k"}]) @@ @,
                  !.metrics = ("otel.endpoint" :> "e")]
File3 == [File1 EXCEPT !.sections = @ @@ ("rules" :> "blank_selector")]

(* Stands for a file that cannot be read; no configuration has version 0.  *)
MCUnreadable == [EmptyConfig EXCEPT !.version = 0]

MCDocuments == {File1, File2, File3, MCUnreadable}

(* One operator has no key, the other takes theirs from the environment.   *)
Nothing == [endpoint |-> "none", api_key |-> "none", api_key_file |-> "none",
            tls_ca |-> "none", tls_cert |-> "none", tls_key |-> "none",
            tls_insecure |-> "none"]
Anonymous == [flags |-> Nothing, env |-> Nothing, file |-> Nothing]
WithKey == [Anonymous EXCEPT !.env.api_key = "k"]

(* Commands of conduitctl; adding a backend has none and comes from        *)
(* another client.                                                         *)
MCCommands ==
    {[verb |-> "apply", clear |-> FALSE, replace |-> FALSE,
      patch |-> Patch(<<P("p", <<Gone("b1", "")>>)>>)],
     [verb |-> "apply", clear |-> FALSE, replace |-> TRUE,
      patch |-> [Patch(<<>>) EXCEPT !.metrics = "prometheus.path" :> "/m"]],
     [verb |-> "apply", clear |-> TRUE, replace |-> FALSE],
     [verb |-> "set-weight", pool |-> "p", backend |-> "a2", weight |-> "3"],
     [verb |-> "remove-backend", pool |-> "p", backend |-> "b1"],
     [verb |-> "upsert", name |-> "d", path |-> "f"],
     [verb |-> "patch", patch |-> ("prometheus.listen" :> "y")],
     [verb |-> "patch", patch |-> ("otel.endpoint" :> "e") @@ ("otel.push" :> "fast")],
     [verb |-> "set-emit", name |-> "s", emit |-> "query"],
     [verb |-> "set-max-entries", name |-> "c", max_entries |-> 3]}

MCCalls ==
    UNION {Requests(cmd, Anonymous, <<>>) : cmd \in MCCommands}
    \cup Requests([verb |-> "reload"], WithKey, <<>>)
    \cup {[op |-> "AddBackend", pool |-> "p", entry |-> B("b1", "a4", "none"),
           meta |-> [authorization |-> "none", x_api_key |-> "k"]]}

MCOtherCalls ==
    UNION {Requests(cmd, WithKey, <<>>) : cmd \in
        {[verb |-> "set-limits", section |-> "rhai", max_call_depth |-> 2],
         [verb |-> "set-limits", section |-> "orchestrator", max_txn_duration_ms |-> 2],
         [verb |-> "set-limits", section |-> "orchestrator", max_attempts |-> 2],
         [verb |-> "set-limits", section |-> "orchestrator"],
         [verb |-> "set-source-limits", max_entries |-> 2],
         [verb |-> "set-filters", name |-> "s", filters |-> "half"],
         [verb |-> "set-lmdb-hot", name |-> "c", sync |-> "off"],
         [verb |-> "set-policy-hot", name |-> "c", rotate_rrset_on_serve |-> TRUE],
         [verb |-> "remove-source", name |-> "d"],
         [verb |-> "patch", enabled |-> FALSE, patch |-> ("enabled" :> TRUE)]}}

=============================================================================
