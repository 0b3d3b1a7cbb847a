---------------------------- MODULE MCCacheStore ----------------------------
(***************************************************************************)
(* A zone a with a child name b.a; two shards.  The configurations change  *)
(* the shard count, the cap, the policy, the sync mode and the map size.   *)
(***************************************************************************)
EXTENDS CacheStore, TLC

MCQuestions == {"a", "b.a"}
MCAncestors == [a |-> << >>] @@ ("b.a" :> <<"a">>)
MCHash == [k \in MCQuestions \X {"complete", "truncated"} |->
             IF k[2] = "truncated" THEN 2 ELSE IF k[1] = "a" THEN 1 ELSE 3]
MCAnswers ==
    ("a" :> {[rcode |-> 0, answers |-> 1, ttls |-> {1, 2}, tc |-> FALSE],
             [rcode |-> 3, answers |-> 0, ttls |-> {}, tc |-> FALSE]}) @@
    ("b.a" :> {[rcode |-> 0, answers |-> 1, ttls |-> {2}, tc |-> FALSE],
               [rcode |-> 0, answers |-> 0, ttls |-> {2}, tc |-> TRUE]})
MCMemOpts == {[negative |-> TRUE, covers |-> TRUE, servfail_ttl |-> 1,
               truncated |-> TRUE, truncated_ttl |-> 1]}
MCLmdbKeys == {<<"a", "complete">>, <<"b.a", "complete">>}
MCSetting ==
    [one |-> [n |-> 1, max |-> 1, full |-> "evict_one", sync |-> "none", size |-> 2],
     two |-> [n |-> 2, max |-> 2, full |-> "sample", sync |-> "periodic", size |-> 1],
     big |-> [n |-> 0, max |-> 0, full |-> "refuse", sync |-> "full", size |-> 3]]
MCConfigs == DOMAIN MCSetting
=============================================================================
