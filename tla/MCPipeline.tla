----------------------------- MODULE MCPipeline -----------------------------
(* Two client questions, two pools and a handful of configurations.        *)
EXTENDS Pipeline

Query(name, client, proto, limit, form) ==
    [ qname |-> name, suffixes |-> {"zone"}, qtype |-> "A", qclass |-> "IN", opcode |-> "QUERY",
      edns |-> {}, client |-> client, proto |-> proto, limit |-> limit, form |-> form ]

MCQueries == { Query("a", "friend", "udp", 4, "query"), Query("b", "foe", "tcp", 4, "query"),
               Query("a", "friend", "udp", 4, "wire_error") }

Shape(rcode, answers, authority, additional, tc) ==
    [ rcode |-> rcode, fixed |-> 1, answers |-> answers, authority |-> authority,
      additional |-> additional, tc |-> tc, clipped |-> FALSE ]

MCReplies == { Shape("NOERROR", <<1, 1, 2>>, 0, 0, FALSE), Shape("NXDOMAIN", <<>>, 5, 1, FALSE),
               Shape("NOERROR", <<1>>, 0, 0, TRUE) }

MCBucket(id, key) == (id * 37) % 100

----------------------------------------------------------------------------
(* Data sources: addresses of two bits, the clients' tables among them.    *)

MCBytes(cell) == IF cell \in {"xx", "long"} THEN 2 ELSE 1
MCDefaults == [file |-> 9, entries |-> 3, key |-> 2, value |-> 2, tables |-> 2, total |-> 12]
MCKeys == {"key", "a", "xx"}
MCAddresses == {[v |-> f, bits |-> b] : f \in {4, 6}, b \in {<<x, y>> : x \in 0 .. 1, y \in 0 .. 1}}

Inherit == [l \in {"file", "entries", "key", "value"} |-> None]
Source(name, type, path) ==
    [name |-> name, type |-> type, path |-> path, key_column |-> "", value_column |-> "",
     limits |-> Inherit]
Net(v, bits, len) == [form |-> "net", v |-> v, bits |-> bits, len |-> len]
Addr(v, bits) == [form |-> "addr", v |-> v, bits |-> bits]
File(bytes, lines) == [bytes |-> bytes, utf8 |-> TRUE, lines |-> lines]

UpTo(n, S) == UNION {[1 .. k -> S] : k \in 0 .. n}
CsvLines == {<<>>, <<"a", "1">>, <<"a", "2">>, <<"value", "key">>, <<"xx", "long", "3">>, <<"a">>}
CidrLines == {<<Net(4, <<1, 0>>, 1), "2">>, <<Net(4, <<1, 1>>, 1)>>, <<Net(4, <<0, 0>>, 0), "3">>,
              <<Addr(4, <<1, 0>>), "">>, <<Addr(6, <<1, 0>>)>>, <<[form |-> "bad"]>>}

Disk(f, g) == [p \in {"f", "g"} |-> IF p = "f" THEN f ELSE g]
Load(sources, disk, block) == [sources |-> sources, disk |-> disk, block |-> block]

MCLoads ==
    {Load(<<Source("t", "csv", "f"), Source("t", "cidr", "g")>>, Disk(File(4, lines), File(b, <<>>)), None)
        : lines \in UpTo(3, CsvLines), b \in {4, 9}}
    \cup {Load(<<Source("t", "cidr", "f"), Source("t", "cidr", "g")>>,
               Disk(File(4, <<>>), File(b, lines)), None) : lines \in UpTo(3, CidrLines), b \in {4, 10}}
    \cup {Load(<<[Source("t", "csv", "f") EXCEPT !.limits.key = 1, !.limits.entries = e, !.key_column = c]>>,
               Disk(File(b, <<<<"a", "1">>, <<"xx", "2">>, <<"b", "xx">>, <<"1", "a">>>>), None),
               [MCDefaults EXCEPT !.file = 0, !.key = k])
            : e \in {None, 0, 5}, c \in {"", "xx"}, b \in {8, 9, 10}, k \in {0, 1}}

MCStore ==
    D!LoadDataSources(<<Source("friend", "cidr", "f"), Source("foe", "cidr", "g")>>,
                      Disk(File(4, <<<<Net(4, <<1, 0>>, 1)>>>>), File(4, <<<<Addr(6, <<0, 1>>)>>>>)),
                      MCDefaults)
MCInTable(view, client) ==
    D!LookupIp(MCStore, view, [v |-> IF client = "friend" THEN 4 ELSE 6,
                               bits |-> IF client = "friend" THEN <<1, 1>> ELSE <<0, 1>>]) # None


Act(type) == [type |-> type, value |-> None]
Val(type, value) == [type |-> type, value |-> value]
Rhai(script) == [type |-> "rhai", script |-> script]
Sel(type, value) == [type |-> type, value |-> value, key |-> None]
Rule(hook, selectors, actions) == [hook |-> hook, selectors |-> selectors, actions |-> actions]

Health(floor, latency) == [minEligible |-> floor, latency |-> latency]
Pool(members, weight, health) == [members |-> members, weight |-> weight, health |-> health]

Acl(default, rules) == [default |-> default, rules |-> rules]
AclRule(view, action) == [view |-> view, action |-> action, tag |-> "acl"]

Base ==
    [ rules |-> <<>>, acls |-> None, listeners |-> [l \in {Listener} |-> None],
      pools |-> [p \in {"default", "alt"} |->
                   IF p = "default" THEN Pool(<<"b1", "b2">>, [b1 |-> 2, b2 |-> 1], Health(1, TRUE))
                   ELSE Pool(<<"b3">>, [b3 |-> 1], None)],
      order |-> <<"default", "alt">>, providers |-> <<"cache", "forward">>,
      skipResponseRules |-> FALSE, cacheServfail |-> FALSE, transport |-> "prefer",
      clientTcp |-> FALSE, maxAttempts |-> 2, v4 |-> {"b1", "b3"},
      sources |-> <<"s1", "s2">>, poolSources |-> <<>> ]

Failed == <<Sel("answer_source", "forward")>>

MCConfigs ==
    << [Base EXCEPT !.rules = <<
          Rule("request", <<Sel("qname", "b"), Sel("every_nth_worker", 1)>>,
               <<Val("set_pool", "alt"), Val("set_tag", "k"), Val("set_source", "s9")>>),
          Rule("response", <<Sel("rcode", "SERVFAIL"), Sel("tag", "k")>>,
               <<Act("clear_pool"), Act("retry_now"), Act("drop_now")>>),
          Rule("response", <<Sel("rcode", "SERVFAIL")>>,
               <<Val("set_retry_pool", "alt"), Val("set_retry_source", "s2"), Act("retry")>>),
          Rule("response", <<Sel("rcode", "NXDOMAIN"), Sel("sample_percent", 40)>>,
               <<Act("drop"), Act("clear_drop"), Act("retry"), Act("clear_retry"),
                 Val("set_rcode", "REFUSED"), Act("clear_retry_pool"),
                 Act("clear_retry_source"), Val("clear_tag", "k")>>),
          Rule("response", <<Sel("rcode", "NXDOMAIN")>>, <<Act("drop"), Act("retry_now")>>) >>,
        !.acls = Acl("deny", <<AclRule("friend", "tag"), AclRule("foe", "accept")>>)],
      [Base EXCEPT !.rules = <<
          Rule("request", <<Sel("qname_suffix", "zone"), Sel("every_nth_global", 2)>>,
               <<Rhai(<<Val("set_pool", "alt"), Act("clear_pool"), Val("set_flag", "k"),
                        Val("set_source", "s2"), Val("set_cache_lookup_eligible", FALSE),
                        Val("set_tag", "m"), Val("unset_flag", "m"), Val("clear_tag", "n")>>)>>),
          Rule("request", <<Sel("client_cidr", "foe")>>, <<Act("drop")>>),
          Rule("request", <<Sel("edns_option", 8)>>, <<Act("drop_now")>>),
          Rule("response", <<Sel("answer_source", "cache")>>,
               <<Rhai(<<Act("over_limit"), Act("drop")>>), Act("retry")>>),
          Rule("response", Failed,
               <<Rhai(<<Val("set_retry_pool", "default"), Val("set_retry_source", "s9"),
                        Act("retry"), [type |-> "sample", value |-> 50, key |-> "r"]>>),
                 Rhai(<<Act("clear_drop"), Val("set_rcode", "REFUSED")>>)>>) >>,
        !.acls = Acl("allow", <<AclRule("friend", "accept"), AclRule("friend", "drop")>>),
        !.listeners = [l \in {Listener} |-> Acl("allow", <<AclRule("foe", "refuse")>>)],
        !.transport = "udp_only", !.clientTcp = TRUE, !.maxAttempts = 3,
        !.poolSources = [p \in {"alt"} |-> <<"s3">>]],
      [Base EXCEPT !.rules = <<Rule("response", <<>>, <<Rhai(<<Act("retry_now")>>)>>)>>,
        !.providers = <<"cache">>, !.transport = "tcp_only",
        !.acls = Acl("allow", <<AclRule("friend", "accept"), AclRule("friend", "drop"),
                                AclRule("foe", "drop")>>)],
      [Base EXCEPT !.providers = <<"forward">>, !.transport = "tcp_only", !.skipResponseRules = TRUE,
        !.listeners = <<>>, !.rules = <<Rule("request", <<Sel("qname", "b")>>, <<Val("set_pool", "nowhere")>>),
                    Rule("response", <<Sel("rcode", "NXDOMAIN")>>, <<Rhai(<<Act("drop_now")>>)>>)>>] >>
=============================================================================
