---------------------------- MODULE CacheEntries ----------------------------
(***************************************************************************)
(* Cache keys, entries and what is stored from an answer                   *)
(* (lookup/cache/{key,entry,serve}.rs, the pure part of memory.rs and of   *)
(* registry.rs), and the threads and the budget of events the two          *)
(* backends' models share.                                                 *)
(*                                                                         *)
(* A key is a question and the shape of the answer stored under it: type,  *)
(* class, the DNSSEC flags and the client subnet are part of the question. *)
(* An answer is its rcode, the number of its answer records, the TTLs of   *)
(* its answer and authority records and whether it is truncated.           *)
(***************************************************************************)
EXTENDS Naturals, Sequences, FiniteSetsExt

CONSTANTS Questions,
          Ancestors,    \* the parents of a question's name, nearest first
          Hash,         \* DefaultHasher on a key
          Answers,      \* what a forward may bring back, by question
          Fillers,      \* threads that look up and fill
          MaxEvents     \* bound on calls, applies, clock ticks, failures and crashes

ASSUME CacheEntriesAssumption ==
    /\ Ancestors \in [Questions -> Seq(Questions)]
    /\ Answers \in [Questions -> SUBSET [rcode : Nat, answers : Nat, ttls : SUBSET Nat, tc : BOOLEAN]]
    /\ MaxEvents \in Nat

VARIABLE events

SpendN(n) == events + n <= MaxEvents /\ events' = events + n
Spend == SpendN(1)

\* build_query_key and build_truncated_udp_key
CompleteKey(q) == <<q, "complete">>
TruncatedKey(q) == <<q, "truncated">>
Keys == Questions \X {"complete", "truncated"}

\* EntryKind::from_rcode
Kind(a) == CASE a.rcode = 0 -> IF a.answers = 0 THEN "nodata" ELSE "positive"
             [] a.rcode = 3 -> "nxdomain"
             [] a.rcode = 2 -> "servfail"
             [] OTHER -> "positive"

NotCached == 0
DefaultTtl(kind) == IF kind = "positive" THEN 60 ELSE 300

\* ttl_for_wire and cacheable_ttl_from_rrset: NotCached when the answer may not
\* be stored, which a TTL of 0 on a record also says
TtlFor(a, opts) ==
    LET kind == Kind(a)
    IN  IF kind = "servfail" THEN opts.servfail_ttl
        ELSE IF kind \in {"nxdomain", "nodata"} /\ ~opts.negative THEN NotCached
        ELSE IF a.ttls = {} THEN DefaultTtl(kind) ELSE Min(a.ttls)

\* fill_from_forward: where and for how long an answer to q is stored
StoredAs(q, a, udp, opts) ==
    LET tc == udp /\ a.tc
    IN  [key |-> IF tc THEN TruncatedKey(q) ELSE CompleteKey(q),
         ttl |-> IF TtlFor(a, opts) = NotCached \/ (tc /\ ~opts.truncated) THEN NotCached
                 ELSE IF tc THEN opts.truncated_ttl ELSE TtlFor(a, opts)]

Fresh(expires, now) == now < expires

\* prepare_served_wire: record TTLs are aged by the time since the fill
Decayed(ttls, filled, now) == {IF x > now - filled THEN x - (now - filled) ELSE 0 : x \in ttls}
=============================================================================
