---------------------------- MODULE PolicyRules ----------------------------
(***************************************************************************)
(* The policy language of the query path: selectors, built-in actions and  *)
(* Rhai scripts, as operators from a transaction to a transaction and an   *)
(* outcome.                                                                *)
(*                                                                         *)
(* t is the transaction record of Pipeline; the operators read and write   *)
(* its policy fields (pool, retryPool, tags, rcode, softDrop, src,         *)
(* retrySrc, cacheOk).  Names, addresses and tag values are model values   *)
(* or short strings.  The IPv4 and IPv6 source overrides are the same code *)
(* twice and are one field here.                                           *)
(***************************************************************************)
EXTENDS Naturals, Sequences, FiniteSets, SequencesExt

CONSTANTS
    None,           \* Option::None
    Bucket(_, _),   \* the sampling hash of a transaction id and a salt, in 0 .. 99
    InTable(_, _)   \* does a CIDR data source (name) hold a client address?

----------------------------------------------------------------------------
(* Tags: a key is set as a Boolean flag, as a string, or both.             *)

HasTag(tags, k) == k \in tags.flags \cup tags.strings
SetString(tags, k) == [tags EXCEPT !.strings = @ \cup {k}]
ClearTag(tags, k) == [flags |-> tags.flags \ {k}, strings |-> tags.strings \ {k}]

----------------------------------------------------------------------------
(* Selectors.  A selector is [type, value]; sample_percent also has a salt *)
(* key and a percentage as its value.                                      *)

HashSampleKeyed(id, percent, key) ==
    CASE percent = 0 -> FALSE
      [] percent >= 100 -> TRUE
      [] OTHER -> Bucket(id, key) < percent

EveryNth(index, nth) == nth > 0 /\ index % nth = 0

MatchesCtx(s, t) ==
    CASE s.type \in {"qname", "qtype", "qclass", "opcode", "rcode",
                     "answer_source", "cache_instance"} -> t[s.type] = s.value
      [] s.type = "qname_suffix" -> s.value \in t.suffixes
      [] s.type = "edns_option" -> s.value \in t.edns
      [] s.type = "tag" -> HasTag(t.tags, s.value)
      [] s.type = "client_cidr" -> InTable(s.value, t.client)
      [] s.type = "sample_percent" -> HashSampleKeyed(t.id, s.value, s.key)
      [] s.type = "every_nth_worker" -> EveryNth(t.id, s.value)
      [] s.type = "every_nth_global" -> EveryNth(t.index, s.value)

Matches(rule, t) == \A i \in DOMAIN rule.selectors : MatchesCtx(rule.selectors[i], t)

----------------------------------------------------------------------------
(* Scripts.  A script is a sequence of verb calls [type, value].  The      *)
(* verbs only collect effects; nothing reaches the transaction before the  *)
(* script has ended, and nothing at all does when it fails (a run-time     *)
(* error, an operation, call-depth or time limit).                         *)

NoEffects ==
    [ pool |-> None, clearPool |-> FALSE, retryPool |-> None, clearRetryPool |-> FALSE,
      retry |-> FALSE, hardRetry |-> FALSE, clearRetry |-> FALSE,
      softDrop |-> FALSE, hardDrop |-> FALSE, clearDrop |-> FALSE,
      tagOps |-> <<>>, rcode |-> None, src |-> None, retrySrc |-> None,
      clearRetrySrc |-> FALSE, cacheOk |-> None, failed |-> FALSE ]

SetOp(fx, k, op) ==
    [fx EXCEPT !.tagOps = [x \in DOMAIN @ \cup {k} |-> IF x = k THEN op ELSE @[x]]]

ScriptVerb(hook, t, fx, v) ==
    LET onResponse(f) == IF hook = "response" THEN f ELSE fx
        onRequest(f) == IF hook = "request" THEN f ELSE fx
    IN CASE v.type = "set_pool" -> [fx EXCEPT !.pool = v.value, !.clearPool = FALSE]
         [] v.type = "clear_pool" -> [fx EXCEPT !.pool = None, !.clearPool = TRUE]
         [] v.type = "set_retry_pool" -> [fx EXCEPT !.retryPool = v.value]
         [] v.type = "clear_retry_pool" -> [fx EXCEPT !.clearRetryPool = TRUE]
         [] v.type = "retry" -> onResponse([fx EXCEPT !.retry = TRUE])
         [] v.type = "retry_now" -> onResponse([fx EXCEPT !.hardRetry = TRUE])
         [] v.type = "clear_retry" -> onResponse([fx EXCEPT !.clearRetry = TRUE])
         [] v.type = "drop" -> [fx EXCEPT !.softDrop = TRUE]
         [] v.type = "drop_now" -> [fx EXCEPT !.hardDrop = TRUE]
         [] v.type = "clear_drop" -> [fx EXCEPT !.clearDrop = TRUE]
         [] v.type = "set_tag" -> SetOp(fx, v.value, "string")
         [] v.type = "set_flag" -> SetOp(fx, v.value, "true")
         [] v.type = "unset_flag" -> SetOp(fx, v.value, "false")
         [] v.type = "clear_tag" -> SetOp(fx, v.value, "clear")
         [] v.type = "sample" -> IF HashSampleKeyed(t.id, v.value, v.key)
                                 THEN SetOp(fx, "sampled", "true") ELSE fx
         [] v.type = "set_rcode" -> [fx EXCEPT !.rcode = v.value]
         [] v.type = "set_source" -> IF hook = "request" THEN [fx EXCEPT !.src = v.value]
                                     ELSE [fx EXCEPT !.failed = TRUE]
         [] v.type = "set_retry_source" -> [fx EXCEPT !.retrySrc = v.value]
         [] v.type = "clear_retry_source" -> [fx EXCEPT !.clearRetrySrc = TRUE]
         [] v.type = "set_cache_lookup_eligible" -> onRequest([fx EXCEPT !.cacheOk = v.value])
         [] v.type = "response" -> IF hook = "response" THEN fx ELSE [fx EXCEPT !.failed = TRUE]
         [] v.type = "over_limit" -> [fx EXCEPT !.failed = TRUE]

RunOne(hook, t, script) ==
    FoldLeft(LAMBDA fx, v : IF fx.failed THEN fx ELSE ScriptVerb(hook, t, fx, v),
             NoEffects, script)

ApplyTags(tags, ops) ==
    [ flags |-> (tags.flags \cup {k \in DOMAIN ops : ops[k] = "true"})
                  \ {k \in DOMAIN ops : ops[k] \in {"false", "clear"}},
      strings |-> (tags.strings \cup {k \in DOMAIN ops : ops[k] = "string"})
                    \ {k \in DOMAIN ops : ops[k] = "clear"} ]

\* The HostTransaction setters: a verb that was called replaces the field.
Assign(new, old) == IF new = None THEN old ELSE new

\* In the order of apply_effects: a clear of the retry pool, the retry source
\* or the soft drop is applied after the setter, except that a soft drop of
\* the same script survives clear_drop.
ApplyEffects(t, fx) ==
    [t EXCEPT !.pool = IF fx.clearPool THEN None ELSE Assign(fx.pool, @),
              !.retryPool = IF fx.clearRetryPool THEN None ELSE Assign(fx.retryPool, @),
              !.tags = ApplyTags(@, fx.tagOps),
              !.rcode = Assign(fx.rcode, @),
              !.src = Assign(fx.src, @),
              !.retrySrc = IF fx.clearRetrySrc THEN None ELSE Assign(fx.retrySrc, @),
              !.softDrop = fx.softDrop \/ (@ /\ ~fx.clearDrop),
              !.cacheOk = Assign(fx.cacheOk, @)]

\* What a script that ran to its end with effects fx does to t.
Commit(t, fx) ==
    [ t |-> ApplyEffects(t, fx),
      outcome |-> CASE fx.hardDrop -> "DropNow"
                    [] ~fx.hardDrop /\ fx.softDrop -> "Drop"
                    [] ~fx.hardDrop /\ ~fx.softDrop /\ fx.hardRetry -> "RetryNow"
                    [] ~fx.hardDrop /\ ~fx.softDrop /\ ~fx.hardRetry
                         /\ fx.retry /\ ~fx.clearRetry -> "Retry"
                    [] OTHER -> "Ok",
      clearRetry |-> fx.clearRetry ]

CommitUnlessFailed(t, fx) ==
    IF fx.failed THEN [t |-> t, outcome |-> "Ok", clearRetry |-> FALSE] ELSE Commit(t, fx)

\* run_scripts for the one script of a rhai action.
RunScripts(hook, t, script) == CommitUnlessFailed(t, RunOne(hook, t, script))

----------------------------------------------------------------------------
(* Rules.  s = [t, retry, stop] is the state of execute_ordered: the       *)
(* transaction, the soft retry of this rule, and the outcome an action     *)
(* stopped the rule with (None while it runs).                             *)

FinalOutcome(t, retry) == CASE t.softDrop -> "Drop"
                            [] ~t.softDrop /\ retry -> "Retry"
                            [] OTHER -> "Continue"

RetryOutcome(t) == IF t.softDrop THEN "Drop" ELSE "Retry"

ApplyBuiltin(a, s) ==
    CASE a.type = "set_pool" -> [s EXCEPT !.t.pool = a.value]
      [] a.type = "clear_pool" -> [s EXCEPT !.t.pool = None]
      [] a.type = "set_retry_pool" -> [s EXCEPT !.t.retryPool = a.value]
      [] a.type = "clear_retry_pool" -> [s EXCEPT !.t.retryPool = None]
      [] a.type = "set_tag" -> [s EXCEPT !.t.tags = SetString(@, a.value)]
      [] a.type = "clear_tag" -> [s EXCEPT !.t.tags = ClearTag(@, a.value)]
      [] a.type = "retry" -> [s EXCEPT !.retry = TRUE]
      [] a.type = "clear_retry" -> [s EXCEPT !.retry = FALSE]
      [] a.type = "retry_now" -> [s EXCEPT !.stop = RetryOutcome(s.t)]
      [] a.type = "drop" -> [s EXCEPT !.t.softDrop = TRUE]
      [] a.type = "clear_drop" -> [s EXCEPT !.t.softDrop = FALSE]
      [] a.type = "drop_now" -> [s EXCEPT !.stop = "Drop"]
      [] a.type = "set_rcode" -> [s EXCEPT !.t.rcode = a.value]
      [] a.type = "set_source" -> [s EXCEPT !.t.src = a.value]
      [] a.type = "set_retry_source" -> [s EXCEPT !.t.retrySrc = a.value]
      [] a.type = "clear_retry_source" -> [s EXCEPT !.t.retrySrc = None]

\* A plausible slip: a script's clear_retry does not reach the rule.
AfterScript_KeepsRetry(hook, s, r) ==
    [ t |-> r.t,
      stop |-> CASE r.outcome = "DropNow" -> "Drop"
                 [] r.outcome = "RetryNow" /\ hook = "response" -> RetryOutcome(r.t)
                 [] OTHER -> None,
      retry |-> s.retry \/ (r.outcome = "Retry" /\ hook = "response") ]

\* r is what run_scripts returned.
AfterScript(hook, s, r) ==
    [ t |-> r.t,
      stop |-> CASE r.outcome = "DropNow" -> "Drop"
                 [] r.outcome = "RetryNow" /\ hook = "response" -> RetryOutcome(r.t)
                 [] OTHER -> None,
      retry |-> CASE r.outcome = "Retry" /\ hook = "response" -> TRUE
                  [] r.outcome = "Ok" /\ r.clearRetry -> FALSE
                  [] OTHER -> s.retry ]

ApplyAction(hook, a, s) ==
    CASE s.stop # None -> s
      [] s.stop = None /\ a.type = "rhai" -> AfterScript(hook, s, RunScripts(hook, s.t, a.script))
      [] OTHER -> ApplyBuiltin(a, s)

RuleResult(s) ==
    [t |-> s.t, outcome |-> IF s.stop # None THEN s.stop ELSE FinalOutcome(s.t, s.retry)]

ExecuteOrdered(rule, t) ==
    LET step(s, a) == ApplyAction(rule.hook, a, s)
    IN RuleResult(FoldLeft(step, [t |-> t, retry |-> FALSE, stop |-> None], rule.actions))

\* First match: the first rule of the hook whose selectors all match decides.
Eval(hook, rules, t) ==
    LET hit(rule) == rule.hook = hook /\ Matches(rule, t)
        first == SelectInSeq(rules, hit)
    IN IF first = 0 THEN [t |-> t, outcome |-> "Continue"] ELSE ExecuteOrdered(rules[first], t)
=============================================================================
