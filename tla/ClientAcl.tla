----------------------------- MODULE ClientAcl -----------------------------
(***************************************************************************)
(* Client ACLs: the effective policy of a listener, its two evaluation     *)
(* tiers, and the side-effect-free check the control plane offers.         *)
(*                                                                         *)
(* A policy is [default, rules]; a rule is [view, action, tag], view being *)
(* the name of a CIDR data source.  A decision is [act, tag].              *)
(***************************************************************************)
EXTENDS Naturals, Sequences

CONSTANTS None, InView(_, _)    \* InView(view, addr): store.lookup_ip(view, addr).is_some()

AdmitAll == [default |-> "allow", rules |-> <<>>]

Decision(act) == [act |-> act, tag |-> None]

\* A listener's own acls: block replaces the global one; neither admits all.
EffectiveAcl(global, listener) == IF listener # None THEN listener ELSE global

CompileEffective(global, listener) ==
    LET acl == EffectiveAcl(global, listener) IN IF acl = None THEN AdmitAll ELSE acl

\* The first rule whose view holds the address, or None.
FirstMatch(policy, addr) ==
    LET hits == {i \in DOMAIN policy.rules : InView(policy.rules[i].view, addr)}
    IN IF hits = {} THEN None
       ELSE policy.rules[CHOOSE i \in hits : \A j \in hits : i <= j]

\* A plausible slip: any matching drop rule, not the first match.
EvaluatePreadmission_AnyDrop(policy, addr) ==
    IF \E i \in DOMAIN policy.rules :
          policy.rules[i].action = "drop" /\ InView(policy.rules[i].view, addr)
    THEN Decision("drop") ELSE Decision("admit")

\* Tier 0, before the parse: only a first match on drop acts.
EvaluatePreadmission(policy, addr) ==
    LET rule == FirstMatch(policy, addr)
    IN IF rule # None /\ rule.action = "drop" THEN Decision("drop") ELSE Decision("admit")

\* Tier 1, after the parse: the first match, else the default; deny is silent.
EvaluateFull(policy, addr) ==
    LET rule == FirstMatch(policy, addr)
    IN CASE rule = None -> Decision(IF policy.default = "deny" THEN "drop" ELSE "admit")
         [] rule # None /\ rule.action = "tag" -> [act |-> "tag", tag |-> rule.tag]
         [] rule # None /\ rule.action = "accept" -> Decision("admit")
         [] OTHER -> Decision(rule.action)

MatchDetail(policy, addr) ==
    LET rule == FirstMatch(policy, addr)
    IN IF rule = None THEN [matched |-> "default", action |-> policy.default]
       ELSE [matched |-> rule.view, action |-> rule.action]

\* check_client_acl for one listener: what an operator is told about addr.
CheckOneListener(global, listener, addr) ==
    LET policy == CompileEffective(global, listener)
    IN [decision |-> EvaluateFull(policy, addr), detail |-> MatchDetail(policy, addr)]

\* check_client_acl: every listener, or the one the filter names.
CheckClientAcl(config, addr, filter) ==
    LET asked == {l \in DOMAIN config.listeners : filter \in {None, l}}
    IN IF asked = {} THEN [error |-> IF DOMAIN config.listeners = {} THEN "no_listeners"
                                     ELSE "unknown_listener"]
       ELSE [results |-> [l \in asked |->
                CheckOneListener(config.acls, config.listeners[l], addr)]]
=============================================================================
