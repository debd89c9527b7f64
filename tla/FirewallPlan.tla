---------------------------- MODULE FirewallPlan ----------------------------
(***************************************************************************)
(* What apply_runtime_firewall() (firewall/firewall_runtime.cpp) queues    *)
(* for a firewall backend, and what a packet meets when it runs through a  *)
(* chain of such rules.                                                    *)
(*                                                                         *)
(* A configuration is a record: rules, a sequence of route rules (on, its  *)
(* lists, sel when it has other selectors, its outbound); types, the type  *)
(* of every outbound; servers, the DNS servers with a detour; ipv6; clear, *)
(* for clear_dynamic_sets_on_apply.  The other selectors stand for DSCP:   *)
(* like addresses, and unlike ports alone, it needs a rule per family.     *)
(* The contents of a list are its addresses by family and whether it holds *)
(* domains.  Marks are named after their outbounds: Fwmarks gives them     *)
(* different numbers.                                                      *)
(***************************************************************************)
EXTENDS Sequencing

CONSTANTS None, Addresses(_)

Families == {4, 6}

FamilyOf(addr) == CHOOSE f \in Families : addr \in Addresses(f)

HasMark(type) == type \in {"interface", "table", "urltest"}

Skip == [kind |-> "skip", mark |-> None]

Pass == [kind |-> "pass", mark |-> None]

Drop == [kind |-> "drop", mark |-> None]

MarkWith(mark) == [kind |-> "mark", mark |-> mark]

UserMarkOf(tag) == <<"user", tag>>

InternalMarkOf(tag) == <<"internal", tag>>

-------------------------------------------------------------------------------
(* The child a urltest has selected, when the configuration knows it       *)
EffectiveTag(cfg, selected, tag) ==
    IF cfg.types[tag] = "urltest" /\ selected \in DOMAIN cfg.types THEN selected ELSE tag

(* build_fw_rule_states() for one route rule                               *)
RuleAction(cfg, selected, rule) ==
    IF ~rule.on \/ rule.outbound \notin DOMAIN cfg.types THEN Skip
    ELSE IF cfg.types[rule.outbound] = "ignore" THEN Pass
    ELSE LET tag == EffectiveTag(cfg, selected, rule.outbound)
         IN  IF cfg.types[tag] = "blackhole" THEN Drop
             ELSE MarkWith(IF HasMark(cfg.types[tag]) THEN UserMarkOf(tag) ELSE None)

(* analyze_list_set_usage()                                                *)
HasStatic(entries) == \E f \in Families : entries.ips[f] # {}

HasDomains(entries) == entries.domains

(* The sets a route rule matches by: for every list that has such entries  *)
(* the static set, then the set that dnsmasq fills                         *)
SetsOf(content, rule) ==
    LET static(l)  == IF HasStatic(content[l]) THEN <<[list |-> l, dyn |-> FALSE]>> ELSE <<>>
        dynamic(l) == IF HasDomains(content[l]) THEN <<[list |-> l, dyn |-> TRUE]>> ELSE <<>>
        loaded     == Keep(rule.lists, DOMAIN content)
    IN  FlattenSeq([i \in DOMAIN loaded |-> static(loaded[i]) \o dynamic(loaded[i])])

PlanRule(set, sel, dst, act) == [set |-> set, sel |-> sel, dst |-> dst, act |-> act]

(* The rules queued for one route rule.  Without a set the other selectors *)
(* decide alone, also when the rule names lists and all of them are empty. *)
RouteRules(cfg, selected, content, rule) ==
    LET act  == RuleAction(cfg, selected, rule)
        refs == SetsOf(content, rule)
    IN  IF act.kind = "skip" \/ act = MarkWith(None) THEN <<>>
        ELSE IF refs # <<>> THEN [k \in DOMAIN refs |-> PlanRule(refs[k], rule.sel, None, act)]
        ELSE IF rule.sel THEN <<PlanRule(None, TRUE, None, act)>>
        ELSE <<>>

(* The mark of the queries to a DNS server with a detour                   *)
DetourMarkOf(cfg, tag) ==
    IF cfg.types[tag] = "urltest" THEN UserMarkOf(tag) ELSE InternalMarkOf(tag)

DetourRules(cfg) ==
    LET detoured == Keep(cfg.servers, {s \in ToSet(cfg.servers) : /\ s.detour \in DOMAIN cfg.types
                                                                 /\ HasMark(cfg.types[s.detour])})
    IN  [k \in DOMAIN detoured |->
            PlanRule(None, FALSE, detoured[k].addr,
                     MarkWith(DetourMarkOf(cfg, detoured[k].detour)))]

PlannedRules(cfg, selected, content) ==
    FlattenSeq([i \in DOMAIN cfg.rules |-> RouteRules(cfg, selected, content, cfg.rules[i])])
        \o DetourRules(cfg)

(* The sets queued: those of every rule that is not skipped, with or       *)
(* without a mark                                                          *)
PlannedSets(cfg, selected, content) ==
    UNION {ToSet(SetsOf(content, cfg.rules[i])) :
               i \in {j \in DOMAIN cfg.rules : RuleAction(cfg, selected, cfg.rules[j]) # Skip}}

-------------------------------------------------------------------------------
(* A packet: where it goes, whether the selectors of the rules that have   *)
(* some match it, and whether the router itself sends it                   *)
Matches(rule, packet, members) ==
    /\ rule.set # None => packet.addr \in members[rule.set]
    /\ rule.sel => packet.hit
    /\ rule.dst # None => packet.addr = rule.dst

(* The action of the first rule of a chain that matches                    *)
FirstOf(chain, packet, members) ==
    FirstIn(chain, {r \in ToSet(chain) : Matches(r, packet, members)}, [act |-> Pass]).act

(* A route rule as the documentation explains it: one of its lists has the *)
(* address and its other selectors match.                                  *)
Covers(content, rule, packet, learned) ==
    /\ rule.lists # <<>> =>
           \E l \in ToSet(rule.lists) \cap DOMAIN content :
               \/ packet.addr \in content[l].ips[FamilyOf(packet.addr)]
               \/ HasDomains(content[l]) /\ packet.addr \in learned[l]
    /\ rule.sel => packet.hit
    /\ rule.lists # <<>> \/ rule.sel

(* "Rules are checked from top to bottom. The first match wins."  Queries  *)
(* of the router to a detoured server that no rule covers take the detour. *)
Documented(cfg, selected, content, packet, learned) ==
    LET covering == {r \in ToSet(cfg.rules) : /\ RuleAction(cfg, selected, r) \notin {Skip, MarkWith(None)}
                                              /\ Covers(content, r, packet, learned)}
        rule == FirstIn(cfg.rules, covering, None)
    IN  IF rule # None THEN RuleAction(cfg, selected, rule)
        ELSE IF packet.local THEN FirstOf(DetourRules(cfg), packet, <<>>)
        ELSE Pass
==============================================================================
