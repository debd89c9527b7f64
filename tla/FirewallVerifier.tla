--------------------------- MODULE FirewallVerifier ---------------------------
(***************************************************************************)
(* How the daemon looks at the firewall it has made: the verifiers behind  *)
(* GET /api/health/routing (firewall/iptables_verifier.cpp,                *)
(* nftables_verifier.cpp), which compare the live chains with the rule     *)
(* states of the last apply, and test-routing (cmd/test_routing.cpp),      *)
(* which compares what the lists say of an address with the live sets.     *)
(***************************************************************************)
EXTENDS Firewall, FiniteSets

(* The rule states of an apply: for each route rule what it does and the   *)
(* sets it matches by, in the order the rule's lists name them.            *)
RuleStates(s) ==
    LET cfg == ConfigOf(s.plan)
        names(ref) == IF cfg.ipv6
                      THEN <<NameOf(ref, 4, s.target), NameOf(ref, 6, s.target)>>
                      ELSE <<NameOf(ref, 4, s.target)>>
        refs(rule) == SetsOf(Contents[s.plan.content], rule)
    IN  [i \in DOMAIN cfg.rules |->
            [act  |-> RuleAction(cfg, s.plan.sel, cfg.rules[i]),
             sel  |-> cfg.rules[i].sel,
             sets |-> FlattenSeq([k \in DOMAIN refs(cfg.rules[i]) |->
                                     names(refs(cfg.rules[i])[k])])]]

Expect(f, set, rs) == [fam |-> f, set |-> set, sel |-> rs.sel, act |-> rs.act]

(* Mutant: a rule without sets is expected for IPv4 alone.                 *)
ExpandStateIpv4(rs) ==
    IF rs.act = Skip THEN <<>>
    ELSE IF rs.sets # <<>>
         THEN [k \in DOMAIN rs.sets |-> Expect(rs.sets[k].fam, rs.sets[k], rs)]
    ELSE IF rs.sel THEN <<Expect(4, None, rs)>>
    ELSE <<>>

(* expand_expected_rule_states(): a rule by its sets, or by its other      *)
(* selectors in both families                                              *)
ExpandState(rs) ==
    IF rs.act = Skip THEN <<>>
    ELSE IF rs.sets # <<>>
         THEN [k \in DOMAIN rs.sets |-> Expect(rs.sets[k].fam, rs.sets[k], rs)]
    ELSE IF rs.sel THEN <<Expect(4, None, rs), Expect(6, None, rs)>>
    ELSE <<>>

Expected(s) ==
    LET states == RuleStates(s)
    IN  FlattenSeq([i \in DOMAIN states |-> ExpandState(states[i])])

-------------------------------------------------------------------------------
(* A rule that marks is printed as two: the mark, and a RETURN behind it.  *)
Printed(rule) ==
    IF rule.act.kind = "mark" THEN <<rule, [rule EXCEPT !.act = Pass]>> ELSE <<rule>>

(* get_state(): iptables -S of the dispatcher and of the generation it     *)
(* jumps to.  A command that fails prints nothing.                         *)
IptVersion(f) ==
    LET chains == ipt[f]
        rules  == chains.chain[chains.disp.to]
    IN  IF chains.disp.to = None \/ rules = None THEN <<>>
        ELSE FlattenSeq([k \in DOMAIN rules |-> Printed(rules[k])])

(* The rules parsed from what is printed.  Those of DNS detours have a     *)
(* destination, which no rule state has.                                   *)
IptParsed(f) == IF ipt[f].disp = None THEN <<>> ELSE ipt[f].disp.also \o IptVersion(f)

(* nft -j list chain reads prerouting: detours are in another chain.       *)
NftParsed == IF nft = None THEN <<>> ELSE Keep(nft, {r \in ToSet(nft) : r.dst = None})

LiveRules(readable) ==
    IF backend = "nftables" THEN IF readable = {} THEN <<>> ELSE NftParsed
    ELSE (IF 4 \in readable THEN IptParsed(4) ELSE <<>>)
             \o (IF 6 \in readable THEN IptParsed(6) ELSE <<>>)

(* verify_chain(): with iptables one family is enough for either answer.   *)
ChainPresent(readable) ==
    IF backend = "iptables"
    THEN /\ \E f \in readable : ipt[f].disp # None
         /\ \E f \in readable : ipt[f].jumps > 0
    ELSE nft # None /\ readable # {}

(* action_matches(): in nftables a rule that marks ends with an accept, by *)
(* which it is also one that passes.                                       *)
ActionMatches(act, expected) ==
    \/ act = expected
    \/ expected = Pass /\ act.kind = "mark" /\ backend = "nftables"

RuleMatches(live, exp) ==
    /\ live.dst = None /\ live.fam = exp.fam /\ live.set = exp.set /\ live.sel = exp.sel
    /\ ActionMatches(live.act, exp.act)

(* verify_rules(): each expected rule takes the first live one it matches  *)
(* that no other has taken; it is ok if there is one.                      *)
Taken(live, expected) ==
    LET taken[k \in 0 .. Len(expected)] ==
            IF k = 0 THEN {}
            ELSE LET before == taken[k - 1]
                     free   == {i \in DOMAIN live \ before : RuleMatches(live[i], expected[k])}
                 IN  before \cup {i \in free : \A j \in free : i <= j}
    IN  taken[Len(expected)]

(* The firewall's part of overall_ok in build_routing_health_report(),     *)
(* when the tools can read the given families: no rule is missing or wrong *)
HealthOk(readable, expected) ==
    /\ ChainPresent(readable)
    /\ Cardinality(Taken(LiveRules(readable), expected)) = Len(expected)

-------------------------------------------------------------------------------
(* Mutant: the sets dnsmasq fills are forgotten.                           *)
TestSetsOfStatic(rule, f) ==
    LET slot == IF backend = "nftables" THEN "A" ELSE "unversioned"
    IN  {[fam |-> f, list |-> l, slot |-> slot] : l \in ToSet(rule.lists) \cap Lists}

(* The sets that build_fw_rule_states() names for test-routing: those of   *)
(* every list, under the names static_set_name() has unless a backend      *)
(* overrides it, which that of iptables does.                              *)
TestSetsOf(rule, f) ==
    LET slot == IF backend = "nftables" THEN "A" ELSE "unversioned"
    IN  UNION {{[fam |-> f, list |-> l, slot |-> slot], [fam |-> f, list |-> l, slot |-> "d"]} :
                   l \in ToSet(rule.lists) \cap Lists}

(* KernelSetTester::contains(), when the tool is found and fails for some  *)
(* sets: no when there is no such set, and no when it fails.               *)
InKernelSet(name, addr, tool) ==
    name \in SetNames \ tool.failing /\ sets[name] # None /\ addr \in sets[name]

(* find_rule_match(): a list of the rule has the address, or the name that *)
(* was asked for                                                           *)
RuleMatch(p, rule, addr, named) ==
    rule.on /\ \E l \in ToSet(rule.lists) \cap DOMAIN Contents[p.content] :
                   addr \in Contents[p.content][l].ips[FamilyOf(addr)] \/ l \in named

(* The sets of a rule that are asked for the address                       *)
Asked(p, rule, addr) ==
    IF RuleAction(ConfigOf(p), None, rule) = Skip THEN {} ELSE TestSetsOf(rule, FamilyOf(addr))

Default == [outbound |-> "(default)"]

(* find_expected_outbound(), find_actual_outbound(): by the first rule     *)
ExpectedOutbound(p, addr, named) ==
    LET rules == ConfigOf(p).rules
    IN  FirstIn(rules, {r \in ToSet(rules) : RuleMatch(p, r, addr, named)}, Default).outbound

(* Without an answer, as no set was asked or the tool was not found, the   *)
(* outbound is unknown.                                                    *)
ActualOutbound(p, addr, tool) ==
    LET rules == ConfigOf(p).rules
        has(r) == \E name \in Asked(p, r, addr) : InKernelSet(name, addr, tool)
    IN  IF ~tool.found \/ \A r \in ToSet(rules) : Asked(p, r, addr) = {} THEN "(unknown)"
        ELSE FirstIn(rules, {r \in ToSet(rules) : has(r)}, Default).outbound

(* compute_test_routing() for one address                                  *)
TestEntry(p, addr, named, tool) ==
    LET expected == ExpectedOutbound(p, addr, named)
        actual   == ActualOutbound(p, addr, tool)
    IN  [expected |-> expected, actual |-> actual, ok |-> expected = actual]

-------------------------------------------------------------------------------
(* What the last apply committed is in force in every family.              *)
InForce ==
    /\ task.at = "idle" /\ fw.pending = <<>> /\ fw.states # None /\ known # "blind"
    /\ \A f \in EnabledFamilies(fw.states.plan) : served[f] # None /\ served[f].regular
    /\ \A f \in Families : (f = 4 \/ RulesIn(fw.states.plan, f, fw.states.target) # <<>>) =>
           served[f] # None /\ served[f].plan = fw.states.plan

(* nftables makes no IPv6 rule when IPv6 is off; its verifier expects it.  *)
ExpectsTooMuch(expected) ==
    /\ backend = "nftables" /\ ~ConfigOf(fw.states.plan).ipv6
    /\ \E k \in DOMAIN expected : expected[k].fam = 6

(* The report calls the firewall healthy when what the last apply made is  *)
(* in force, and never when a family in which it made rules has lost them, *)
(* nor when the tools could not read that family                           *)
(* (iptables_verifier.cpp:487, nftables_verifier.cpp:699,                  *)
(* routing_health_checker.cpp:147).                                        *)
HealthTellsTheTruth ==
    task.at = "idle" /\ fw.states # None =>
        LET expected == Expected(fw.states)
            families == {f \in Families : \E r \in ToSet(RulesIn(fw.states.plan, f, fw.states.target)) :
                                             r.dst = None}
        IN  /\ InForce /\ ~ExpectsTooMuch(expected) => HealthOk(Families, expected)
            /\ \A readable \in SUBSET Families :
                   HealthOk(readable, expected) =>
                       \A f \in families : /\ served[f] # None
                                           /\ backend = "iptables" => f \in readable

(* The kernel has no set that an earlier apply made and this one does not  *)
(* use: nftables keeps them, and test-routing looks into them.             *)
NothingLeftOver ==
    \A n \in SetNames : sets[n] # None => n \in SetsIn(fw.states.plan, fw.states.target)

(* The lists that an address was learned for                               *)
LearnedFor(addr) ==
    {l \in Lists : addr \in Members[[fam |-> FamilyOf(addr), list |-> l, slot |-> "d"]]}

(* The verdict that an outbound test-routing names stands for              *)
Meant(outbound) ==
    IF outbound = "(default)" THEN Pass
    ELSE RuleAction(ConfigOf(plan), plan.sel, [on |-> TRUE, outbound |-> outbound])

(* What test-routing calls ok names the outbound to which the kernel sends *)
(* what goes to the address, as far as lists decide, also when the tool    *)
(* fails for some sets, and it calls it ok whenever the tool works and a   *)
(* set was asked, for a name that the address was learned for              *)
(* (docs/content/docs/cli.md:76, test_routing.cpp:453).                    *)
TestNamesTheVerdict ==
    InForce /\ NothingLeftOver =>
        LET rules == ConfigOf(plan).rules
        IN  \A p \in {q \in Packets : ~q.local /\ FamilyOf(q.addr) \in EnabledFamilies(plan)} :
                LET asked == UNION {Asked(plan, r, p.addr) : r \in ToSet(rules)}
                IN  \A found \in BOOLEAN, failing \in SUBSET asked :
                        LET entry == TestEntry(plan, p.addr, LearnedFor(p.addr),
                                               [found |-> found, failing |-> failing])
                        IN  /\ found /\ failing = {} /\ asked # {} => entry.ok
                            /\ entry.ok /\ (\A r \in ToSet(rules) : ~r.sel) =>
                                   Verdict(p) = Meant(entry.actual)

(* test-routing tells the truth on nftables (test_routing.cpp:453).        *)
TestTellsTheTruth == backend = "nftables" => TestNamesTheVerdict
==============================================================================
