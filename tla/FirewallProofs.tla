---------------------------- MODULE FirewallProofs ----------------------------
(***************************************************************************)
(* Proofs about Firewall, for any configurations, lists, addresses and     *)
(* packets and any number of applies, failures, crashes and flushes: that  *)
(* the kernel classifies packets as the documentation explains, that what  *)
(* dnsmasq learned is kept, and that a cleanup leaves nothing.             *)
(***************************************************************************)
EXTENDS Firewall, Induction

IptSteps == {"idle", "sweep", "sets", "dispatch", "restore4", "restore6"}

NftSteps == {"idle", "read", "batch"}

Targets == [Families -> Generations]

Memories ==
    [active : [Families -> Generations \cup {None}], owned : [Families -> BOOLEAN],
     created : SUBSET SetNames, pending : Seq(Plans),
     states : [plan : Plans, target : Targets] \cup {None}]

Chains ==
    [jumps : Nat, disp : Dispatchers \cup {None},
     chain : [Generations -> Seq(KernelRules) \cup {None}]]

Tasks == [at : IptSteps \cup NftSteps, mode : Modes, target : Targets, seen : BOOLEAN]

SetStates == [SetNames -> (SUBSET AllAddresses) \cup {None}]

TypeInv ==
    /\ backend \in {"iptables", "nftables"}
    /\ plan \in Plans
    /\ fw \in Memories
    /\ task \in Tasks
    /\ sets \in SetStates
    /\ ipt \in [Families -> Chains]
    /\ nft \in Seq(KernelRules) \cup {None}
    /\ served \in [Families -> [plan : Plans, regular : BOOLEAN] \cup {None}]
    /\ known \in {"yes", "kept", "unswept", "blind"}

(* Each backend leaves the other's part of the kernel alone.  Everything   *)
(* is swept only for a start.  After a crash an object that knows nothing  *)
(* does nothing with iptables before it has swept or is blind.  What       *)
(* nftables has queued ends with what is wanted.                           *)
StepInv ==
    /\ backend = "iptables" => nft = None /\ task.at \in IptSteps
    /\ backend = "nftables" =>
         /\ ipt = [f \in Families |-> NoChains] /\ known \in {"yes", "unswept"}
         /\ task.at \in NftSteps
         /\ task.at # "idle" => fw.pending # <<>> /\ fw.pending[Len(fw.pending)] = plan
    /\ task.at = "sweep" => task.mode = "Destructive"
    /\ backend = "iptables" /\ known = "unswept" => task.at \in {"idle", "sweep"}

(* The sets of nftables are in the table, and sets alone are refreshed in  *)
(* one that was seen.                                                      *)
TableInv ==
    backend = "nftables" =>
        /\ nft = None => \A n \in SetNames : sets[n] = None
        /\ task.at = "batch" /\ task.mode = "StaticSetsOnly" => task.seen

(* dnsmasq adds what it resolves.                                          *)
LearnInv == \A n \in SetNames : Dynamic(n) /\ sets[n] # None => sets[n] \subseteq Resolved

(* The static sets of a plan in a family, under the names of a generation, *)
(* hold what the lists have.                                               *)
StaticName(ref, f, g) == [fam |-> f, list |-> ref.list, slot |-> g]

FilledIn(s, p, g, f) ==
    \A ref \in Sets[p] : ~ref.dyn =>
        s[StaticName(ref, f, g)] = Contents[p.content][ref.list].ips[f]

Filled(p, g, f) == FilledIn(sets, p, g, f)

(* They do before the chains of an apply are made.                         *)
FillInv ==
    backend = "iptables" /\ task.at \in {"dispatch", "restore4", "restore6"} =>
        \A f \in EnabledFamilies(plan) : Filled(plan, task.target[f], f)

(* An object that knows what is in the kernel fills another generation     *)
(* than the one in use.                                                    *)
UseInv ==
    backend = "iptables" /\ known \in {"yes", "kept"} =>
        \A f \in Families : served[f] # None =>
            /\ fw.active[f] # None /\ ipt[f].disp # None /\ ipt[f].disp.to = fw.active[f]
            /\ task.at = "sets" => task.target[f] # fw.active[f]

(* The chains and sets in use are those of the plan that is served.        *)
IptHas(f, p) ==
    /\ ipt[f].jumps # 0
    /\ \E target \in Targets :
         /\ ipt[f].disp = [to |-> target[f], also |-> <<>>]
         /\ ipt[f].chain[target[f]] = RulesIn(p, f, target)
         /\ Filled(p, target[f], f)

NftHas(f, p) ==
    /\ nft = RulesIn(p, 4, NftTarget) \o RulesIn(p, 6, NftTarget)
    /\ Filled(p, "A", f)

Has(f, p) == IF backend = "iptables" THEN IptHas(f, p) ELSE NftHas(f, p)

ServeInv ==
    known # "blind" => \A f \in Families, p \in Plans :
        served[f] # None /\ served[f].regular /\ served[f].plan = p =>
            f \in EnabledFamilies(p) /\ ~Widened(p) /\ Has(f, p)

(* What is in the kernel and the object does not know of is a dynamic set  *)
(* that was kept.                                                          *)
OwnInv ==
    backend = "iptables" =>
        /\ known # "blind" => \A f \in Families : ipt[f].jumps <= 1
        /\ task.at # "idle" => SetsIn(plan, task.target) \subseteq fw.created
        /\ known \in {"yes", "kept"} =>
             /\ \A f \in Families : /\ ~fw.owned[f] => ipt[f] = NoChains
                                    /\ fw.owned[f] <=> fw.active[f] # None
             /\ \A n \in SetNames : sets[n] # None =>
                    n \in fw.created \/ (Dynamic(n) /\ known = "kept")

Inv == TypeInv /\ StepInv /\ TableInv /\ LearnInv /\ FillInv /\ UseInv /\ ServeInv /\ OwnInv

-------------------------------------------------------------------------------
(* What a plan consists of                                                 *)
PlanRules ==
    [set : SetRefs \cup {None}, sel : BOOLEAN, dst : ServerAddresses \cup {None}, act : Verdicts]

(* A set of a list is queued when the list has entries for it.             *)
Fed(content, ref) ==
    IF ref.dyn THEN HasDomains(content[ref.list]) ELSE HasStatic(content[ref.list])

(* The sets of one list: the static one when it has addresses, then the    *)
(* dynamic one when it has domains.                                        *)
StaticOf(entries, l) == IF HasStatic(entries) THEN <<[list |-> l, dyn |-> FALSE]>> ELSE <<>>

DynamicOf(entries, l) == IF HasDomains(entries) THEN <<[list |-> l, dyn |-> TRUE]>> ELSE <<>>

(* They are those of the list that are fed.                                *)
LEMMA ListSets ==
    ASSUME NEW c \in DOMAIN Contents, NEW l \in DOMAIN Contents[c]
    PROVE  /\ StaticOf(Contents[c][l], l) \o DynamicOf(Contents[c][l], l) \in Seq(SetRefs)
           /\ \A ref \in SetRefs :
                  ref \in ToSet(StaticOf(Contents[c][l], l) \o DynamicOf(Contents[c][l], l)) <=>
                      ref.list = l /\ Fed(Contents[c], ref)
<1> DEFINE x == [list |-> l, dyn |-> FALSE]
           y == [list |-> l, dyn |-> TRUE]
           a == StaticOf(Contents[c][l], l)
           b == DynamicOf(Contents[c][l], l)
<1>1. l \in Lists
  BY DEF Lists
<1>2. x \in SetRefs /\ y \in SetRefs
  BY <1>1 DEF SetRefs
<1>3. \A ref \in SetRefs : ref.list = l => (ref.dyn => ref = y) /\ (~ref.dyn => ref = x)
  BY <1>1 DEF SetRefs
<1>4. ~x.dyn /\ y.dyn /\ x.list = l /\ y.list = l
  OBVIOUS
<1>5. a = IF HasStatic(Contents[c][l]) THEN <<x>> ELSE <<>>
  BY DEF StaticOf
<1>6. b = IF HasDomains(Contents[c][l]) THEN <<y>> ELSE <<>>
  BY DEF DynamicOf
<1> HIDE DEF x, y, a, b
<1>7. <<>> \in Seq(SetRefs) /\ ToSet(<<>>) = {}
  BY DEF ToSet
<1>8. \A z \in SetRefs : <<z>> \in Seq(SetRefs) /\ ToSet(<<z>>) = {z}
  BY DEF ToSet
<1>9. a \in Seq(SetRefs) /\ \A r : r \in ToSet(a) <=> HasStatic(Contents[c][l]) /\ r = x
  BY <1>2, <1>5, <1>7, <1>8
<1>10. b \in Seq(SetRefs) /\ \A r : r \in ToSet(b) <=> HasDomains(Contents[c][l]) /\ r = y
  BY <1>2, <1>6, <1>7, <1>8
<1>11. a \o b \in Seq(SetRefs) /\ ToSet(a \o b) = ToSet(a) \cup ToSet(b)
  <2>1. a \in Seq(SetRefs) /\ b \in Seq(SetRefs)
    BY <1>9, <1>10
  <2> QED
    BY <2>1, ToSetConcat
<1>12. ASSUME NEW ref \in SetRefs
       PROVE  ref \in ToSet(a \o b) <=> ref.list = l /\ Fed(Contents[c], ref)
  <2>1. ASSUME ref \in ToSet(a \o b) PROVE ref.list = l /\ Fed(Contents[c], ref)
    <3>1. \/ ref = x /\ HasStatic(Contents[c][l])
          \/ ref = y /\ HasDomains(Contents[c][l])
      BY <2>1, <1>9, <1>10, <1>11
    <3> QED
      BY <3>1, <1>4 DEF Fed
  <2>2. ASSUME ref.list = l /\ Fed(Contents[c], ref) PROVE ref \in ToSet(a \o b)
    <3>1. \/ ref = x /\ HasStatic(Contents[c][l])
          \/ ref = y /\ HasDomains(Contents[c][l])
      <4>1. CASE ref.dyn
        BY <4>1, <2>2, <1>3 DEF Fed
      <4>2. CASE ~ref.dyn
        BY <4>2, <2>2, <1>3 DEF Fed
      <4> QED
        BY <4>1, <4>2
    <3> QED
      BY <3>1, <1>9, <1>10, <1>11
  <2> QED
    BY <2>1, <2>2
<1> QED
  BY <1>11, <1>12 DEF a, b

(* The sets a route rule matches by are those of its lists that are fed.   *)
LEMMA SetsOfFacts ==
    ASSUME NEW c \in DOMAIN Contents, NEW rule \in ConfiguredRules
    PROVE  /\ SetsOf(Contents[c], rule) \in Seq(SetRefs)
           /\ \A ref \in SetRefs : ref \in ToSet(SetsOf(Contents[c], rule)) <=>
                  ref.list \in ToSet(rule.lists) \cap DOMAIN Contents[c] /\ Fed(Contents[c], ref)
<1> DEFINE content == Contents[c]
           loaded  == Keep(rule.lists, DOMAIN content)
           both(l) == StaticOf(content[l], l) \o DynamicOf(content[l], l)
           ss      == [i \in DOMAIN loaded |-> both(loaded[i])]
<1>1. SetsOf(Contents[c], rule) = FlattenSeq(ss)
  BY DEF SetsOf, StaticOf, DynamicOf
<1>2. rule.lists \in Seq(STRING)
  BY DEF ConfiguredRules
<1>3. loaded \in Seq(STRING) /\ ToSet(loaded) = ToSet(rule.lists) \cap DOMAIN content
  <2> DEFINE s == rule.lists
             D == DOMAIN content
  <2>1. s \in Seq(STRING)
    BY <1>2
  <2> HIDE DEF s, D
  <2>2. Keep(s, D) \in Seq(STRING) /\ ToSet(Keep(s, D)) = ToSet(s) \cap D
    BY <2>1, KeepFacts
  <2> QED
    BY <2>2 DEF s, D
<1>6. \A l \in DOMAIN content :
          /\ both(l) \in Seq(SetRefs)
          /\ \A ref \in SetRefs : ref \in ToSet(both(l)) <=> ref.list = l /\ Fed(content, ref)
  BY ListSets
<1> HIDE DEF both, loaded, ss, content
<1>7. \A i \in DOMAIN loaded : loaded[i] \in DOMAIN content
  BY <1>3 DEF ToSet
<1>8. ss \in [DOMAIN loaded -> Seq(SetRefs)]
  BY <1>6, <1>7 DEF ss
<1>9. ss \in Seq(Seq(SetRefs)) /\ DOMAIN ss = DOMAIN loaded
  <2>1. Len(loaded) \in Nat /\ DOMAIN loaded = 1 .. Len(loaded)
    BY <1>3
  <2> DEFINE Y == Seq(SetRefs)
  <2>2. ss \in [1 .. Len(loaded) -> Y]
    BY <1>8, <2>1
  <2> HIDE DEF Y
  <2> QED
    BY <2>1, <2>2, SeqOf DEF Y
<1>10. /\ FlattenSeq(ss) \in Seq(SetRefs)
       /\ ToSet(FlattenSeq(ss)) = UNION {ToSet(ss[i]) : i \in DOMAIN ss}
  <2> HIDE DEF SetRefs
  <2> QED
    BY <1>9, FlattenFacts
<1>11. ASSUME NEW ref \in SetRefs
       PROVE  ref \in ToSet(FlattenSeq(ss)) <=>
                  ref.list \in ToSet(rule.lists) \cap DOMAIN content /\ Fed(content, ref)
  <2>1. ref \in ToSet(FlattenSeq(ss)) <=> \E i \in DOMAIN loaded : ref \in ToSet(both(loaded[i]))
    BY <1>9, <1>10, Zenon DEF ss
  <2>2. ref \in ToSet(FlattenSeq(ss)) <=>
            \E i \in DOMAIN loaded : ref.list = loaded[i] /\ Fed(content, ref)
    BY <2>1, <1>6, <1>7
  <2>3. ref.list \in ToSet(loaded) <=> \E i \in DOMAIN loaded : ref.list = loaded[i]
    BY DEF ToSet
  <2> QED
    BY <2>2, <2>3, <1>3
<1> QED
  BY <1>1, <1>10, <1>11 DEF content

(* The action of a route rule is a verdict; it is skipped or it is not.    *)
LEMMA RuleActionFacts ==
    ASSUME NEW p \in Plans, NEW rule \in ConfiguredRules
    PROVE  /\ RuleAction(ConfigOf(p), p.sel, rule) \in Verdicts
           /\ RuleAction(ConfigOf(p), p.sel, rule).kind = "skip" <=>
                  RuleAction(ConfigOf(p), p.sel, rule) = Skip
<1> DEFINE cfg == ConfigOf(p)
           out == rule.outbound
           tag == EffectiveTag(cfg, p.sel, out)
           act == RuleAction(cfg, p.sel, rule)
           mark == IF HasMark(cfg.types[tag]) THEN UserMarkOf(tag) ELSE None
<1>1. \/ act = Skip
      \/ out \in DOMAIN cfg.types /\ (act = Pass \/ act = Drop \/ act = MarkWith(mark))
  BY DEF RuleAction
<1>2. out \in DOMAIN cfg.types => tag \in DOMAIN cfg.types
  BY DEF EffectiveTag
<1>3. DOMAIN cfg.types \subseteq Outbounds
  <2>1. p.cfg \in DOMAIN Configs
    BY DEF Plans
  <2> QED
    BY <2>1 DEF Outbounds, ConfigOf
<1>4. tag \in Outbounds => UserMarkOf(tag) \in {"user", "internal"} \X Outbounds
  BY DEF UserMarkOf
<1>5. out \in DOMAIN cfg.types => mark \in {"user", "internal"} \X Outbounds \cup {None}
  BY <1>2, <1>3, <1>4
<1> HIDE DEF mark, act
<1>6. CASE act = Skip
  BY <1>6 DEF Skip, Verdicts, act
<1>7. CASE act = Pass \/ act = Drop
  BY <1>7 DEF Skip, Pass, Drop, Verdicts, act
<1>8. CASE out \in DOMAIN cfg.types /\ act = MarkWith(mark)
  BY <1>8, <1>5 DEF Skip, MarkWith, Verdicts, act
<1> QED
  BY <1>1, <1>6, <1>7, <1>8

(* A route rule of a plan                                                  *)
Queues(p, rule) == RuleAction(ConfigOf(p), p.sel, rule) \notin {Skip, MarkWith(None)}

RulesFor(p, rule) == RouteRules(ConfigOf(p), p.sel, Contents[p.content], rule)

RefsOf(p, rule) == SetsOf(Contents[p.content], rule)

(* The rules queued for a route rule have its action and its selectors;    *)
(* there is one for each of its sets, or one without a set.                *)
LEMMA RouteRulesFacts ==
    ASSUME NEW p \in Plans, NEW rule \in ConfiguredRules
    PROVE  /\ RulesFor(p, rule) \in Seq(PlanRules)
           /\ \A r : r \in ToSet(RulesFor(p, rule)) <=>
                  /\ Queues(p, rule)
                  /\ \/ \E ref \in ToSet(RefsOf(p, rule)) :
                            r = PlanRule(ref, rule.sel, None, RuleAction(ConfigOf(p), p.sel, rule))
                     \/ /\ RefsOf(p, rule) = <<>> /\ rule.sel
                        /\ r = PlanRule(None, TRUE, None, RuleAction(ConfigOf(p), p.sel, rule))
<1> DEFINE act == RuleAction(ConfigOf(p), p.sel, rule)
           refs == RefsOf(p, rule)
           ruled == [k \in DOMAIN refs |-> PlanRule(refs[k], rule.sel, None, act)]
           alone == PlanRule(None, TRUE, None, act)
<1>1. act \in Verdicts /\ (act.kind = "skip" <=> act = Skip)
  BY RuleActionFacts
<1>2. p.content \in DOMAIN Contents /\ rule.sel \in BOOLEAN
  BY DEF Plans, ConfiguredRules
<1>3. refs \in Seq(SetRefs)
  BY <1>2, SetsOfFacts DEF RefsOf
<1>4. RulesFor(p, rule) = IF act.kind = "skip" \/ act = MarkWith(None) THEN <<>>
                          ELSE IF refs # <<>> THEN ruled
                          ELSE IF rule.sel THEN <<alone>>
                          ELSE <<>>
  BY DEF RulesFor, RouteRules, RefsOf
<1>5. Queues(p, rule) <=> ~(act.kind = "skip" \/ act = MarkWith(None))
  BY <1>1 DEF Queues
<1> HIDE DEF act, refs
<1>6. \A ref \in SetRefs : PlanRule(ref, rule.sel, None, act) \in PlanRules
  BY <1>1, <1>2 DEF PlanRule, PlanRules
<1>7. alone \in PlanRules
  BY <1>1 DEF PlanRule, PlanRules
<1> HIDE DEF alone
<1>8. <<>> \in Seq(PlanRules) /\ ToSet(<<>>) = {}
  BY DEF ToSet
<1>9. <<alone>> \in Seq(PlanRules) /\ ToSet(<<alone>>) = {alone}
  <2> HIDE DEF PlanRules
  <2> QED
    BY <1>7 DEF ToSet
<1>10. Len(refs) \in Nat /\ DOMAIN refs = 1 .. Len(refs) /\ \A k \in DOMAIN refs : refs[k] \in SetRefs
  <2> HIDE DEF SetRefs
  <2> QED
    BY <1>3
<1>11. ruled \in [1 .. Len(refs) -> PlanRules]
  BY <1>6, <1>10
<1>12. ruled \in Seq(PlanRules) /\ DOMAIN ruled = DOMAIN refs
  <2> HIDE DEF ruled, PlanRules
  <2> QED
    BY <1>10, <1>11, SeqOf
<1>13. \A r : r \in ToSet(ruled) <=>
           \E ref \in ToSet(refs) : r = PlanRule(ref, rule.sel, None, act)
  BY DEF ToSet
<1>14. refs = <<>> => ToSet(refs) = {}
  BY <1>8
<1> HIDE DEF ruled
<1>15. CASE ~Queues(p, rule)
  BY <1>4, <1>5, <1>8, <1>15, Zenon
<1>16. CASE Queues(p, rule) /\ refs # <<>>
  <2>1. RulesFor(p, rule) = ruled
    BY <1>4, <1>5, <1>16
  <2> QED
    BY <2>1, <1>12, <1>13, <1>16, Zenon DEF act, refs
<1>17. CASE Queues(p, rule) /\ refs = <<>> /\ rule.sel
  <2>1. RulesFor(p, rule) = <<alone>>
    BY <1>4, <1>5, <1>17
  <2>2. \A r : r \in ToSet(RulesFor(p, rule)) <=> r = alone
    BY <2>1, <1>9
  <2> QED
    BY <2>1, <2>2, <1>9, <1>14, <1>17, Zenon DEF act, refs, alone
<1>18. CASE Queues(p, rule) /\ refs = <<>> /\ ~rule.sel
  <2>1. RulesFor(p, rule) = <<>>
    BY <1>4, <1>5, <1>18
  <2> QED
    BY <2>1, <1>8, <1>14, <1>18, Zenon DEF refs
<1> QED
  BY <1>15, <1>16, <1>17, <1>18, Zenon

(* The rules of DNS detours go by an address alone.                        *)
LEMMA DetourRulesFacts ==
    ASSUME NEW p \in Plans
    PROVE  /\ DetourRules(ConfigOf(p)) \in Seq(PlanRules)
           /\ \A r \in ToSet(DetourRules(ConfigOf(p))) :
                  r.set = None /\ r.sel = FALSE /\ r.dst \in ServerAddresses
<1> DEFINE cfg == ConfigOf(p)
           X == [addr : ServerAddresses, detour : STRING]
           S == {s \in ToSet(cfg.servers) : /\ s.detour \in DOMAIN cfg.types
                                            /\ HasMark(cfg.types[s.detour])}
           servers == cfg.servers
           detoured == Keep(servers, S)
           rule(s) == PlanRule(None, FALSE, s.addr, MarkWith(DetourMarkOf(cfg, s.detour)))
           rules == [k \in DOMAIN detoured |-> rule(detoured[k])]
<1>1. DetourRules(cfg) = rules
  BY DEF DetourRules
<1>2. p.cfg \in DOMAIN Configs
  BY DEF Plans
<1>3. servers \in Seq(X)
  BY <1>2, FirewallAssumption, Zenon DEF ConfigOf
<1>4. DOMAIN cfg.types \subseteq Outbounds
  BY <1>2 DEF Outbounds, ConfigOf
<1>5. ASSUME NEW s \in X, s \in S
      PROVE  /\ rule(s) \in PlanRules /\ rule(s).set = None /\ rule(s).sel = FALSE
             /\ rule(s).dst \in ServerAddresses
  <2>1. s.addr \in ServerAddresses
    OBVIOUS
  <2>2. s.detour \in Outbounds
    BY <1>4, <1>5
  <2>3. DetourMarkOf(cfg, s.detour) \in {"user", "internal"} \X Outbounds
    BY <2>2 DEF DetourMarkOf, UserMarkOf, InternalMarkOf
  <2> DEFINE m == DetourMarkOf(cfg, s.detour)
  <2> HIDE DEF m, cfg
  <2>4. MarkWith(m) \in Verdicts
    BY <2>3 DEF MarkWith, Verdicts, m
  <2> QED
    BY <2>1, <2>4 DEF PlanRule, PlanRules, m
<1> HIDE DEF S, X, servers
<1>6. detoured \in Seq(X) /\ ToSet(detoured) = ToSet(servers) \cap S
  BY <1>3, KeepFacts
<1> HIDE DEF detoured
<1>7. Len(detoured) \in Nat /\ DOMAIN detoured = 1 .. Len(detoured) /\ \A k \in DOMAIN detoured : detoured[k] \in X
  BY <1>6
<1>8. \A k \in DOMAIN detoured : detoured[k] \in S
  BY <1>6 DEF ToSet
<1> HIDE DEF rule
<1>9. \A k \in DOMAIN detoured : /\ rule(detoured[k]) \in PlanRules
                                 /\ rule(detoured[k]).set = None /\ rule(detoured[k]).sel = FALSE
                                 /\ rule(detoured[k]).dst \in ServerAddresses
  BY <1>5, <1>7, <1>8, Zenon
<1>10. rules \in [1 .. Len(detoured) -> PlanRules]
  BY <1>7, <1>9
<1>11. rules \in Seq(PlanRules)
  <2> HIDE DEF rules, PlanRules
  <2> QED
    BY <1>7, <1>10, SeqOf
<1>12. \A r \in ToSet(rules) : r.set = None /\ r.sel = FALSE /\ r.dst \in ServerAddresses
  BY <1>9 DEF ToSet
<1> QED
  BY <1>1, <1>11, <1>12

(* The rules queued for the route rules of a plan, one sequence for each   *)
RouteRulesOf(p) == [i \in DOMAIN ConfigOf(p).rules |-> RulesFor(p, ConfigOf(p).rules[i])]

(* The rules of a plan are those of its route rules and of its detours.    *)
LEMMA RulesFacts ==
    ASSUME NEW p \in Plans
    PROVE  /\ ConfigOf(p).rules \in Seq(ConfiguredRules)
           /\ RouteRulesOf(p) \in Seq(Seq(PlanRules))
           /\ FlattenSeq(RouteRulesOf(p)) \in Seq(PlanRules)
           /\ Rules[p] = FlattenSeq(RouteRulesOf(p)) \o DetourRules(ConfigOf(p))
           /\ Rules[p] \in Seq(PlanRules)
<1> DEFINE rules == ConfigOf(p).rules
<1>1. rules \in Seq(ConfiguredRules)
  <2>1. p.cfg \in DOMAIN Configs
    BY DEF Plans
  <2> QED
    BY <2>1, FirewallAssumption DEF ConfigOf
<1> HIDE DEF rules
<1>2. Len(rules) \in Nat /\ DOMAIN rules = 1 .. Len(rules) /\ \A i \in DOMAIN rules : rules[i] \in ConfiguredRules
  <2> HIDE DEF ConfiguredRules
  <2> QED
    BY <1>1
<1>3. \A i \in DOMAIN rules : RulesFor(p, rules[i]) \in Seq(PlanRules)
  BY <1>2, RouteRulesFacts, Zenon
<1>4. RouteRulesOf(p) \in [1 .. Len(rules) -> Seq(PlanRules)]
  BY <1>2, <1>3 DEF RouteRulesOf, rules
<1>5. RouteRulesOf(p) \in Seq(Seq(PlanRules))
  <2> DEFINE Y == Seq(PlanRules)
             s == RouteRulesOf(p)
  <2>1. s \in [1 .. Len(rules) -> Y]
    BY <1>4
  <2> HIDE DEF Y, s
  <2>2. s \in Seq(Y)
    BY <1>2, <2>1, SeqOf
  <2> QED
    BY <2>2 DEF Y, s
<1>6. FlattenSeq(RouteRulesOf(p)) \in Seq(PlanRules)
  <2> DEFINE s == RouteRulesOf(p)
  <2> HIDE DEF s, PlanRules
  <2>1. FlattenSeq(s) \in Seq(PlanRules)
    BY <1>5, FlattenFacts DEF s
  <2> QED
    BY <2>1 DEF s
<1>7. Rules[p] = FlattenSeq(RouteRulesOf(p)) \o DetourRules(ConfigOf(p))
  BY DEF Rules, PlannedRules, RouteRulesOf, RulesFor
<1>8. Rules[p] \in Seq(PlanRules)
  <2> DEFINE a == FlattenSeq(RouteRulesOf(p))
             b == DetourRules(ConfigOf(p))
  <2>1. a \in Seq(PlanRules) /\ b \in Seq(PlanRules)
    BY <1>6, DetourRulesFacts, Zenon
  <2> HIDE DEF a, b, PlanRules
  <2>2. a \o b \in Seq(PlanRules)
    BY <2>1
  <2> QED
    BY <2>2, <1>7 DEF a, b
<1> QED
  BY <1>1, <1>5, <1>6, <1>7, <1>8, Zenon DEF rules

(* The sets of a plan are fed by lists that are loaded.                    *)
LEMMA SetsFacts ==
    ASSUME NEW p \in Plans
    PROVE  /\ Sets[p] \subseteq SetRefs
           /\ \A ref \in Sets[p] : ref.list \in DOMAIN Contents[p.content]
           /\ \A i \in DOMAIN ConfigOf(p).rules : Queues(p, ConfigOf(p).rules[i]) =>
                  ToSet(RefsOf(p, ConfigOf(p).rules[i])) \subseteq Sets[p]
<1> DEFINE rules == ConfigOf(p).rules
<1>1. Sets[p] = UNION {ToSet(RefsOf(p, rules[i])) :
                          i \in {j \in DOMAIN rules : RuleAction(ConfigOf(p), p.sel, rules[j]) # Skip}}
  BY DEF Sets, PlannedSets, RefsOf
<1>2. rules \in Seq(ConfiguredRules)
  BY RulesFacts
<1>3. p.content \in DOMAIN Contents
  BY DEF Plans
<1> HIDE DEF rules
<1>4. \A i \in DOMAIN rules : rules[i] \in ConfiguredRules
  <2> HIDE DEF ConfiguredRules
  <2> QED
    BY <1>2
<1>5. ASSUME NEW i \in DOMAIN rules
      PROVE  /\ ToSet(RefsOf(p, rules[i])) \subseteq SetRefs
             /\ \A ref \in ToSet(RefsOf(p, rules[i])) : ref.list \in DOMAIN Contents[p.content]
  <2> DEFINE refs == RefsOf(p, rules[i])
  <2>1. /\ refs \in Seq(SetRefs)
        /\ \A ref \in SetRefs : ref \in ToSet(refs) => ref.list \in DOMAIN Contents[p.content]
    BY <1>3, <1>4, SetsOfFacts DEF RefsOf
  <2> HIDE DEF refs, SetRefs
  <2>2. ToSet(refs) \subseteq SetRefs
    BY <2>1 DEF ToSet
  <2> QED
    BY <2>1, <2>2 DEF refs
<1>6. \A i \in DOMAIN rules : Queues(p, rules[i]) => ToSet(RefsOf(p, rules[i])) \subseteq Sets[p]
  BY <1>1 DEF Queues
<1> QED
  BY <1>1, <1>5, <1>6 DEF rules

(* The names of the sets of a plan in a family.                            *)
LEMMA NamesFacts ==
    ASSUME NEW p \in Plans, NEW target \in Targets
    PROVE  /\ \A ref \in SetRefs, f \in Families :
                  /\ NameOf(ref, f, target) \in SetNames
                  /\ NameOf(ref, f, target).fam = f /\ NameOf(ref, f, target).list = ref.list
                  /\ NameOf(ref, f, target).slot = IF ref.dyn THEN "d" ELSE target[f]
           /\ SetsIn(p, target) \subseteq SetNames
           /\ \A n \in SetsIn(p, target) : n.list \in DOMAIN Contents[p.content]
<1>1. ASSUME NEW ref \in SetRefs, NEW f \in Families
      PROVE  /\ NameOf(ref, f, target) \in SetNames
             /\ NameOf(ref, f, target).fam = f /\ NameOf(ref, f, target).list = ref.list
             /\ NameOf(ref, f, target).slot = IF ref.dyn THEN "d" ELSE target[f]
  <2>1. ref.list \in Lists /\ target[f] \in Generations
    BY DEF SetRefs, Targets
  <2> QED
    BY <2>1 DEF NameOf, SetNames
<1>2. Sets[p] \subseteq SetRefs /\ \A ref \in Sets[p] : ref.list \in DOMAIN Contents[p.content]
  BY SetsFacts
<1>3. EnabledFamilies(p) \subseteq Families
  BY DEF EnabledFamilies, Families
<1>4. \A n \in SetsIn(p, target) : \E ref \in Sets[p], f \in Families : n = NameOf(ref, f, target)
  BY <1>3 DEF SetsIn
<1>5. \A n \in SetsIn(p, target) : n \in SetNames /\ n.list \in DOMAIN Contents[p.content]
  <2> TAKE n \in SetsIn(p, target)
  <2>1. PICK ref \in Sets[p], f \in Families : n = NameOf(ref, f, target)
    BY <1>4
  <2>2. ref \in SetRefs
    BY <1>2
  <2>3. n \in SetNames /\ n.list = ref.list
    BY <2>1, <2>2, <1>1
  <2> QED
    BY <2>3, <1>2
<1> QED
  BY <1>1, <1>5

(* The rules of a plan that are in a family, and what becomes of one in    *)
(* the kernel                                                              *)
Mine(p, f) == Keep(Rules[p], {r \in ToSet(Rules[p]) : InFamily(r, f, p)})

InKernel(r, f, target) ==
    [fam |-> f, sel |-> r.sel, dst |-> r.dst, act |-> r.act,
     set |-> IF r.set = None THEN None ELSE NameOf(r.set, f, target)]

(* The rules of a plan in a family, one by one.                            *)
LEMMA RulesInFacts ==
    ASSUME NEW p \in Plans, NEW f \in Families, NEW target \in Targets
    PROVE  /\ Mine(p, f) \in Seq(PlanRules)
           /\ RulesIn(p, f, target) \in Seq(KernelRules)
           /\ DOMAIN RulesIn(p, f, target) = DOMAIN Mine(p, f)
           /\ \A k \in DOMAIN Mine(p, f) :
                  /\ Mine(p, f)[k] \in PlanRules /\ Mine(p, f)[k] \in ToSet(Rules[p])
                  /\ RulesIn(p, f, target)[k] = InKernel(Mine(p, f)[k], f, target)
<1> DEFINE s == Rules[p]
           S == {r \in ToSet(s) : InFamily(r, f, p)}
           mine == Mine(p, f)
<1>1. s \in Seq(PlanRules)
  BY RulesFacts
<1>2. mine = Keep(s, S)
  BY Zenon DEF Mine
<1>3. RulesIn(p, f, target) = [k \in DOMAIN mine |-> InKernel(mine[k], f, target)]
  BY DEF RulesIn, Mine, InKernel
<1> HIDE DEF s, S, mine
<1>4. mine \in Seq(PlanRules) /\ ToSet(mine) \subseteq ToSet(s)
  <2> HIDE DEF PlanRules
  <2>1. Keep(s, S) \in Seq(PlanRules) /\ ToSet(Keep(s, S)) = ToSet(s) \cap S
    BY <1>1, KeepFacts
  <2> QED
    BY <2>1, <1>2
<1>5. Len(mine) \in Nat /\ DOMAIN mine = 1 .. Len(mine) /\ \A k \in DOMAIN mine : mine[k] \in PlanRules
  <2> HIDE DEF PlanRules
  <2> QED
    BY <1>4
<1>6. \A k \in DOMAIN mine : mine[k] \in ToSet(s)
  BY <1>4, Zenon DEF ToSet
<1>7. ASSUME NEW r \in PlanRules PROVE InKernel(r, f, target) \in KernelRules
  <2> DEFINE n == IF r.set = None THEN None ELSE NameOf(r.set, f, target)
  <2>1. /\ r.sel \in BOOLEAN /\ r.dst \in ServerAddresses \cup {None} /\ r.act \in Verdicts
        /\ r.set # None => r.set \in SetRefs
    BY DEF PlanRules
  <2>2. n \in SetNames \cup {None}
    BY <2>1, NamesFacts
  <2>3. InKernel(r, f, target) = [fam |-> f, sel |-> r.sel, dst |-> r.dst, act |-> r.act, set |-> n]
    BY DEF InKernel
  <2> HIDE DEF n, SetNames, Verdicts
  <2> QED
    BY <2>1, <2>2, <2>3 DEF KernelRules
<1>8. RulesIn(p, f, target) \in [1 .. Len(mine) -> KernelRules]
  BY <1>3, <1>5, <1>7
<1>9. RulesIn(p, f, target) \in Seq(KernelRules)
  <2> DEFINE t == RulesIn(p, f, target)
  <2> HIDE DEF t, KernelRules
  <2>1. t \in [1 .. Len(mine) -> KernelRules]
    BY <1>8 DEF t
  <2>2. t \in Seq(KernelRules)
    BY <1>5, <2>1, SeqOf
  <2> QED
    BY <2>2 DEF t
<1>10. DOMAIN RulesIn(p, f, target) = DOMAIN mine
  BY <1>3
<1>11. \A k \in DOMAIN mine : RulesIn(p, f, target)[k] = InKernel(mine[k], f, target)
  BY <1>3
<1> QED
  BY <1>4, <1>5, <1>6, <1>9, <1>10, <1>11, Zenon DEF mine, s

-------------------------------------------------------------------------------
(* An address has one family.                                              *)
LEMMA FamilyFacts ==
    /\ \A a \in AllAddresses : FamilyOf(a) \in Families /\ a \in Addresses(FamilyOf(a))
    /\ \A p \in Packets : p.addr \in AllAddresses
<1>1. ASSUME NEW a \in AllAddresses
      PROVE  FamilyOf(a) \in Families /\ a \in Addresses(FamilyOf(a))
  <2>1. \E f \in Families : a \in Addresses(f)
    BY DEF AllAddresses, Families
  <2> QED
    BY <2>1 DEF FamilyOf
<1>2. \A p \in Packets : p.addr \in AllAddresses
  <2> SUFFICES ASSUME NEW p \in Packets PROVE p.addr \in AllAddresses
    OBVIOUS
  <2>1. p \in [addr : AllAddresses, hit : BOOLEAN, local : BOOLEAN]
    BY PacketsAssumption, Zenon
  <2> QED
    BY <2>1
<1> QED
  BY <1>1, <1>2

(* What the sets of a plan hold for a packet, by list and kind             *)
Holding(p, packet, M, learned) ==
    \A ref \in Sets[p] :
        packet.addr \in M[ref] <=>
            IF ref.dyn THEN packet.addr \in learned[ref.list]
            ELSE packet.addr \in Contents[p.content][ref.list].ips[FamilyOf(packet.addr)]

(* A packet matches a rule queued for a route rule when the documentation  *)
(* says that the route rule covers it.                                     *)
LEMMA Covering ==
    ASSUME NEW p \in Plans, ~Widened(p), NEW i \in DOMAIN ConfigOf(p).rules,
           NEW packet \in Packets, NEW M, NEW learned, Holding(p, packet, M, learned)
    PROVE  (\E r \in ToSet(RulesFor(p, ConfigOf(p).rules[i])) : Matches(r, packet, M)) <=>
               /\ Queues(p, ConfigOf(p).rules[i])
               /\ Covers(Contents[p.content], ConfigOf(p).rules[i], packet, learned)
<1> DEFINE rule == ConfigOf(p).rules[i]
           content == Contents[p.content]
           refs == RefsOf(p, rule)
           act == RuleAction(ConfigOf(p), p.sel, rule)
           f == FamilyOf(packet.addr)
           Hit(ref) == IF ref.dyn THEN packet.addr \in learned[ref.list]
                       ELSE packet.addr \in content[ref.list].ips[f]
           Listed == \E l \in ToSet(rule.lists) \cap DOMAIN content :
                         \/ packet.addr \in content[l].ips[f]
                         \/ HasDomains(content[l]) /\ packet.addr \in learned[l]
<1>1. rule \in ConfiguredRules
  <2> DEFINE rules == ConfigOf(p).rules
  <2>1. rules \in Seq(ConfiguredRules)
    BY RulesFacts
  <2> HIDE DEF rules, ConfiguredRules
  <2>2. \A k \in DOMAIN rules : rules[k] \in ConfiguredRules
    BY <2>1
  <2> QED
    BY <2>2 DEF rules
<1>2. rule.sel \in BOOLEAN /\ rule.lists \in Seq(STRING) /\ p.content \in DOMAIN Contents
  BY <1>1 DEF ConfiguredRules, Plans
<1>3. /\ refs \in Seq(SetRefs)
      /\ \A ref \in SetRefs : ref \in ToSet(refs) <=>
             ref.list \in ToSet(rule.lists) \cap DOMAIN content /\ Fed(content, ref)
  BY <1>1, <1>2, SetsOfFacts, Zenon DEF RefsOf
<1>4. Queues(p, rule) => ToSet(refs) \subseteq Sets[p]
  BY SetsFacts
<1>5. f \in Families
  BY FamilyFacts, Zenon
<1>6. \A r : r \in ToSet(RulesFor(p, rule)) <=>
          /\ Queues(p, rule)
          /\ \/ \E ref \in ToSet(refs) : r = PlanRule(ref, rule.sel, None, act)
             \/ refs = <<>> /\ rule.sel /\ r = PlanRule(None, TRUE, None, act)
  BY <1>1, RouteRulesFacts, Zenon
<1>7. Covers(content, rule, packet, learned) <=>
          /\ rule.lists # <<>> => Listed
          /\ rule.sel => packet.hit
          /\ rule.lists # <<>> \/ rule.sel
  BY Zenon DEF Covers
<1>8. rule.lists # <<>> /\ rule.sel /\ act.kind # "skip" => refs # <<>>
  BY Zenon DEF Widened, RefsOf
<1>9. Queues(p, rule) => act.kind # "skip"
  BY <1>1, RuleActionFacts, Zenon DEF Queues
<1> HIDE DEF rule, content, refs, act, f
<1>10. ToSet(refs) \subseteq SetRefs /\ (refs # <<>> => ToSet(refs) # {})
  <2> HIDE DEF SetRefs
  <2>1. Len(refs) \in Nat /\ DOMAIN refs = 1 .. Len(refs) /\ \A k \in DOMAIN refs : refs[k] \in SetRefs
    BY <1>3
  <2>2. refs # <<>> => 1 \in DOMAIN refs
    BY <1>3
  <2> QED
    BY <2>1, <2>2, Zenon DEF ToSet
<1>11. refs = <<>> => ToSet(refs) = {}
  BY DEF ToSet
<1>12. rule.lists = <<>> => ToSet(rule.lists) = {}
  BY DEF ToSet
<1>13. \A ref \in SetRefs : Matches(PlanRule(ref, rule.sel, None, act), packet, M) <=>
           packet.addr \in M[ref] /\ (rule.sel => packet.hit)
  <2>1. \A ref \in SetRefs : ref # None
    BY FirewallAssumption, Zenon
  <2> HIDE DEF SetRefs
  <2> QED
    BY <2>1 DEF Matches, PlanRule
<1>14. Matches(PlanRule(None, TRUE, None, act), packet, M) <=> packet.hit
  BY DEF Matches, PlanRule
<1>15. (\E r \in ToSet(RulesFor(p, rule)) : Matches(r, packet, M)) <=>
           /\ Queues(p, rule)
           /\ \/ \E ref \in ToSet(refs) : packet.addr \in M[ref] /\ (rule.sel => packet.hit)
              \/ refs = <<>> /\ rule.sel /\ packet.hit
  BY <1>6, <1>10, <1>13, <1>14, Zenon
<1>16. Queues(p, rule) => \A ref \in ToSet(refs) : packet.addr \in M[ref] <=> Hit(ref)
  BY <1>4, Zenon DEF Holding, content, f
<1>17. (\E ref \in ToSet(refs) : Hit(ref)) <=> Listed
  <2>1. ASSUME NEW ref \in ToSet(refs), Hit(ref) PROVE Listed
    <3>1. ref.list \in ToSet(rule.lists) \cap DOMAIN content /\ Fed(content, ref)
      BY <1>3, <1>10, Zenon
    <3> QED
      BY <3>1, <2>1 DEF Fed
  <2>2. ASSUME NEW l \in ToSet(rule.lists) \cap DOMAIN content, NEW d \in BOOLEAN,
               d => HasDomains(content[l]) /\ packet.addr \in learned[l],
               ~d => packet.addr \in content[l].ips[f]
        PROVE  \E ref \in ToSet(refs) : Hit(ref)
    <3> DEFINE ref == [list |-> l, dyn |-> d]
    <3>1. l \in Lists
      BY <1>2 DEF Lists, content
    <3>2. ref \in SetRefs /\ ref.list = l /\ ref.dyn = d
      BY <3>1 DEF SetRefs
    <3> HIDE DEF ref
    <3>3. Hit(ref)
      BY <2>2, <3>2, Zenon
    <3>4. Fed(content, ref)
      BY <2>2, <3>2, <1>5, Zenon DEF Fed, HasStatic
    <3> QED
      BY <3>2, <3>3, <3>4, <1>3, Zenon
  <2>3. ASSUME NEW l \in ToSet(rule.lists) \cap DOMAIN content,
               \/ packet.addr \in content[l].ips[f]
               \/ HasDomains(content[l]) /\ packet.addr \in learned[l]
        PROVE  \E ref \in ToSet(refs) : Hit(ref)
    <3>1. CASE packet.addr \in content[l].ips[f]
      BY <3>1, <2>2, Zenon
    <3>2. CASE HasDomains(content[l]) /\ packet.addr \in learned[l]
      BY <3>2, <2>2, Zenon
    <3> QED
      BY <3>1, <3>2, <2>3, Zenon
  <2> QED
    BY <2>1, <2>3, Zenon
<1> HIDE DEF Hit, Listed
<1>18. Listed => rule.lists # <<>>
  BY <1>12 DEF Listed
<1>19. CASE ~Queues(p, rule)
  BY <1>15, <1>19, Zenon DEF rule
<1>20. CASE Queues(p, rule) /\ refs # <<>>
  <2>1. rule.lists # <<>>
    BY <1>20, <1>3, <1>10, <1>12, Zenon
  <2> QED
    BY <2>1, <1>7, <1>15, <1>16, <1>17, <1>20, Zenon DEF rule, content
<1>21. CASE Queues(p, rule) /\ refs = <<>>
  <2>1. ~Listed
    BY <1>11, <1>17, <1>21, Zenon
  <2>2. rule.lists # <<>> => ~rule.sel
    BY <1>8, <1>9, <1>21, Zenon
  <2> QED
    BY <2>1, <2>2, <1>7, <1>11, <1>15, <1>21, Zenon DEF rule, content
<1> QED
  BY <1>19, <1>20, <1>21, Zenon

(* The action of the first rule of a plan that a packet matches is what    *)
(* the documentation says.                                                 *)
LEMMA PlanVerdict ==
    ASSUME NEW p \in Plans, ~Widened(p), NEW packet \in Packets, NEW M, NEW learned,
           Holding(p, packet, M, learned)
    PROVE  FirstIn(Rules[p], {r \in PlanRules : Matches(r, packet, M)}, [act |-> Pass]).act =
               Documented(ConfigOf(p), p.sel, Contents[p.content], packet, learned)
<1> DEFINE S == {r \in PlanRules : Matches(r, packet, M)}
           d == [act |-> Pass]
           rules == ConfigOf(p).rules
           ss == RouteRulesOf(p)
           a == FlattenSeq(ss)
           b == DetourRules(ConfigOf(p))
           covering == {r \in ToSet(rules) : /\ RuleAction(ConfigOf(p), p.sel, r) \notin {Skip, MarkWith(None)}
                                             /\ Covers(Contents[p.content], r, packet, learned)}
           rule == FirstIn(rules, covering, None)
           V == {r \in ToSet(b) : Matches(r, packet, <<>>)}
           doc == Documented(ConfigOf(p), p.sel, Contents[p.content], packet, learned)
<1>1. doc = IF rule # None THEN RuleAction(ConfigOf(p), p.sel, rule)
            ELSE IF packet.local THEN FirstIn(b, V, d).act
            ELSE Pass
  BY DEF Documented, FirstOf
<1>2. /\ rules \in Seq(ConfiguredRules) /\ ss \in Seq(Seq(PlanRules)) /\ a \in Seq(PlanRules)
      /\ Rules[p] = a \o b
  BY RulesFacts
<1>3. /\ b \in Seq(PlanRules)
      /\ \A r \in ToSet(b) : r.set = None /\ r.sel = FALSE /\ r.dst \in ServerAddresses
  BY DetourRulesFacts, Zenon
<1>4. d.act = Pass
  OBVIOUS
<1>5. DOMAIN ss = DOMAIN rules /\ \A i \in DOMAIN rules : ss[i] = RulesFor(p, rules[i])
  BY DEF RouteRulesOf
<1>6. \A i \in DOMAIN rules :
          rules[i] \in covering <=>
              Queues(p, rules[i]) /\ Covers(Contents[p.content], rules[i], packet, learned)
  BY Zenon DEF Queues, ToSet
<1>7. \A i \in DOMAIN rules :
          (\E r \in ToSet(RulesFor(p, rules[i])) : Matches(r, packet, M)) <=>
              Queues(p, rules[i]) /\ Covers(Contents[p.content], rules[i], packet, learned)
  BY Covering, Zenon
<1>8. \A i \in DOMAIN rules : rules[i] \in ConfiguredRules /\ rules[i] # None
  <2> DEFINE s == rules
  <2>1. s \in Seq(ConfiguredRules)
    BY <1>2
  <2> HIDE DEF s, ConfiguredRules
  <2>2. \A i \in DOMAIN s : s[i] \in ConfiguredRules
    BY <2>1
  <2> QED
    BY <2>2, FirewallAssumption DEF s
<1>9. \A i \in DOMAIN rules : ToSet(ss[i]) \subseteq PlanRules
  <2>1. ASSUME NEW i \in DOMAIN rules, NEW s, s = RulesFor(p, rules[i]) PROVE ToSet(s) \subseteq PlanRules
    <3>1. s \in Seq(PlanRules)
      BY <2>1, <1>8, RouteRulesFacts, Zenon
    <3> HIDE DEF PlanRules
    <3> QED
      BY <3>1 DEF ToSet
  <2> QED
    BY <2>1, <1>5, Zenon
<1>10. \A i \in DOMAIN rules : ToSet(ss[i]) \cap S # {} <=> rules[i] \in covering
  BY <1>5, <1>6, <1>7, <1>9, Zenon
<1> HIDE DEF S, d, rules, ss, a, b, covering, V, doc
<1>11. /\ ToSet(a) \cap S # {} => FirstIn(a \o b, S, d) = FirstIn(a, S, d)
       /\ ToSet(a) \cap S = {} => FirstIn(a \o b, S, d) = FirstIn(b, S, d)
  <2> HIDE DEF PlanRules
  <2> QED
    BY <1>2, <1>3, FirstInConcat
<1>12. ToSet(a) = UNION {ToSet(ss[i]) : i \in DOMAIN ss}
  <2> HIDE DEF PlanRules
  <2> QED
    BY <1>2, FlattenFacts DEF a
<1>13. CASE (\A i \in DOMAIN ss : ToSet(ss[i]) \cap S = {}) /\ FirstIn(a, S, d) = d
  <2>1. FirstIn(a \o b, S, d) = FirstIn(b, S, d)
    BY <1>11, <1>12, <1>13, Zenon
  <2>2. rule = None
    <3>1. \A i \in DOMAIN rules : rules[i] \notin covering
      BY <1>5, <1>10, <1>13, Zenon
    <3>2. \A i \in DOMAIN rules : ~FirstAt(i, rules, covering)
      BY <3>1, Zenon DEF FirstAt
    <3> QED
      BY <3>2, <1>2, FirstInFacts, Zenon
  <2>3. CASE packet.local
    <3>1. \A i \in DOMAIN b : b[i] \in S <=> b[i] \in V
      <4> TAKE i \in DOMAIN b
      <4>1. b[i] \in ToSet(b) /\ b[i].set = None
        BY <1>3 DEF ToSet
      <4>2. b[i] \in PlanRules
        BY <1>3
      <4> QED
        BY <4>1, <4>2 DEF S, V, Matches
    <3>2. FirstIn(b, S, d) = FirstIn(b, V, d)
      BY <3>1, FirstInOnly, Zenon
    <3> QED
      BY <3>2, <2>1, <2>2, <2>3, <1>1, <1>2, Zenon DEF S, d, doc
  <2>4. CASE ~packet.local
    <3>1. \A r \in ToSet(b) : r \notin S
      <4> TAKE r \in ToSet(b)
      <4>1. r.dst \in ServerAddresses /\ r.dst # None
        BY <1>3, FirewallAssumption, Zenon
      <4>2. packet.addr \notin ServerAddresses
        BY <2>4, PacketsAssumption, Zenon
      <4> QED
        BY <4>1, <4>2 DEF S, Matches
    <3>2. \A i \in DOMAIN b : ~FirstAt(i, b, S)
      BY <3>1 DEF FirstAt, ToSet
    <3>3. FirstIn(b, S, d) = d
      BY <3>2, <1>3, FirstInFacts, Zenon
    <3> QED
      BY <3>3, <2>1, <2>2, <2>4, <1>1, <1>2, <1>4, Zenon DEF S, d, doc
  <2> QED
    BY <2>3, <2>4, Zenon
<1>14. ASSUME NEW i \in DOMAIN ss, FirstIn(a, S, d) \in ToSet(ss[i]) \cap S,
              \A j \in 1 .. (i - 1) : ToSet(ss[j]) \cap S = {}
       PROVE  FirstIn(Rules[p], S, d).act = doc
  <2>1. i \in DOMAIN rules /\ rules[i] \in covering
    BY <1>5, <1>10, <1>14, Zenon
  <2>2. ASSUME NEW j \in DOMAIN rules, rules[j] \in covering PROVE i <= j
    <3>1. ToSet(ss[j]) \cap S # {}
      BY <2>2, <1>10, Zenon
    <3>2. j \notin 1 .. (i - 1)
      BY <3>1, <1>14, Zenon
    <3>3. i \in Nat /\ j \in Nat /\ 1 <= j
      <4> HIDE DEF ConfiguredRules
      <4> QED
        BY <1>2, <2>1
    <3> QED
      BY <3>2, <3>3
  <2>3. FirstAt(i, rules, covering)
    BY <2>1, <2>2, Zenon DEF FirstAt
  <2>4. rule = rules[i] /\ rule # None
    BY <2>1, <2>3, <1>2, <1>8, FirstInAt, Zenon
  <2>5. \A r \in ToSet(ss[i]) : r.act = RuleAction(ConfigOf(p), p.sel, rules[i])
    <3> TAKE r \in ToSet(ss[i])
    <3> DEFINE act == RuleAction(ConfigOf(p), p.sel, rules[i])
    <3>1. r \in ToSet(RulesFor(p, rules[i]))
      BY <2>1, <1>5, Zenon
    <3>2. \/ \E ref \in ToSet(RefsOf(p, rules[i])) : r = PlanRule(ref, rules[i].sel, None, act)
          \/ r = PlanRule(None, TRUE, None, act)
      BY <3>1, <2>1, <1>8, RouteRulesFacts, Zenon
    <3> HIDE DEF act
    <3>3. r.act = act
      BY <3>2 DEF PlanRule
    <3> QED
      BY <3>3 DEF act
  <2>6. FirstIn(a \o b, S, d) = FirstIn(a, S, d)
    <3>1. ToSet(a) \cap S # {}
      BY <1>12, <1>14, Zenon
    <3> QED
      BY <3>1, <1>11
  <2> QED
    BY <2>4, <2>5, <2>6, <1>1, <1>2, <1>14, Zenon
<1>15. \/ (\A i \in DOMAIN ss : ToSet(ss[i]) \cap S = {}) /\ FirstIn(a, S, d) = d
       \/ \E i \in DOMAIN ss : /\ FirstIn(a, S, d) \in ToSet(ss[i]) \cap S
                               /\ \A j \in 1 .. (i - 1) : ToSet(ss[j]) \cap S = {}
  <2> HIDE DEF PlanRules
  <2> QED
    BY <1>2, FirstInFlatten, Zenon DEF a
<1> QED
  BY <1>13, <1>14, <1>15, Zenon DEF S, d, doc

(* The rules of a plan go by a set, by other selectors or by an address.   *)
LEMMA RuleShapes ==
    ASSUME NEW p \in Plans, NEW r \in ToSet(Rules[p])
    PROVE  /\ r \in PlanRules
           /\ r.set # None => r.set \in Sets[p] /\ r.dst = None
           /\ r.set = None /\ r.dst = None => r.sel
<1> DEFINE rules == ConfigOf(p).rules
           ss == RouteRulesOf(p)
           a == FlattenSeq(ss)
           b == DetourRules(ConfigOf(p))
<1>1. /\ rules \in Seq(ConfiguredRules) /\ ss \in Seq(Seq(PlanRules)) /\ a \in Seq(PlanRules)
      /\ Rules[p] = a \o b /\ Rules[p] \in Seq(PlanRules)
  BY RulesFacts, Zenon
<1>2. /\ b \in Seq(PlanRules)
      /\ \A x \in ToSet(b) : x.set = None /\ x.sel = FALSE /\ x.dst \in ServerAddresses
  BY DetourRulesFacts, Zenon
<1>3. DOMAIN ss = DOMAIN rules /\ \A i \in DOMAIN rules : ss[i] = RulesFor(p, rules[i])
  BY DEF RouteRulesOf
<1>4. \A i \in DOMAIN rules : rules[i] \in ConfiguredRules
  <2> DEFINE s == rules
  <2>1. s \in Seq(ConfiguredRules)
    BY <1>1
  <2> HIDE DEF s, ConfiguredRules
  <2>2. \A i \in DOMAIN s : s[i] \in ConfiguredRules
    BY <2>1
  <2> QED
    BY <2>2 DEF s
<1>5. \A i \in DOMAIN rules : Queues(p, rules[i]) => ToSet(RefsOf(p, rules[i])) \subseteq Sets[p]
  BY SetsFacts, Zenon
<1> HIDE DEF rules, ss, a, b
<1>6. r \in PlanRules
  <2> DEFINE s == Rules[p]
  <2>1. s \in Seq(PlanRules)
    BY <1>1
  <2> HIDE DEF PlanRules, s
  <2>2. ToSet(s) \subseteq PlanRules
    BY <2>1 DEF ToSet
  <2> QED
    BY <2>2 DEF s
<1>7. r \in ToSet(a) \/ r \in ToSet(b)
  <2> HIDE DEF PlanRules
  <2>1. ToSet(a \o b) = ToSet(a) \cup ToSet(b)
    BY <1>1, <1>2, ToSetConcat
  <2> QED
    BY <2>1, <1>1, Zenon
<1>8. CASE r \in ToSet(b)
  <2>1. r.dst # None
    BY <1>2, <1>8, FirewallAssumption, Zenon
  <2> QED
    BY <2>1, <1>2, <1>6, <1>8, Zenon
<1>9. CASE r \in ToSet(a)
  <2>1. ToSet(a) = UNION {ToSet(ss[i]) : i \in DOMAIN ss}
    <3> HIDE DEF PlanRules
    <3> QED
      BY <1>1, FlattenFacts DEF a
  <2>2. PICK i \in DOMAIN rules : r \in ToSet(RulesFor(p, rules[i]))
    <3>1. \E i \in DOMAIN ss : r \in ToSet(ss[i])
      BY <2>1, <1>9, ZenonT(40)
    <3> QED
      BY <3>1, <1>3, Zenon
  <2> DEFINE act == RuleAction(ConfigOf(p), p.sel, rules[i])
             refs == RefsOf(p, rules[i])
  <2>3. /\ Queues(p, rules[i])
        /\ \/ \E ref \in ToSet(refs) : r = PlanRule(ref, rules[i].sel, None, act)
           \/ r = PlanRule(None, TRUE, None, act)
    BY <2>2, <1>4, RouteRulesFacts, Zenon
  <2> HIDE DEF act, refs
  <2>4. CASE \E ref \in ToSet(refs) : r = PlanRule(ref, rules[i].sel, None, act)
    <3>1. PICK ref \in ToSet(refs) : r = PlanRule(ref, rules[i].sel, None, act)
      BY <2>4
    <3>2. r.set = ref /\ r.dst = None
      BY <3>1 DEF PlanRule
    <3>3. ref \in Sets[p] /\ ref # None
      BY <2>3, <1>5, SetsFacts, FirewallAssumption, Zenon DEF refs
    <3> QED
      BY <3>2, <3>3, <1>6, Zenon
  <2>5. CASE r = PlanRule(None, TRUE, None, act)
    <3>1. r.set = None /\ r.sel
      BY <2>5 DEF PlanRule
    <3> QED
      BY <3>1, <1>6, Zenon
  <2> QED
    BY <2>3, <2>4, <2>5, Zenon
<1> QED
  BY <1>7, <1>8, <1>9

(* The members of the sets of a family, by list and kind                   *)
RefMembers(members, f, target) == [ref \in SetRefs |-> members[NameOf(ref, f, target)]]

(* The rules a packet matches, with what the sets have                     *)
Hitting(packet, members) == {r \in KernelRules : Matches(r, packet, members)}

(* In the family of a packet the kernel's rules decide as the plan's do.   *)
LEMMA ChainVerdict ==
    ASSUME NEW p \in Plans, ~Widened(p), NEW target \in Targets, NEW packet \in Packets,
           FamilyOf(packet.addr) \in EnabledFamilies(p), NEW members, NEW learned,
           Holding(p, packet, RefMembers(members, FamilyOf(packet.addr), target), learned)
    PROVE  FirstIn(RulesIn(p, FamilyOf(packet.addr), target), Hitting(packet, members),
                   [act |-> Pass]).act =
               Documented(ConfigOf(p), p.sel, Contents[p.content], packet, learned)
<1> DEFINE f == FamilyOf(packet.addr)
           M == RefMembers(members, f, target)
           S == {r \in PlanRules : Matches(r, packet, M)}
           T == {r \in KernelRules : Matches(r, packet, members)}
           d == [act |-> Pass]
           s == Rules[p]
           F == {r \in ToSet(s) : InFamily(r, f, p)}
           mine == Mine(p, f)
           chain == RulesIn(p, f, target)
<1>1. f \in Families
  BY FamilyFacts, Zenon
<1>2. /\ mine \in Seq(PlanRules) /\ chain \in Seq(KernelRules) /\ DOMAIN chain = DOMAIN mine
      /\ \A k \in DOMAIN mine : /\ mine[k] \in PlanRules
                                /\ chain[k] = InKernel(mine[k], f, target)
  BY <1>1, RulesInFacts, Zenon
<1>3. s \in Seq(PlanRules) /\ mine = Keep(s, F)
  BY RulesFacts, Zenon DEF Mine
<1>4. FirstIn(s, S, d).act = Documented(ConfigOf(p), p.sel, Contents[p.content], packet, learned)
  BY PlanVerdict, Zenon
<1>5. \A r \in ToSet(s) : r \in S => r \in F
  <2> SUFFICES ASSUME NEW r \in ToSet(s), Matches(r, packet, M) PROVE InFamily(r, f, p)
    BY Zenon
  <2>1. r.dst # None => FamilyOf(r.dst) = f
    BY Zenon DEF Matches
  <2>2. f = 6 => ConfigOf(p).ipv6
    BY DEF EnabledFamilies
  <2> QED
    BY <2>1, <2>2, Zenon DEF InFamily
<1>6. ASSUME NEW r \in PlanRules
      PROVE  /\ Matches(r, packet, M) <=> Matches(InKernel(r, f, target), packet, members)
             /\ InKernel(r, f, target).act = r.act
  <2> DEFINE k == InKernel(r, f, target)
  <2>1. /\ k.sel = r.sel /\ k.dst = r.dst /\ k.act = r.act
        /\ k.set = IF r.set = None THEN None ELSE NameOf(r.set, f, target)
    BY DEF InKernel
  <2> HIDE DEF k
  <2>2. r.set # None => r.set \in SetRefs
    BY DEF PlanRules
  <2>3. r.set # None => NameOf(r.set, f, target) # None /\ M[r.set] = members[NameOf(r.set, f, target)]
    <3>1. ASSUME r.set # None PROVE NameOf(r.set, f, target) \in SetNames
      BY <3>1, <2>2, <1>1, NamesFacts
    <3>2. None \notin SetNames
      BY FirewallAssumption, Zenon
    <3>3. r.set # None => M[r.set] = members[NameOf(r.set, f, target)]
      BY <2>2, Zenon DEF RefMembers
    <3> QED
      BY <3>1, <3>2, <3>3, Zenon
  <2>4. Matches(r, packet, M) <=> Matches(k, packet, members)
    BY <2>1, <2>3, Zenon DEF Matches
  <2> QED
    BY <2>1, <2>4, Zenon DEF k
<1> HIDE DEF S, T, d, s, F, mine, chain, f, M
<1>7. \A k \in DOMAIN mine : mine[k] \in S <=> chain[k] \in T
  <2> TAKE k \in DOMAIN mine
  <2>1. chain[k] \in KernelRules
    <3> HIDE DEF KernelRules
    <3> QED
      BY <1>2
  <2> QED
    BY <2>1, <1>2, <1>6, Zenon DEF S, T
<1>8. FirstIn(chain, T, d).act = FirstIn(mine, S, d).act
  <2>1. \/ FirstIn(mine, S, d) = d /\ FirstIn(chain, T, d) = d
        \/ \E k \in DOMAIN mine : FirstIn(mine, S, d) = mine[k] /\ FirstIn(chain, T, d) = chain[k]
    <3> HIDE DEF PlanRules, KernelRules
    <3>1. mine \in Seq(PlanRules) /\ chain \in Seq(KernelRules) /\ DOMAIN mine = DOMAIN chain
      BY <1>2
    <3>2. SameFirst(mine, S, d, chain, T, d)
      BY <3>1, <1>7, FirstInSame
    <3> QED
      BY <3>2, Zenon DEF SameFirst
  <2>2. \A k \in DOMAIN mine : chain[k].act = mine[k].act
    BY <1>2, <1>6, Zenon
  <2>3. CASE FirstIn(mine, S, d) = d /\ FirstIn(chain, T, d) = d
    BY <2>3, Zenon
  <2>4. ASSUME NEW k \in DOMAIN mine, FirstIn(mine, S, d) = mine[k], FirstIn(chain, T, d) = chain[k]
        PROVE  FirstIn(chain, T, d).act = FirstIn(mine, S, d).act
    BY <2>2, <2>4, Zenon
  <2> QED
    BY <2>1, <2>3, <2>4, Zenon
<1>9. FirstIn(mine, S, d) = FirstIn(s, S, d)
  <2>1. FirstIn(Keep(s, F), S, d) = FirstIn(s, S \cap F, d)
    <3> HIDE DEF PlanRules
    <3> QED
      BY <1>3, FirstInKeep
  <2> DEFINE U == S \cap F
  <2>2. \A i \in DOMAIN s : s[i] \in U <=> s[i] \in S
    BY <1>5, Zenon DEF ToSet
  <2> HIDE DEF U
  <2>3. FirstIn(s, U, d) = FirstIn(s, S, d)
    BY <2>2, FirstInOnly, Zenon
  <2> QED
    BY <2>1, <2>3, <1>3, Zenon DEF U
<1> QED
  BY <1>4, <1>8, <1>9, Zenon DEF Hitting, S, T, d, s, chain, f, M

-------------------------------------------------------------------------------
(* The addresses of a list are a set, which None is not.                   *)
LEMMA EntriesFacts ==
    ASSUME NEW p \in Plans, NEW l \in DOMAIN Contents[p.content], NEW f \in Families
    PROVE  /\ Contents[p.content][l].ips[f] \in SUBSET AllAddresses
           /\ Contents[p.content][l].ips[f] # None
<1>1. p.content \in DOMAIN Contents
  BY DEF Plans
<1>2. Contents[p.content][l].ips[f] \subseteq Addresses(f)
  BY <1>1, FirewallAssumption, Zenon
<1>3. Addresses(f) \subseteq AllAddresses
  BY Zenon DEF AllAddresses, Families
<1>4. Contents[p.content][l].ips[f] \in SUBSET AllAddresses
  BY <1>2, <1>3, Zenon
<1> QED
  BY <1>4, FirewallAssumption

(* What dnsmasq has put into the sets of a family, by list                 *)
Learned(p, f) ==
    [l \in DOMAIN Contents[p.content] |-> Members[[fam |-> f, list |-> l, slot |-> "d"]]]

(* The sets hold what the lists have and what was learned.                 *)
LEMMA StateHolds ==
    ASSUME NEW p \in Plans, NEW target \in Targets, NEW packet \in Packets,
           Filled(p, target[FamilyOf(packet.addr)], FamilyOf(packet.addr))
    PROVE  Holding(p, packet, RefMembers(Members, FamilyOf(packet.addr), target),
                   Learned(p, FamilyOf(packet.addr)))
<1> DEFINE f == FamilyOf(packet.addr)
<1>1. f \in Families
  BY FamilyFacts, Zenon
<1> HIDE DEF f
<1> SUFFICES ASSUME NEW ref \in Sets[p]
             PROVE  packet.addr \in RefMembers(Members, f, target)[ref] <=>
                        IF ref.dyn THEN packet.addr \in Learned(p, f)[ref.list]
                        ELSE packet.addr \in Contents[p.content][ref.list].ips[f]
  BY Zenon DEF Holding, f
<1>2. ref \in SetRefs /\ ref.list \in DOMAIN Contents[p.content]
  BY SetsFacts, Zenon
<1> DEFINE n == NameOf(ref, f, target)
<1>3. RefMembers(Members, f, target)[ref] = Members[n]
  BY <1>2, Zenon DEF RefMembers
<1>4. CASE ref.dyn
  <2>1. n = [fam |-> f, list |-> ref.list, slot |-> "d"]
    BY <1>4, Zenon DEF NameOf
  <2>2. Learned(p, f)[ref.list] = Members[n]
    BY <2>1, <1>2, Zenon DEF Learned
  <2> QED
    BY <2>2, <1>3, <1>4, Zenon
<1>5. CASE ~ref.dyn
  <2>1. n = StaticName(ref, f, target[f])
    BY <1>5, Zenon DEF NameOf, StaticName
  <2>2. n \in SetNames
    BY <1>1, <1>2, NamesFacts
  <2>3. sets[n] = Contents[p.content][ref.list].ips[f]
    BY <2>1, <1>5, Zenon DEF Filled, FilledIn, f
  <2>4. sets[n] # None
    BY <2>3, <1>1, <1>2, EntriesFacts, Zenon
  <2>5. Members[n] = sets[n]
    BY <2>2, <2>4, Zenon DEF Members
  <2> QED
    BY <2>3, <2>5, <1>3, <1>5, Zenon
<1> QED
  BY <1>4, <1>5, Zenon

(* No chain at all passes everything.                                      *)
LEMMA EmptyChain ==
    ASSUME NEW packet, NEW members
    PROVE  FirstOf(<<>>, packet, members) = Pass
<1> DEFINE S == {r \in ToSet(<<>>) : Matches(r, packet, members)}
           d == [act |-> Pass]
<1>1. DOMAIN <<>> = {}
  OBVIOUS
<1> HIDE DEF S
<1>2. FirstIn(<<>>, S, d) = d
  BY <1>1 DEF FirstIn
<1>3. d.act = Pass
  OBVIOUS
<1> QED
  BY <1>2, <1>3 DEF FirstOf, S

(* A chain decides by its first matching rule.                             *)
LEMMA FirstOfChain ==
    ASSUME NEW chain \in Seq(KernelRules), NEW packet, NEW members
    PROVE  FirstOf(chain, packet, members) =
               FirstIn(chain, Hitting(packet, members), [act |-> Pass]).act
<1> DEFINE S == {r \in ToSet(chain) : Matches(r, packet, members)}
           T == {r \in KernelRules : Matches(r, packet, members)}
           d == [act |-> Pass]
<1>1. \A i \in DOMAIN chain : chain[i] \in KernelRules
  <2> HIDE DEF KernelRules
  <2> QED
    OBVIOUS
<1>2. \A i \in DOMAIN chain : chain[i] \in S <=> chain[i] \in T
  BY <1>1 DEF ToSet
<1>3. FirstOf(chain, packet, members) = FirstIn(chain, S, d).act
  BY DEF FirstOf
<1> HIDE DEF S, T, d
<1>4. FirstIn(chain, S, d) = FirstIn(chain, T, d)
  BY <1>2, FirstInOnly, Zenon
<1> QED
  BY <1>3, <1>4 DEF Hitting, T, d

(* iptables follows the plan whose chain and sets are in use.              *)
LEMMA IptFollows ==
    ASSUME NEW p \in Plans, ~Widened(p), NEW packet \in Packets,
           FamilyOf(packet.addr) \in EnabledFamilies(p), IptHas(FamilyOf(packet.addr), p)
    PROVE  IptVerdict(packet) = Documented(ConfigOf(p), p.sel, Contents[p.content], packet,
                                           Learned(p, FamilyOf(packet.addr)))
<1> DEFINE f == FamilyOf(packet.addr)
           chains == ipt[f]
           disp == chains.disp
<1>1. f \in Families
  BY FamilyFacts, Zenon
<1>2. PICK target \in Targets :
          /\ disp = [to |-> target[f], also |-> <<>>]
          /\ chains.chain[target[f]] = RulesIn(p, f, target)
          /\ Filled(p, target[f], f)
  BY Zenon DEF IptHas
<1>3. chains.jumps # 0
  BY Zenon DEF IptHas
<1> DEFINE chain == RulesIn(p, f, target)
<1>4. chain \in Seq(KernelRules) /\ chain # None
  <2>1. chain \in Seq(KernelRules)
    BY <1>1, RulesInFacts, Zenon
  <2>2. None \notin Seq(KernelRules)
    BY FirewallAssumption, Zenon
  <2> QED
    BY <2>1, <2>2, Zenon
<1>5. target[f] \in Generations /\ target[f] # None
  <2>1. target[f] \in Generations
    BY <1>1 DEF Targets
  <2> QED
    BY <2>1, FirewallAssumption, Zenon
<1>6. disp # None /\ disp.to = target[f] /\ disp.also = <<>>
  <2> DEFINE g == target[f]
             D == [to |-> g, also |-> <<>>]
  <2>1. g \in Generations
    BY <1>5
  <2> HIDE DEF g
  <2>2. D \in Dispatchers /\ D.to = g /\ D.also = <<>>
    BY <2>1 DEF Dispatchers
  <2>3. disp = D
    BY <1>2, Zenon DEF g
  <2> HIDE DEF D
  <2> QED
    BY <2>2, <2>3, FirewallAssumption, Zenon DEF g
<1>7. FirstOf(<<>>, packet, Members) # Drop
  <2>1. Pass # Drop
    BY DEF Pass, Drop
  <2> QED
    BY <2>1, EmptyChain, Zenon
<1>8. IptVerdict(packet) =
          IF chains.jumps = 0 \/ disp = None THEN Pass
          ELSE IF FirstOf(disp.also, packet, Members) = Drop THEN Drop
          ELSE IF disp.to = None \/ chains.chain[disp.to] = None THEN Pass
               ELSE FirstOf(chains.chain[disp.to], packet, Members)
  BY Zenon DEF IptVerdict
<1>9. chains.chain[disp.to] = chain
  BY <1>2, <1>6, Zenon
<1> HIDE DEF chain, disp, chains
<1>10. IptVerdict(packet) = FirstOf(chain, packet, Members)
  <2>1. ~(chains.jumps = 0 \/ disp = None) /\ FirstOf(disp.also, packet, Members) # Drop
    BY <1>3, <1>6, <1>7, Zenon
  <2>2. ~(disp.to = None \/ chains.chain[disp.to] = None)
    BY <1>4, <1>5, <1>6, <1>9, Zenon
  <2> QED
    BY <2>1, <2>2, <1>8, <1>9, Zenon
<1>11. Holding(p, packet, RefMembers(Members, f, target), Learned(p, f))
  BY <1>2, StateHolds, ZenonT(40)
<1>12. FirstIn(chain, Hitting(packet, Members), [act |-> Pass]).act =
           Documented(ConfigOf(p), p.sel, Contents[p.content], packet, Learned(p, f))
  BY <1>11, ChainVerdict DEF chain
<1>13. FirstOf(chain, packet, Members) =
           FirstIn(chain, Hitting(packet, Members), [act |-> Pass]).act
  BY <1>4, FirstOfChain
<1> QED
  BY <1>10, <1>12, <1>13, Zenon

(* A packet matches rules with an address when the router sends it, and    *)
(* other rules when it is forwarded.                                       *)
LEMMA LocalRules ==
    ASSUME NEW p \in Plans, NEW target \in Targets, NEW packet \in Packets, NEW members, NEW learned,
           Holding(p, packet, RefMembers(members, FamilyOf(packet.addr), target), learned),
           packet.local => \A l \in DOMAIN Contents[p.content] : packet.addr \notin learned[l],
           NEW k \in DOMAIN RulesIn(p, FamilyOf(packet.addr), target),
           Matches(RulesIn(p, FamilyOf(packet.addr), target)[k], packet, members)
    PROVE  (RulesIn(p, FamilyOf(packet.addr), target)[k].dst # None) = packet.local
<1> DEFINE f == FamilyOf(packet.addr)
           M == RefMembers(members, f, target)
           chain == RulesIn(p, f, target)
           mine == Mine(p, f)
           r == mine[k]
<1>1. f \in Families
  BY FamilyFacts, Zenon
<1>2. k \in DOMAIN mine /\ r \in PlanRules /\ r \in ToSet(Rules[p]) /\ chain[k] = InKernel(r, f, target)
  BY <1>1, RulesInFacts, Zenon
<1>3. /\ r.set # None => r.set \in Sets[p] /\ r.dst = None
      /\ r.set = None /\ r.dst = None => r.sel
  BY <1>2, RuleShapes, Zenon
<1>4. packet \in [addr : AllAddresses, hit : BOOLEAN, local : BOOLEAN]
  BY PacketsAssumption, Zenon
<1>5. packet.local \in BOOLEAN
  BY <1>4
<1>6. r.dst \in ServerAddresses \cup {None}
  BY <1>2 DEF PlanRules
<1> DEFINE x == InKernel(r, f, target)
<1>7. /\ x.sel = r.sel /\ x.dst = r.dst
      /\ x.set = IF r.set = None THEN None ELSE NameOf(r.set, f, target)
  BY Zenon DEF InKernel
<1>8. Matches(x, packet, members)
  BY <1>2, Zenon
<1> HIDE DEF x, r, mine
<1>9. x.dst # None => ~(~packet.local)
  <2>1. ASSUME ~packet.local, x.dst # None PROVE FALSE
    <3>1. packet.addr = x.dst /\ x.dst \in ServerAddresses
      BY <2>1, <1>6, <1>7, <1>8, Zenon DEF Matches
    <3>2. packet.addr \notin ServerAddresses
      BY <2>1, PacketsAssumption, Zenon
    <3> QED
      BY <3>1, <3>2, Zenon
  <2> QED
    BY <2>1, Zenon
<1>10. ASSUME packet.local, x.dst = None PROVE FALSE
  <2>1. /\ ~packet.hit
        /\ \A c \in DOMAIN Contents, g \in Families :
               \A l \in DOMAIN Contents[c] : packet.addr \notin Contents[c][l].ips[g]
    BY <1>10, PacketsAssumption, Zenon
  <2>2. CASE r.set = None
    BY <2>1, <2>2, <1>3, <1>7, <1>8, <1>10, Zenon DEF Matches
  <2>3. CASE r.set # None
    <3>1. r.set \in Sets[p] /\ r.set \in SetRefs /\ r.set.list \in DOMAIN Contents[p.content]
      BY <2>3, <1>3, SetsFacts, ZenonT(40)
    <3>2. NameOf(r.set, f, target) \in SetNames
      BY <3>1, <1>1, NamesFacts, Zenon
    <3>3. NameOf(r.set, f, target) # None
      BY <3>2, FirewallAssumption, Zenon
    <3>4. packet.addr \in members[NameOf(r.set, f, target)]
      BY <2>3, <3>3, <1>7, <1>8, Zenon DEF Matches
    <3>5. packet.addr \in M[r.set]
      BY <3>1, <3>4, Zenon DEF RefMembers
    <3>6. IF r.set.dyn THEN packet.addr \in learned[r.set.list]
          ELSE packet.addr \in Contents[p.content][r.set.list].ips[f]
      BY <3>1, <3>5, Zenon DEF Holding
    <3>7. p.content \in DOMAIN Contents
      BY DEF Plans
    <3> QED
      BY <3>1, <3>6, <3>7, <2>1, <1>1, <1>10, Zenon
  <2> QED
    BY <2>2, <2>3, Zenon
<1>11. (x.dst # None) = packet.local
  BY <1>5, <1>9, <1>10, Zenon
<1> QED
  BY <1>2, <1>11, Zenon DEF x

(* nftables follows the plan whose rules and sets are in the table.        *)
LEMMA NftFollows ==
    ASSUME LearnInv, NEW p \in Plans, ~Widened(p), NEW packet \in Packets,
           FamilyOf(packet.addr) \in EnabledFamilies(p), NftHas(FamilyOf(packet.addr), p)
    PROVE  NftVerdict(packet) = Documented(ConfigOf(p), p.sel, Contents[p.content], packet,
                                           Learned(p, FamilyOf(packet.addr)))
<1> DEFINE f == FamilyOf(packet.addr)
           learned == Learned(p, f)
           R(g) == RulesIn(p, g, NftTarget)
           a == R(4)
           b == R(6)
           c == R(f)
           n == a \o b
           K == {r \in ToSet(n) : r.fam = f /\ (r.dst # None) = packet.local}
           T == Hitting(packet, Members)
           U == T \cap K
           d == [act |-> Pass]
<1>1. f \in Families /\ 4 \in Families /\ 6 \in Families /\ (f = 4 \/ f = 6)
  BY FamilyFacts DEF Families
<1>2. NftTarget \in Targets /\ NftTarget[f] = "A"
  BY <1>1 DEF NftTarget, Targets, Generations
<1>3. nft = n /\ Filled(p, "A", f)
  BY Zenon DEF NftHas
<1>4. /\ a \in Seq(KernelRules) /\ b \in Seq(KernelRules) /\ c \in Seq(KernelRules)
      /\ \A g \in Families : /\ DOMAIN R(g) = DOMAIN Mine(p, g)
                             /\ \A k \in DOMAIN R(g) : R(g)[k] = InKernel(Mine(p, g)[k], g, NftTarget)
  <2>1. ASSUME NEW g \in Families
        PROVE  /\ R(g) \in Seq(KernelRules) /\ DOMAIN R(g) = DOMAIN Mine(p, g)
               /\ \A k \in DOMAIN R(g) : R(g)[k] = InKernel(Mine(p, g)[k], g, NftTarget)
    BY <1>2, RulesInFacts, Zenon
  <2> HIDE DEF R
  <2> QED
    BY <2>1, <1>1, Zenon
<1>5. \A g \in Families : \A k \in DOMAIN R(g) : R(g)[k].fam = g
  <2> TAKE g \in Families
  <2> TAKE k \in DOMAIN R(g)
  <2> DEFINE r == Mine(p, g)[k]
  <2>1. R(g)[k] = InKernel(r, g, NftTarget)
    BY <1>4, Zenon
  <2> HIDE DEF r
  <2>2. InKernel(r, g, NftTarget).fam = g
    BY DEF InKernel
  <2> QED
    BY <2>1, <2>2
<1>6. Holding(p, packet, RefMembers(Members, f, NftTarget), learned)
  BY <1>2, <1>3, StateHolds, Zenon
<1>7. packet.local => \A l \in DOMAIN Contents[p.content] : packet.addr \notin learned[l]
  <2> SUFFICES ASSUME packet.local, NEW l \in DOMAIN Contents[p.content], packet.addr \in learned[l]
               PROVE  FALSE
    BY Zenon
  <2> DEFINE m == [fam |-> f, list |-> l, slot |-> "d"]
  <2>1. l \in Lists
    <3>1. p.content \in DOMAIN Contents
      BY DEF Plans
    <3> QED
      BY <3>1, Zenon DEF Lists
  <2>2. m \in SetNames /\ Dynamic(m)
    BY <2>1, <1>1 DEF SetNames, Dynamic
  <2>3. packet.addr \in Members[m]
    BY Zenon DEF Learned
  <2> HIDE DEF m
  <2>4. Members[m] = IF sets[m] = None THEN {} ELSE sets[m]
    BY <2>2, Zenon DEF Members
  <2>5. packet.addr \in Resolved
    BY <2>2, <2>3, <2>4, Zenon DEF LearnInv
  <2> QED
    BY <2>5, PacketsAssumption, Zenon
<1>8. \A k \in DOMAIN c : Matches(c[k], packet, Members) => (c[k].dst # None) = packet.local
  BY <1>2, <1>6, <1>7, LocalRules, ZenonT(40)
<1>9. FirstIn(c, T, d).act = Documented(ConfigOf(p), p.sel, Contents[p.content], packet, learned)
  BY <1>2, <1>6, ChainVerdict
<1> DEFINE chain == Keep(n, K)
<1>10. nft # None
  <2>1. n \in Seq(KernelRules)
    <3> HIDE DEF a, b, KernelRules
    <3> QED
      BY <1>4
  <2>2. None \notin Seq(KernelRules)
    BY FirewallAssumption, Zenon
  <2> QED
    BY <2>1, <2>2, <1>3, ZenonT(40)
<1>11. NftVerdict(packet) = FirstOf(chain, packet, Members)
  BY <1>3, <1>10 DEF NftVerdict
<1>12. \A r \in ToSet(n) : r \in K <=> r.fam = f /\ (r.dst # None) = packet.local
  OBVIOUS
<1>13. \A r \in KernelRules : r \in T <=> Matches(r, packet, Members)
  BY DEF Hitting
<1> HIDE DEF R, a, b, c, K, T, d, learned
<1>14. n \in Seq(KernelRules) /\ chain \in Seq(KernelRules) /\ ToSet(n) = ToSet(a) \cup ToSet(b)
  <2> HIDE DEF KernelRules
  <2>1. n \in Seq(KernelRules) /\ ToSet(n) = ToSet(a) \cup ToSet(b)
    BY <1>4, ToSetConcat
  <2> HIDE DEF n
  <2>2. chain \in Seq(KernelRules)
    BY <2>1, KeepFacts
  <2> QED
    BY <2>1, <2>2
<1>15. FirstOf(chain, packet, Members) = FirstIn(chain, T, d).act
  BY <1>14, FirstOfChain, Zenon DEF T, d
<1>16. FirstIn(chain, T, d) = FirstIn(n, U, d)
  <2> HIDE DEF KernelRules, n
  <2> QED
    BY <1>14, FirstInKeep
<1> HIDE DEF U
<1>17. /\ ToSet(a) \cap U # {} => FirstIn(n, U, d) = FirstIn(a, U, d)
       /\ ToSet(a) \cap U = {} => FirstIn(n, U, d) = FirstIn(b, U, d)
  <2> HIDE DEF KernelRules
  <2> QED
    BY <1>4, FirstInConcat
<1>18. ToSet(a) \subseteq ToSet(n) /\ ToSet(b) \subseteq ToSet(n) /\ ToSet(c) \subseteq ToSet(n)
  BY <1>1, <1>14 DEF a, b, c
<1> HIDE DEF n, chain
<1>19. FirstIn(n, U, d) = FirstIn(c, U, d)
  <2>1. CASE f = 6
    <3>1. \A r \in ToSet(a) : r.fam = 4
      BY <1>1, <1>5, Zenon DEF a, ToSet
    <3>2. ToSet(a) \cap U = {}
      <4>1. 4 # 6
        OBVIOUS
      <4> QED
        BY <4>1, <3>1, <2>1, <1>12, <1>18, Zenon DEF U
    <3> QED
      BY <3>2, <2>1, <1>17, Zenon DEF b, c
  <2>2. CASE f = 4
    <3>1. \A r \in ToSet(b) : r.fam = 6
      BY <1>1, <1>5, Zenon DEF b, ToSet
    <3>2. ToSet(b) \cap U = {}
      <4>1. 4 # 6
        OBVIOUS
      <4> QED
        BY <4>1, <3>1, <2>2, <1>12, <1>18, Zenon DEF U
    <3>3. \A s \in {a, b} : ToSet(s) \cap U = {} => FirstIn(s, U, d) = d
      <4> SUFFICES ASSUME NEW s \in {a, b}, ToSet(s) \cap U = {} PROVE FirstIn(s, U, d) = d
        BY Zenon
      <4>1. s \in Seq(KernelRules)
        BY <1>4, Zenon
      <4>2. \A i \in DOMAIN s : ~FirstAt(i, s, U)
        BY DEF FirstAt, ToSet
      <4> QED
        BY <4>1, <4>2, FirstInFacts, Zenon
    <3>4. CASE ToSet(a) \cap U # {}
      BY <3>4, <2>2, <1>17, Zenon DEF a, c
    <3>5. CASE ToSet(a) \cap U = {}
      <4>1. FirstIn(n, U, d) = d /\ FirstIn(a, U, d) = d
        BY <3>2, <3>3, <3>5, <1>17, Zenon
      <4>2. a = c
        BY <2>2, Zenon DEF a, c
      <4> QED
        BY <4>1, <4>2
    <3> QED
      BY <3>4, <3>5, Zenon
  <2> QED
    BY <2>1, <2>2, <1>1
<1>20. FirstIn(c, U, d) = FirstIn(c, T, d)
  <2>1. ASSUME NEW k \in DOMAIN c PROVE c[k] \in U <=> c[k] \in T
    <3>1. c[k] \in ToSet(n) /\ c[k].fam = f
      BY <1>1, <1>5, <1>18, Zenon DEF c, ToSet
    <3>2. c[k] \in KernelRules
      <4> HIDE DEF KernelRules
      <4> QED
        BY <1>4
    <3> QED
      BY <3>1, <3>2, <1>8, <1>12, <1>13, Zenon DEF U
  <2> QED
    BY <2>1, FirstInOnly, Zenon
<1> QED
  <2>1. FirstIn(chain, T, d) = FirstIn(c, T, d)
    BY <1>16, <1>19, <1>20
  <2> QED
    BY <2>1, <1>9, <1>11, <1>15, Zenon DEF learned

(* What is served is enforced.                                             *)
LEMMA InvEnforced == TypeInv /\ LearnInv /\ ServeInv => Enforced
<1> SUFFICES ASSUME TypeInv, LearnInv, ServeInv, known # "blind", NEW packet \in Packets,
                    served[FamilyOf(packet.addr)] # None, served[FamilyOf(packet.addr)].regular
             PROVE  Follows(packet)
  BY DEF Enforced
<1> DEFINE f == FamilyOf(packet.addr)
           p == served[f].plan
<1>1. f \in Families
  BY FamilyFacts, Zenon
<1>2. p \in Plans
  <2>1. served[f] \in [plan : Plans, regular : BOOLEAN]
    BY <1>1, Zenon DEF TypeInv
  <2> QED
    BY <2>1
<1>3. f \in EnabledFamilies(p) /\ ~Widened(p) /\ Has(f, p)
  BY <1>1, <1>2, Zenon DEF ServeInv
<1>4. Verdict(packet) = Documented(ConfigOf(p), p.sel, Contents[p.content], packet, Learned(p, f))
  <2>1. CASE backend = "iptables"
    BY <2>1, <1>2, <1>3, IptFollows, Zenon DEF Has, Verdict
  <2>2. CASE backend # "iptables"
    BY <2>2, <1>2, <1>3, NftFollows, Zenon DEF Has, Verdict
  <2> QED
    BY <2>1, <2>2, Zenon
<1> QED
  BY <1>4, Zenon DEF Follows, Learned

-------------------------------------------------------------------------------
(* What the variables are made of, part by part.                           *)
LEMMA Parts ==
    ASSUME TypeInv
    PROVE  /\ fw.active \in [Families -> Generations \cup {None}]
           /\ fw.owned \in [Families -> BOOLEAN]
           /\ fw.created \in SUBSET SetNames /\ fw.pending \in Seq(Plans)
           /\ fw.states \in [plan : Plans, target : Targets] \cup {None}
           /\ task.at \in IptSteps \cup NftSteps /\ task.mode \in Modes
           /\ task.target \in Targets /\ task.seen \in BOOLEAN
           /\ \A f \in Families : /\ ipt[f] \in Chains /\ ipt[f].jumps \in Nat
                                  /\ ipt[f].disp \in Dispatchers \cup {None}
                                  /\ ipt[f].chain \in [Generations -> Seq(KernelRules) \cup {None}]
           /\ \A n \in SetNames : sets[n] \in (SUBSET AllAddresses) \cup {None}
<1> HIDE DEF SetNames, Plans, KernelRules, Dispatchers, Targets, AllAddresses
<1>1. fw \in Memories /\ task \in Tasks
  BY DEF TypeInv
<1>2. /\ fw.active \in [Families -> Generations \cup {None}]
      /\ fw.owned \in [Families -> BOOLEAN]
      /\ fw.created \in SUBSET SetNames /\ fw.pending \in Seq(Plans)
      /\ fw.states \in [plan : Plans, target : Targets] \cup {None}
  BY <1>1 DEF Memories
<1>3. /\ task.at \in IptSteps \cup NftSteps /\ task.mode \in Modes
      /\ task.target \in Targets /\ task.seen \in BOOLEAN
  BY <1>1 DEF Tasks
<1>4. ASSUME NEW f \in Families
      PROVE  /\ ipt[f] \in Chains /\ ipt[f].jumps \in Nat
             /\ ipt[f].disp \in Dispatchers \cup {None}
             /\ ipt[f].chain \in [Generations -> Seq(KernelRules) \cup {None}]
  <2>1. ipt[f] \in Chains
    BY Zenon DEF TypeInv
  <2> QED
    BY <2>1 DEF Chains
<1>5. \A n \in SetNames : sets[n] \in (SUBSET AllAddresses) \cup {None}
  BY DEF TypeInv, SetStates
<1> QED
  BY <1>2, <1>3, <1>4, <1>5, Zenon

(* The chains that are left when some are removed.                         *)
LEMMA ChainsLeft ==
    /\ NoChains \in Chains
    /\ \A chains \in Chains : /\ Removed(chains) \in Chains /\ GenerationsRemoved(chains) \in Chains
                               /\ Flushed(chains) \in Chains
<1> HIDE DEF KernelRules
<1>1. <<>> \in Seq(KernelRules)
  OBVIOUS
<1>2. [g \in Generations |-> None] \in [Generations -> Seq(KernelRules) \cup {None}]
  BY Zenon
<1>3. [to |-> None, also |-> <<>>] \in Dispatchers
  BY <1>1 DEF Dispatchers
<1> DEFINE Y == Seq(KernelRules)
           X == [Generations -> Y \cup {None}]
<1> HIDE DEF Y
<1>4. NoChains \in Chains
  BY <1>2 DEF NoChains, Chains, Y
<1> HIDE DEF Dispatchers, Generations
<1>5. ASSUME NEW chains \in Chains PROVE Removed(chains) \in Chains
  <2>1. CASE chains.jumps <= 1
    BY <2>1, <1>4 DEF Removed
  <2>2. CASE ~(chains.jumps <= 1)
    <3> DEFINE d == [to |-> None, also |-> <<>>]
    <3>1. Removed(chains) = [NoChains EXCEPT !.jumps = chains.jumps - 1, !.disp = d]
      BY <2>2 DEF Removed
    <3>2. chains.jumps - 1 \in Nat /\ d \in Dispatchers
      BY <2>2, <1>3 DEF Chains
    <3> HIDE DEF d
    <3> QED
      BY <3>1, <3>2, <1>4, Zenon DEF Chains
  <2> QED
    BY <2>1, <2>2
<1>6. ASSUME NEW chains \in Chains PROVE GenerationsRemoved(chains) \in Chains
  <2> DEFINE left == [g \in Generations |->
                         IF chains.disp # None /\ chains.disp.to = g /\ chains.chain[g] # None
                         THEN <<>> ELSE None]
  <2>1. left \in X
    BY <1>1 DEF Y
  <2>2. GenerationsRemoved(chains) = [chains EXCEPT !.chain = left]
    BY Zenon DEF GenerationsRemoved
  <2> HIDE DEF left
  <2> QED
    BY <2>1, <2>2 DEF Chains, Y
<1>7. ASSUME NEW chains \in Chains PROVE Flushed(chains) \in Chains
  <2> DEFINE left == [g \in Generations |-> IF chains.chain[g] = None THEN None ELSE <<>>]
             d == IF chains.disp = None THEN None ELSE [to |-> None, also |-> <<>>]
  <2>1. left \in X
    BY <1>1 DEF Y
  <2>2. d \in Dispatchers \cup {None}
    BY <1>3
  <2>3. Flushed(chains) = [jumps |-> 0, disp |-> d, chain |-> left]
    BY Zenon DEF Flushed
  <2> HIDE DEF left, d
  <2> QED
    BY <2>1, <2>2, <2>3 DEF Chains, Y
<1> QED
  BY <1>4, <1>5, <1>6, <1>7

(* The chains and sets that a cleanup leaves.                              *)
LEMMA Left ==
    ASSUME TypeInv, NEW sweep, NEW preserve, NEW chains
    PROVE  /\ RulesRemoved(sweep) \in [Families -> Chains]
           /\ SetsRemoved(chains, sweep, preserve) \in SetStates
           /\ Disowned \in Memories
           /\ Disowned.active = Fresh.active /\ Disowned.owned = Fresh.owned
           /\ Disowned.created = fw.created /\ Disowned.pending = fw.pending
<1>1. \A f \in Families : ipt[f] \in Chains
  BY Parts, Zenon
<1>2. RulesRemoved(sweep) \in [Families -> Chains]
  BY <1>1, ChainsLeft, Zenon DEF RulesRemoved
<1>3. \A n \in SetNames : sets[n] \in (SUBSET AllAddresses) \cup {None}
  BY Parts
<1>4. {} \in SUBSET AllAddresses
  BY Zenon
<1>5. SetsRemoved(chains, sweep, preserve) \in SetStates
  <2>1. ASSUME NEW n \in SetNames
        PROVE  (IF (n \notin fw.created /\ ~sweep) \/ (preserve /\ Dynamic(n)) THEN sets[n]
                ELSE IF sets[n] # None /\ \E f \in Families : n \in Named(chains[f]) THEN {}
                ELSE None) \in (SUBSET AllAddresses) \cup {None}
    <3> DEFINE kept == (n \notin fw.created /\ ~sweep) \/ (preserve /\ Dynamic(n))
               held == sets[n] # None /\ \E f \in Families : n \in Named(chains[f])
    <3>1. sets[n] \in (SUBSET AllAddresses) \cup {None} /\ {} \in (SUBSET AllAddresses) \cup {None}
          /\ None \in (SUBSET AllAddresses) \cup {None}
      BY <1>3, <1>4
    <3> HIDE DEF kept, held
    <3>2. (IF kept THEN sets[n] ELSE IF held THEN {} ELSE None) \in (SUBSET AllAddresses) \cup {None}
      BY <3>1
    <3> QED
      BY <3>2 DEF kept, held
  <2> QED
    BY <2>1, Zenon DEF SetsRemoved, SetStates
<1>6. fw \in Memories
  BY Zenon DEF TypeInv
<1>7. Fresh.active \in [Families -> Generations \cup {None}] /\ Fresh.owned \in [Families -> BOOLEAN]
  BY DEF Fresh
<1> DEFINE a == Fresh.active
           o == Fresh.owned
<1> HIDE DEF a, o, SetNames, Plans, Targets
<1>8. Disowned = [fw EXCEPT !.active = a, !.owned = o]
  BY DEF Disowned, a, o
<1>9. a \in [Families -> Generations \cup {None}] /\ o \in [Families -> BOOLEAN]
  BY <1>7 DEF a, o
<1>10. /\ Disowned \in Memories
       /\ Disowned.active = a /\ Disowned.owned = o
       /\ Disowned.created = fw.created /\ Disowned.pending = fw.pending
  BY <1>6, <1>8, <1>9, Zenon DEF Memories
<1> QED
  BY <1>2, <1>5, <1>10, Zenon DEF a, o

(* The sets that ipset restore and the batch of nftables make.             *)
LEMMA SetsMade ==
    ASSUME TypeInv
    PROVE  /\ \A filled : Restored(filled) \in SetStates
           /\ BatchSets \in SetStates
           /\ QueuedRules \in Seq(KernelRules)
           /\ NftTarget \in Targets
<1>1. /\ plan \in Plans /\ task.target \in Targets /\ fw.pending \in Seq(Plans)
      /\ \A n \in SetNames : sets[n] \in (SUBSET AllAddresses) \cup {None}
  BY Parts, Zenon DEF TypeInv
<1>2. NftTarget \in Targets
  BY DEF NftTarget, Targets, Generations
<1>3. ASSUME NEW p \in Plans, NEW target \in Targets, NEW n \in SetsIn(p, target)
      PROVE  EntriesOf(p, n) \in SUBSET AllAddresses
  <2>1. n \in SetNames /\ n.list \in DOMAIN Contents[p.content]
    BY NamesFacts, Zenon
  <2>2. n.fam \in Families
    BY <2>1 DEF SetNames
  <2> QED
    BY <2>1, <2>2, EntriesFacts, Zenon DEF EntriesOf
<1>4. {} \in SUBSET AllAddresses
  OBVIOUS
<1>5. ASSUME NEW filled PROVE Restored(filled) \in SetStates
  <2>1. ASSUME NEW n \in SetNames
        PROVE  (IF n \notin SetsIn(plan, task.target) THEN sets[n]
                ELSE IF ~Dynamic(n) THEN IF filled THEN EntriesOf(plan, n) ELSE {}
                ELSE IF task.mode # "Destructive" THEN sets[n]
                ELSE IF ConfigOf(plan).clear \/ sets[n] = None THEN {}
                ELSE sets[n]) \in (SUBSET AllAddresses) \cup {None}
    BY <1>1, <1>3, <1>4, Zenon
  <2> QED
    BY <2>1, Zenon DEF Restored, SetStates
<1>6. \A j \in DOMAIN fw.pending : fw.pending[j] \in Plans
  <2> HIDE DEF Plans
  <2> QED
    BY <1>1
<1>7. \A n \in SetNames : QueuedEntries(n) \in SUBSET AllAddresses
  <2> TAKE n \in SetNames
  <2> DEFINE with == {j \in DOMAIN fw.pending : n \in SetsIn(fw.pending[j], NftTarget)}
  <2>1. \A j \in with : EntriesOf(fw.pending[j], n) \in SUBSET AllAddresses
    BY <1>2, <1>3, <1>6, Zenon
  <2>2. QueuedEntries(n) = UNION {EntriesOf(fw.pending[i], n) : i \in with}
    BY Zenon DEF QueuedEntries
  <2> HIDE DEF with
  <2> QED
    BY <2>1, <2>2
<1>8. BatchSets \in SetStates
  <2>1. ASSUME NEW n \in SetNames
        PROVE  (IF n \notin QueuedSets THEN sets[n]
                ELSE IF ~task.seen THEN Members[n] \cup (IF Dynamic(n) THEN {} ELSE QueuedEntries(n))
                ELSE IF ~Dynamic(n) THEN QueuedEntries(n)
                ELSE IF sets[n] = None \/ (task.mode = "Destructive" /\ ConfigOf(plan).clear) THEN {}
                ELSE sets[n]) \in (SUBSET AllAddresses) \cup {None}
    <3>1. Members[n] \in SUBSET AllAddresses
      BY <1>1, <1>4, Zenon DEF Members
    <3>2. Members[n] \cup (IF Dynamic(n) THEN {} ELSE QueuedEntries(n)) \in SUBSET AllAddresses
      BY <3>1, <1>4, <1>7, Zenon
    <3> QED
      BY <3>2, <1>1, <1>4, <1>7, Zenon
  <2> QED
    BY <2>1, Zenon DEF BatchSets, SetStates
<1>9. QueuedRules \in Seq(KernelRules)
  <2> DEFINE both(i) == RulesIn(fw.pending[i], 4, NftTarget) \o RulesIn(fw.pending[i], 6, NftTarget)
             ss == [i \in DOMAIN fw.pending |-> both(i)]
             Y == Seq(KernelRules)
  <2>1. ASSUME NEW i \in DOMAIN fw.pending PROVE both(i) \in Y
    <3> DEFINE a == RulesIn(fw.pending[i], 4, NftTarget)
               b == RulesIn(fw.pending[i], 6, NftTarget)
    <3>1. 4 \in Families /\ 6 \in Families
      BY DEF Families
    <3>2. a \in Seq(KernelRules) /\ b \in Seq(KernelRules)
      BY <3>1, <1>2, <1>6, RulesInFacts, Zenon
    <3> HIDE DEF a, b, KernelRules
    <3>3. a \o b \in Seq(KernelRules)
      BY <3>2
    <3> QED
      BY <3>3 DEF a, b
  <2>2. Len(fw.pending) \in Nat /\ DOMAIN fw.pending = 1 .. Len(fw.pending)
    <3> HIDE DEF Plans
    <3> QED
      BY <1>1
  <2> HIDE DEF both, Y
  <2>3. ss \in [1 .. Len(fw.pending) -> Y]
    BY <2>1, <2>2
  <2> DEFINE n == Len(fw.pending)
  <2> HIDE DEF n, ss
  <2>4. ss \in Seq(Y)
    BY <2>2, <2>3, SeqOf DEF n
  <2>5. FlattenSeq(ss) \in Seq(KernelRules)
    <3> HIDE DEF KernelRules
    <3>1. ss \in Seq(Seq(KernelRules))
      BY <2>4, Zenon DEF Y
    <3> QED
      BY <3>1, FlattenFacts
  <2> QED
    BY <2>5 DEF QueuedRules, ss, both
<1> QED
  BY <1>2, <1>5, <1>8, <1>9

(* What a switched family has at its head: the jump to the generation that *)
(* was filled, and one more jump to the dispatcher when there was none.    *)
LEMMA SwitchedFields ==
    ASSUME NEW f, NEW rules
    PROVE  /\ Switched(f, rules).disp =
                  [to |-> task.target[f],
                   also |-> Keep(rules, {r \in ToSet(rules) : InDispatcher(r)})]
           /\ Switched(f, rules).jumps = ipt[f].jumps + (IF fw.active[f] = None THEN 1 ELSE 0)
  BY Zenon DEF Switched

(* A family that is switched has chains again.                             *)
LEMMA SwitchedFacts ==
    ASSUME TypeInv, NEW f \in Families
    PROVE  Switched(f, RulesIn(plan, f, task.target)) \in Chains
<1> DEFINE rules == RulesIn(plan, f, task.target)
           g == task.target[f]
           dispatched == {r \in ToSet(rules) : InDispatcher(r)}
           also == Keep(rules, dispatched)
           rest == Keep(rules, ToSet(rules) \ dispatched)
           jumps == ipt[f].jumps + (IF fw.active[f] = None THEN 1 ELSE 0)
           Y == Seq(KernelRules)
<1>1. plan \in Plans /\ task.target \in Targets /\ ipt[f].jumps \in Nat
      /\ ipt[f].chain \in [Generations -> Y \cup {None}]
  BY Parts, Zenon DEF TypeInv
<1>2. g \in Generations
  BY <1>1, Zenon DEF Targets
<1>3. rules \in Seq(KernelRules)
  BY <1>1, RulesInFacts, Zenon
<1>4. Switched(f, rules) = [jumps |-> jumps, disp |-> [to |-> g, also |-> also],
                            chain |-> [ipt[f].chain EXCEPT ![g] = rest]]
  BY Zenon DEF Switched
<1>5. jumps \in Nat
  BY <1>1
<1>6. also \in Y /\ rest \in Y
  <2> DEFINE R == ToSet(rules) \ dispatched
  <2> HIDE DEF rules, dispatched, KernelRules, R
  <2>1. Keep(rules, R) \in Seq(KernelRules) /\ Keep(rules, dispatched) \in Seq(KernelRules)
    BY <1>3, KeepFacts
  <2> QED
    BY <2>1 DEF R
<1> HIDE DEF rules, g, dispatched, also, rest, jumps
<1>7. [to |-> g, also |-> also] \in Dispatchers
  <2> HIDE DEF KernelRules
  <2> QED
    BY <1>2, <1>6 DEF Dispatchers
<1> HIDE DEF Y, Generations
<1>8. [ipt[f].chain EXCEPT ![g] = rest] \in [Generations -> Y \cup {None}]
  BY <1>1, <1>6, Zenon
<1> DEFINE d == [to |-> g, also |-> also]
           c == [ipt[f].chain EXCEPT ![g] = rest]
<1>9. d \in Dispatchers /\ c \in [Generations -> Y \cup {None}]
  BY <1>7, <1>8
<1> HIDE DEF d, c, Dispatchers
<1>10. [jumps |-> jumps, disp |-> d, chain |-> c] \in Chains
  BY <1>5, <1>9 DEF Chains, Y
<1> QED
  BY <1>4, <1>10, Zenon DEF rules, d, c

(* The steps of the firewall, one by one.                                  *)
StepKinds ==
    \/ \E mode \in Modes, p \in Plans : Begin(mode, p)
    \/ backend = "iptables" /\ IptSweep
    \/ backend = "iptables" /\ IptFillSets
    \/ backend = "iptables" /\ IptCheckDispatchers
    \/ backend = "iptables" /\ \E f \in Families : IptRestore(f)
    \/ backend = "nftables" /\ NftRead
    \/ backend = "nftables" /\ NftBatch
    \/ Cleanup
    \/ Crash
    \/ \E f \in Families : ExternalFlush(f)
    \/ \E n \in SetNames, addr \in Resolved : DnsLearns(n, addr)
    \/ UNCHANGED vars

(* There are no others, and none changes the backend.                      *)
LEMMA Kinds ==
    ASSUME TypeInv, [Next]_vars
    PROVE  StepKinds /\ backend' = backend
<1>1. backend = "iptables" \/ backend = "nftables"
  BY DEF TypeInv
<1>2. "nftables" # "iptables"
  OBVIOUS
<1>3. Apply => \/ backend = "iptables" /\ IptApply
               \/ backend = "nftables" /\ NftApply
  BY <1>1, <1>2 DEF Apply
<1>4. StepKinds
  BY <1>3, Zenon DEF Next, IptApply, NftApply, StepKinds
<1>5. backend' = backend
  BY <1>4, Zenon DEF StepKinds, Begin, IptSweep, IptFillSets, IptCheckDispatchers, IptRestore,
         NftRead, NftBatch, Cleanup, Crash, ExternalFlush, DnsLearns, Return, Throw, vars
<1> QED
  BY <1>4, <1>5

(* A fresh object, an idle one, and one whose apply has returned.          *)
LEMMA ObjectFacts ==
    ASSUME TypeInv
    PROVE  /\ Fresh \in Memories /\ Idle \in Tasks
           /\ Idle.at = "idle"
           /\ [Fresh EXCEPT !.states = fw.states] \in Memories
           /\ [Fresh EXCEPT !.states = fw.states].active = Fresh.active
           /\ [Fresh EXCEPT !.states = fw.states].owned = Fresh.owned
           /\ [Fresh EXCEPT !.states = fw.states].created = {}
           /\ [Fresh EXCEPT !.states = fw.states].pending = <<>>
           /\ \A m \in Memories : Return(m) =>
                  /\ fw' \in Memories /\ task' \in Tasks /\ task' = Idle
                  /\ fw'.active = m.active /\ fw'.owned = m.owned /\ fw'.created = m.created
                  /\ fw'.pending = <<>> /\ plan' = plan
<1>1. plan \in Plans /\ task.target \in Targets
      /\ fw.states \in [plan : Plans, target : Targets] \cup {None}
  BY Parts, Zenon DEF TypeInv
<1>2. [f \in Families |-> "A"] \in Targets /\ [f \in Families |-> None] \in [Families -> Generations \cup {None}]
  BY DEF Targets, Generations
<1> HIDE DEF Plans, Targets, SetNames
<1>3. <<>> \in Seq(Plans)
  OBVIOUS
<1>4. Idle \in Tasks /\ Idle.at = "idle"
  BY <1>2 DEF Tasks, Idle, IptSteps, NftSteps, Modes
<1>5. Fresh \in Memories /\ Fresh.created = {} /\ Fresh.pending = <<>>
  BY <1>2, <1>3 DEF Memories, Fresh
<1> DEFINE s == fw.states
<1>6. s \in [plan : Plans, target : Targets] \cup {None}
  BY <1>1
<1> HIDE DEF Families, Generations, s
<1>7. /\ [Fresh EXCEPT !.states = s] \in Memories
      /\ [Fresh EXCEPT !.states = s].active = Fresh.active
      /\ [Fresh EXCEPT !.states = s].owned = Fresh.owned
      /\ [Fresh EXCEPT !.states = s].created = {}
      /\ [Fresh EXCEPT !.states = s].pending = <<>>
  BY <1>5, <1>6 DEF Memories
<1>8. ASSUME NEW m \in Memories, Return(m)
      PROVE  /\ fw' \in Memories /\ task' \in Tasks /\ task' = Idle
             /\ fw'.active = m.active /\ fw'.owned = m.owned /\ fw'.created = m.created
             /\ fw'.pending = <<>> /\ plan' = plan
  <2> DEFINE r == [plan |-> plan, target |-> task.target]
  <2>1. task' = Idle /\ fw' = [m EXCEPT !.pending = <<>>, !.states = r] /\ plan' = plan
    BY <1>8 DEF Return
  <2>2. r \in [plan : Plans, target : Targets]
    BY <1>1
  <2> HIDE DEF r
  <2> QED
    BY <2>1, <2>2, <1>3, <1>4, Zenon DEF Memories
<1> QED
  BY <1>4, <1>5, <1>7, <1>8, Zenon DEF s

(* An apply that begins: what the backend remembers, and where it writes.  *)
LEMMA BeginFacts ==
    ASSUME TypeInv, NEW mode \in Modes, NEW p \in Plans, Begin(mode, p)
    PROVE  /\ plan' = p /\ plan' \in Plans /\ UNCHANGED <<sets, ipt, nft, served>>
           /\ task.at = "idle" /\ task'.mode = mode
           /\ fw' \in Memories /\ task' \in Tasks
           /\ fw'.active = fw.active /\ fw'.owned = fw.owned
           /\ backend = "iptables" =>
                /\ fw'.created = fw.created \cup SetsIn(p, task'.target)
                /\ task'.at = IF mode = "Destructive" THEN "sweep" ELSE "sets"
                /\ \A f \in Families : task'.target[f] = TargetGeneration(mode, fw.active[f])
                /\ known' = IF known = "unswept" /\ mode # "Destructive" THEN "blind" ELSE known
           /\ backend = "nftables" =>
                /\ fw'.created = fw.created /\ fw'.pending = Append(fw.pending, p)
                /\ task'.at = "read" /\ task'.target = NftTarget /\ known' = known
<1>1. /\ fw \in Memories /\ fw.pending \in Seq(Plans) /\ fw.created \in SUBSET SetNames
      /\ \A f \in Families : fw.active[f] \in Generations \cup {None}
      /\ backend \in {"iptables", "nftables"}
  BY Parts, Zenon DEF TypeInv
<1>2. plan' = p /\ UNCHANGED <<sets, ipt, nft, served>> /\ task.at = "idle"
  BY DEF Begin
<1>3. CASE backend = "iptables"
  <2> DEFINE target == [f \in Families |-> TargetGeneration(mode, fw.active[f])]
             made == fw.created \cup SetsIn(p, target)
             at == IF mode = "Destructive" THEN "sweep" ELSE "sets"
  <2>1. \A f \in Families : TargetGeneration(mode, fw.active[f]) \in Generations
    BY DEF TargetGeneration, Opposite, Generations
  <2>2. target \in Targets /\ \A f \in Families : target[f] = TargetGeneration(mode, fw.active[f])
    BY <2>1 DEF Targets
  <2> HIDE DEF target
  <2>3. /\ fw' = [fw EXCEPT !.pending = <<p>>, !.created = made]
        /\ task' = [at |-> at, mode |-> mode, target |-> target, seen |-> FALSE]
        /\ known' = IF known = "unswept" /\ mode # "Destructive" THEN "blind" ELSE known
    BY <1>3, Zenon DEF Begin, IptPrepare, target
  <2>4. made \in SUBSET SetNames
    BY <2>2, <1>1, NamesFacts, Zenon
  <2>5. <<p>> \in Seq(Plans)
    <3> HIDE DEF Plans
    <3> QED
      OBVIOUS
  <2> HIDE DEF made, Targets, SetNames, Plans
  <2>6. /\ fw' \in Memories /\ fw'.active = fw.active /\ fw'.owned = fw.owned
        /\ fw'.created = made
    BY <2>3, <2>4, <2>5, <1>1, Zenon DEF Memories
  <2>7. at \in IptSteps
    BY DEF IptSteps
  <2> HIDE DEF at
  <2>8. task' \in Tasks /\ task'.at = at /\ task'.mode = mode /\ task'.target = target
    BY <2>2, <2>3, <2>7 DEF Tasks
  <2>9. backend # "nftables"
    BY <1>3
  <2> QED
    BY <2>2, <2>3, <2>6, <2>8, <2>9, <1>2, <1>3, Zenon DEF made, at
<1>4. CASE backend = "nftables"
  <2>0. backend # "iptables"
    BY <1>4
  <2>1. /\ fw' = [fw EXCEPT !.pending = Append(fw.pending, p)]
        /\ task' = [at |-> "read", mode |-> mode, target |-> NftTarget, seen |-> FALSE]
        /\ known' = known
    BY <2>0 DEF Begin, NftPrepare
  <2>2. NftTarget \in Targets
    BY SetsMade
  <2> HIDE DEF Plans, Targets, SetNames
  <2> DEFINE q == Append(fw.pending, p)
  <2>3. q \in Seq(Plans)
    BY <1>1
  <2> HIDE DEF q
  <2>4. fw' = [fw EXCEPT !.pending = q]
    BY <2>1 DEF q
  <2>5. /\ fw' \in Memories /\ fw'.active = fw.active /\ fw'.owned = fw.owned
        /\ fw'.created = fw.created /\ fw'.pending = q
    BY <2>3, <2>4, <1>1 DEF Memories
  <2>6. task' \in Tasks /\ task'.at = "read" /\ task'.mode = mode /\ task'.target = NftTarget
    BY <2>1, <2>2 DEF Tasks, NftSteps
  <2> QED
    BY <2>0, <2>1, <2>5, <2>6, <1>2, <1>4 DEF q
<1> QED
  BY <1>1, <1>3, <1>4, Zenon

(* The step of an apply that goes on: only the place in it changes.        *)
LEMMA StepFacts ==
    ASSUME TypeInv, NEW at \in IptSteps, task' = [task EXCEPT !.at = at]
    PROVE  /\ task' \in Tasks /\ task'.at = at /\ task'.mode = task.mode
           /\ task'.target = task.target
<1>1. task \in Tasks
  BY DEF TypeInv
<1> HIDE DEF Targets
<1> QED
  BY <1>1 DEF Tasks

(* A family that is switched: what the object remembers, and what is left  *)
(* to do.                                                                  *)
LEMMA RestoreFacts ==
    ASSUME TypeInv, NEW f \in Families, IptRestore(f)
    PROVE  /\ plan' = plan /\ UNCHANGED <<sets, nft, known>>
           /\ task.at = IF f = 4 THEN "restore4" ELSE "restore6"
           /\ \/ /\ ipt' = [ipt EXCEPT ![f] = Switched(f, RulesIn(plan, f, task.target))]
                 /\ served' = [served EXCEPT ![f] = IptServes(f)]
                 /\ fw' \in Memories /\ task' \in Tasks
                 /\ fw'.active = [fw.active EXCEPT ![f] = task.target[f]]
                 /\ fw'.owned = [fw.owned EXCEPT ![f] = TRUE]
                 /\ fw'.created = fw.created
                 /\ fw.active[f] # None => ipt[f].disp # None
                 /\ \/ task'.at = "idle"
                    \/ task'.at = "restore6" /\ task'.target = task.target
              \/ task' = Idle /\ UNCHANGED <<fw, ipt, served>>
<1> DEFINE done == [fw EXCEPT !.active[f] = task.target[f], !.owned[f] = TRUE]
           a == [fw.active EXCEPT ![f] = task.target[f]]
           o == [fw.owned EXCEPT ![f] = TRUE]
<1>1. /\ task \in Tasks /\ fw \in Memories /\ task.target \in Targets
      /\ fw.active \in [Families -> Generations \cup {None}] /\ fw.owned \in [Families -> BOOLEAN]
  BY Parts, Zenon DEF TypeInv
<1>2. task.target[f] \in Generations
  BY <1>1, Zenon DEF Targets
<1>3. done = [fw EXCEPT !.active = a, !.owned = o]
  <2> HIDE DEF Families, Generations, SetNames, Plans, Targets
  <2> QED
    BY <1>1 DEF Memories
<1>4. a \in [Families -> Generations \cup {None}] /\ o \in [Families -> BOOLEAN]
  BY <1>1, <1>2
<1> HIDE DEF done, a, o
<1>5. done \in Memories /\ done.active = a /\ done.owned = o /\ done.created = fw.created
  <2> HIDE DEF Families, Generations, SetNames, Plans, Targets
  <2> QED
    BY <1>1, <1>3, <1>4, Zenon DEF Memories
<1>6. /\ plan' = plan /\ UNCHANGED <<sets, nft, known>>
      /\ task.at = IF f = 4 THEN "restore4" ELSE "restore6"
  BY DEF IptRestore, Return, Throw
<1>7. \/ /\ ipt' = [ipt EXCEPT ![f] = Switched(f, RulesIn(plan, f, task.target))]
         /\ served' = [served EXCEPT ![f] = IptServes(f)]
         /\ fw.active[f] # None => ipt[f].disp # None
         /\ \/ task' = [task EXCEPT !.at = "restore6"] /\ fw' = done
            \/ Return(done)
      \/ task' = Idle /\ UNCHANGED <<fw, ipt, served>>
  BY DEF IptRestore, Throw, done
<1>8. ASSUME task' = [task EXCEPT !.at = "restore6"]
      PROVE  task' \in Tasks /\ task'.at = "restore6" /\ task'.target = task.target
  <2>1. "restore6" \in IptSteps
    BY DEF IptSteps
  <2> QED
    BY <2>1, <1>8, StepFacts
<1>9. ASSUME Return(done)
      PROVE  /\ fw' \in Memories /\ task' \in Tasks /\ task'.at = "idle"
             /\ fw'.active = done.active /\ fw'.owned = done.owned /\ fw'.created = done.created
  BY <1>5, <1>9, ObjectFacts
<1> QED
  BY <1>5, <1>6, <1>7, <1>8, <1>9, Zenon DEF a, o

-------------------------------------------------------------------------------
(* Initially nothing is served and nothing is in the kernel.               *)
LEMMA InitInv == Init => Inv
<1> SUFFICES ASSUME Init PROVE Inv
  OBVIOUS
<1>1. /\ plan \in Plans /\ fw = Fresh /\ task = Idle /\ nft = None /\ served = NotServed /\ known = "yes"
      /\ sets = [n \in SetNames |-> None] /\ ipt = [f \in Families |-> NoChains]
      /\ backend \in {"iptables", "nftables"}
  BY DEF Init
<1>2. [f \in Families |-> "A"] \in Targets /\ [f \in Families |-> None] \in [Families -> Generations \cup {None}]
  BY DEF Targets, Generations
<1>3. Fresh \in Memories /\ Idle \in Tasks
  <2> HIDE DEF Plans, Targets, SetNames
  <2>1. <<>> \in Seq(Plans)
    OBVIOUS
  <2> QED
    BY <2>1, <1>2, Zenon DEF Memories, Fresh, Tasks, Idle, IptSteps, NftSteps, Modes
<1>4. Idle.at = "idle" /\ Fresh.owned = [f \in Families |-> FALSE] /\ Fresh.active = [f \in Families |-> None]
  BY DEF Idle, Fresh
<1>5. TypeInv
  <2>1. sets \in SetStates /\ ipt \in [Families -> Chains]
    BY <1>1, ChainsLeft DEF SetStates
  <2>2. served \in [Families -> [plan : Plans, regular : BOOLEAN] \cup {None}]
    BY <1>1, Zenon DEF NotServed
  <2> QED
    BY <2>1, <2>2, <1>1, <1>3, Zenon DEF TypeInv
<1>6. StepInv
  BY <1>1, <1>4 DEF StepInv, IptSteps, NftSteps
<1>7. LearnInv
  BY <1>1, Zenon DEF LearnInv
<1>8. FillInv
  BY <1>1, <1>4 DEF FillInv
<1>9. \A f \in Families : served[f] = None
  BY <1>1, Zenon DEF NotServed
<1>10. \A f \in Families : ipt[f] = NoChains /\ ipt[f].disp = None /\ ipt[f].jumps = 0
  BY <1>1 DEF NoChains
<1>11. UseInv /\ TableInv
  <2>1. UseInv
    BY <1>9, Zenon DEF UseInv
  <2>2. "idle" # "batch"
    OBVIOUS
  <2> QED
    BY <2>1, <2>2, <1>1, <1>4, Zenon DEF TableInv
<1>12. ServeInv
  BY <1>9, Zenon DEF ServeInv
<1>13. OwnInv
  <2>1. \A f \in Families : ipt[f].jumps <= 1
    BY <1>10
  <2>2. \A f \in Families : ~fw.owned[f] /\ fw.active[f] = None
    BY <1>1, <1>4, Zenon
  <2>3. \A n \in SetNames : sets[n] = None
    BY <1>1, Zenon
  <2> QED
    BY <2>1, <2>2, <2>3, <1>1, <1>4, <1>10, Zenon DEF OwnInv
<1> QED
  BY <1>5, <1>6, <1>7, <1>8, <1>11, <1>12, <1>13, Zenon DEF Inv

(* The rules that a batch leaves: a refresh of the sets changes none.      *)
LEMMA BatchTyped ==
    ASSUME TypeInv
    PROVE  /\ BatchRules \in Seq(KernelRules) \cup {None}
           /\ nft # None \/ task.mode # "StaticSetsOnly" => BatchRules # None
<1>1. nft \in Seq(KernelRules) \cup {None} /\ QueuedRules \in Seq(KernelRules)
      /\ None \notin Seq(KernelRules)
  BY SetsMade, FirewallAssumption, Zenon DEF TypeInv
<1> DEFINE both == nft \o QueuedRules
<1>2. \/ BatchRules = nft /\ task.mode = "StaticSetsOnly"
      \/ BatchRules = both /\ nft # None
      \/ BatchRules = QueuedRules
  <2>1. BatchRules = CASE task.mode = "StaticSetsOnly" -> nft
                       [] task.mode # "StaticSetsOnly" /\ ~task.seen /\ nft # None -> both
                       [] OTHER -> QueuedRules
    BY Zenon DEF BatchRules
  <2> HIDE DEF both
  <2> QED
    BY <2>1
<1>3. nft # None => both \in Seq(KernelRules)
  <2> SUFFICES ASSUME nft # None PROVE nft \o QueuedRules \in Seq(KernelRules)
    BY Zenon
  <2>1. nft \in Seq(KernelRules)
    BY <1>1, Zenon
  <2> HIDE DEF KernelRules
  <2> QED
    BY <2>1, <1>1
<1> HIDE DEF both
<1> QED
  BY <1>1, <1>2, <1>3, Zenon

(* Every step keeps the types.                                             *)
LEMMA TypeStep == TypeInv /\ [Next]_vars => TypeInv'
<1> SUFFICES ASSUME TypeInv, [Next]_vars PROVE TypeInv'
  OBVIOUS
<1> DEFINE S == [plan : Plans, regular : BOOLEAN]
           Chained == [Families -> Chains]
           Kn == {"yes", "kept", "unswept", "blind"}
           Rest == /\ plan' \in Plans /\ fw' \in Memories /\ task' \in Tasks /\ sets' \in SetStates
                   /\ ipt' \in Chained /\ nft' \in Seq(KernelRules) \cup {None}
                   /\ served' \in [Families -> S \cup {None}] /\ known' \in Kn
<1>1. StepKinds /\ backend' = backend
  BY Kinds, Zenon
<1>2. /\ plan \in Plans /\ fw \in Memories /\ task \in Tasks /\ sets \in SetStates
      /\ ipt \in Chained /\ nft \in Seq(KernelRules) \cup {None}
      /\ served \in [Families -> S \cup {None}] /\ known \in Kn
      /\ backend \in {"iptables", "nftables"}
  BY DEF TypeInv
<1>3. NotServed \in [Families -> S \cup {None}]
  BY DEF NotServed
<1>4. Fresh \in Memories /\ Idle \in Tasks /\ [Fresh EXCEPT !.states = fw.states] \in Memories
  BY ObjectFacts, Zenon
<1> HIDE DEF S
<1>5. ASSUME NEW mode \in Modes, NEW p \in Plans, Begin(mode, p) PROVE Rest
  <2>1. plan' \in Plans /\ fw' \in Memories /\ task' \in Tasks /\ UNCHANGED <<sets, ipt, nft, served>>
    BY <1>5, BeginFacts, Zenon
  <2>2. \/ known' = known
        \/ known' = IF known = "unswept" /\ mode # "Destructive" THEN "blind" ELSE known
    BY <1>2, <1>5, BeginFacts, Zenon
  <2> QED
    BY <2>1, <2>2, <1>2, Zenon
<1>6. ASSUME IptSweep PROVE Rest
  <2>1. "sets" \in IptSteps
    BY DEF IptSteps
  <2>2. task' \in Tasks
    BY <2>1, <1>6, StepFacts DEF IptSweep
  <2>3. Disowned \in Memories /\ RulesRemoved(TRUE) \in Chained
        /\ SetsRemoved(RulesRemoved(TRUE), TRUE, ~ConfigOf(plan).clear) \in SetStates
    BY Left, Zenon
  <2>4. known' \in Kn
    BY <1>2, <1>6 DEF IptSweep
  <2> QED
    BY <2>2, <2>3, <2>4, <1>2, <1>3, <1>6, Zenon DEF IptSweep
<1>7. ASSUME IptFillSets PROVE Rest
  <2>1. UNCHANGED <<plan, fw, ipt, nft, served, known>>
    BY <1>7, Zenon DEF IptFillSets, Throw
  <2>2. sets' \in SetStates
    BY <1>2, <1>7, SetsMade, Zenon DEF IptFillSets
  <2>3. "dispatch" \in IptSteps
    BY DEF IptSteps
  <2>4. task' = [task EXCEPT !.at = "dispatch"] \/ task' = Idle
    BY <1>7, Zenon DEF IptFillSets, Throw
  <2>5. task' \in Tasks
    BY <2>3, <2>4, <1>4, StepFacts
  <2> QED
    BY <2>1, <2>2, <2>5, <1>2, Zenon
<1>8. ASSUME IptCheckDispatchers PROVE Rest
  <2>1. "restore4" \in IptSteps
    BY DEF IptSteps
  <2>2. task' \in Tasks
    BY <2>1, <1>8, StepFacts DEF IptCheckDispatchers
  <2>3. Disowned \in Memories /\ RulesRemoved(TRUE) \in Chained
    BY Left, Zenon
  <2>4. \/ ipt' = RulesRemoved(TRUE) /\ fw' = Disowned /\ served' = NotServed
        \/ UNCHANGED <<ipt, fw, served>>
    BY <1>8, Zenon DEF IptCheckDispatchers
  <2>5. UNCHANGED <<plan, sets, nft, known>>
    BY <1>8 DEF IptCheckDispatchers
  <2> QED
    BY <2>2, <2>3, <2>4, <2>5, <1>2, <1>3, Zenon
<1>9. ASSUME NEW f \in Families, IptRestore(f) PROVE Rest
  <2>1. plan' = plan /\ UNCHANGED <<sets, nft, known>>
    BY <1>9, RestoreFacts, Zenon
  <2>2. \/ /\ ipt' = [ipt EXCEPT ![f] = Switched(f, RulesIn(plan, f, task.target))]
           /\ served' = [served EXCEPT ![f] = IptServes(f)]
           /\ fw' \in Memories /\ task' \in Tasks
        \/ task' = Idle /\ UNCHANGED <<fw, ipt, served>>
    BY <1>9, RestoreFacts, Zenon
  <2>3. Switched(f, RulesIn(plan, f, task.target)) \in Chains
    BY SwitchedFacts, Zenon
  <2>4. IptServes(f) \in S
    BY <1>2 DEF IptServes, S
  <2>5. \A x \in Chains : [ipt EXCEPT ![f] = x] \in Chained
    BY <1>2, Zenon
  <2>6. \A x \in S : [served EXCEPT ![f] = x] \in [Families -> S \cup {None}]
    BY <1>2
  <2> QED
    BY <2>1, <2>2, <2>3, <2>4, <2>5, <2>6, <1>2, <1>4, Zenon
<1>10. ASSUME NftRead PROVE Rest
  <2>1. UNCHANGED <<plan, fw, sets, ipt, nft, served, known>>
    BY <1>10 DEF NftRead, Throw
  <2>2. task' = Idle \/ \E seen \in BOOLEAN : task' = [task EXCEPT !.at = "batch", !.seen = seen]
    BY <1>10, Zenon DEF NftRead, Throw
  <2>3. \A seen \in BOOLEAN : [task EXCEPT !.at = "batch", !.seen = seen] \in Tasks
    <3> HIDE DEF Targets
    <3> QED
      BY <1>2, Zenon DEF Tasks, NftSteps
  <2> QED
    BY <2>1, <2>2, <2>3, <1>2, <1>4, Zenon
<1>11. ASSUME NftBatch PROVE Rest
  <2>1. CASE Throw /\ UNCHANGED <<sets, nft, served, known>>
    BY <2>1, <1>2, <1>4, <1>11, Zenon DEF Throw, NftBatch
  <2>2. CASE /\ sets' = BatchSets /\ nft' = BatchRules /\ served' = [f \in Families |-> NftServes(f)]
             /\ known' = "yes" /\ Return(fw)
    <3>1. plan' = plan /\ fw' \in Memories /\ task' \in Tasks
      BY <2>2, <1>2, ObjectFacts, Zenon
    <3>2. BatchSets \in SetStates /\ QueuedRules \in Seq(KernelRules)
      BY SetsMade, Zenon
    <3>3. BatchRules \in Seq(KernelRules) \cup {None}
      BY <3>2, BatchTyped, Zenon
    <3>4. \A f \in Families : NftServes(f) \in S
      BY <1>2 DEF NftServes, S
    <3>5. served' \in [Families -> S \cup {None}]
      BY <2>2, <3>4, Zenon
    <3> QED
      BY <2>2, <3>1, <3>2, <3>3, <3>5, <1>2, <1>11, Zenon DEF NftBatch
  <2> QED
    BY <2>1, <2>2, <1>11, Zenon DEF NftBatch
<1>12. ASSUME Cleanup PROVE Rest
  <2>1. RulesRemoved(FALSE) \in Chained /\ SetsRemoved(RulesRemoved(FALSE), FALSE, FALSE) \in SetStates
    BY Left, Zenon
  <2>2. [n \in SetNames |-> None] \in SetStates
    BY DEF SetStates
  <2>3. ipt' \in Chained /\ sets' \in SetStates /\ nft' \in Seq(KernelRules) \cup {None}
    BY <2>1, <2>2, <1>2, <1>12, Zenon DEF Cleanup, IptCleanup, NftCleanup
  <2> QED
    BY <2>3, <1>2, <1>3, <1>4, <1>12, Zenon DEF Cleanup
<1>13. ASSUME Crash PROVE Rest
  BY <1>2, <1>4, <1>13 DEF Crash
<1>14. ASSUME NEW f \in Families, ExternalFlush(f) PROVE Rest
  <2>1. [ipt EXCEPT ![f] = NoChains] \in Chained /\ [ipt EXCEPT ![f] = Flushed(ipt[f])] \in Chained
    BY <1>2, ChainsLeft, Zenon
  <2>2. [n \in SetNames |-> None] \in SetStates
    BY Zenon DEF SetStates
  <2>3. ipt' \in Chained /\ sets' \in SetStates /\ nft' \in Seq(KernelRules) \cup {None}
    BY <2>1, <2>2, <1>2, <1>14, Zenon DEF ExternalFlush
  <2>4. [g \in Families |-> IF backend = "iptables" /\ g # f THEN served[g] ELSE None]
            \in [Families -> S \cup {None}]
    BY <1>2, Zenon
  <2> QED
    BY <2>3, <2>4, <1>2, <1>14, Zenon DEF ExternalFlush
<1>15. ASSUME NEW n \in SetNames, NEW addr \in Resolved, DnsLearns(n, addr) PROVE Rest
  <2>1. addr \in AllAddresses
    BY FirewallAssumption, Zenon
  <2>2. sets[n] \in SUBSET AllAddresses
    BY <1>15, Parts, Zenon DEF DnsLearns
  <2>3. sets[n] \cup {addr} \in SUBSET AllAddresses
    BY <2>1, <2>2, Zenon
  <2>4. \A x \in SUBSET AllAddresses : [sets EXCEPT ![n] = x] \in SetStates
    BY <1>2, Zenon DEF SetStates
  <2>5. sets' \in SetStates
    BY <2>3, <2>4, <1>15, Zenon DEF DnsLearns
  <2> QED
    BY <2>5, <1>2, <1>15, Zenon DEF DnsLearns
<1>16. ASSUME UNCHANGED vars PROVE Rest
  BY <1>2, <1>16 DEF vars
<1>17. Rest
  <2> HIDE DEF Rest
  <2> QED
    BY <1>1, <1>5, <1>6, <1>7, <1>8, <1>9, <1>10, <1>11, <1>12, <1>13, <1>14, <1>15, <1>16
       DEF StepKinds
<1> QED
  BY <1>1, <1>2, <1>17, Zenon DEF TypeInv, S

(* Each backend stays with its part of the kernel and its steps.           *)
LEMMA StepStep == TypeInv /\ StepInv /\ [Next]_vars => StepInv'
<1> SUFFICES ASSUME TypeInv, StepInv, [Next]_vars PROVE StepInv'
  OBVIOUS
<1>1. StepKinds /\ backend' = backend
  BY Kinds
<1>2. /\ backend \in {"iptables", "nftables"} /\ Idle.at = "idle"
      /\ "iptables" # "nftables" /\ "idle" # "sweep" /\ "blind" # "unswept"
  BY ObjectFacts DEF TypeInv
<1>3. "idle" \in IptSteps /\ "sets" \in IptSteps /\ "dispatch" \in IptSteps /\ "sweep" \in IptSteps
      /\ "restore4" \in IptSteps /\ "restore6" \in IptSteps
  BY DEF IptSteps
<1>4. "idle" \in NftSteps /\ "read" \in NftSteps /\ "batch" \in NftSteps
  BY DEF NftSteps
<1> DEFINE NftInv == /\ ipt = [f \in Families |-> NoChains] /\ known \in {"yes", "unswept"}
                     /\ task.at \in NftSteps
                     /\ task.at # "idle" => fw.pending # <<>> /\ fw.pending[Len(fw.pending)] = plan
<1>5. /\ backend = "iptables" => nft = None /\ task.at \in IptSteps
      /\ backend = "nftables" => NftInv
      /\ task.at = "sweep" => task.mode = "Destructive"
      /\ backend = "iptables" /\ known = "unswept" => task.at \in {"idle", "sweep"}
  BY Zenon DEF StepInv
<1> DEFINE Ipt(at) == /\ nft' = None /\ task'.at = at /\ at \in IptSteps
                      /\ at = "sweep" => task'.mode = "Destructive"
                      /\ known' = "unswept" => at \in {"idle", "sweep"}
           Nft(at) == NftInv' /\ task'.at = at /\ at # "sweep"
<1>6. ASSUME backend = "iptables", NEW at, Ipt(at) PROVE StepInv'
  BY <1>1, <1>2, <1>6, Zenon DEF StepInv
<1>7. ASSUME backend = "nftables", NEW at, Nft(at) PROVE StepInv'
  BY <1>1, <1>2, <1>7, Zenon DEF StepInv
<1>8. ASSUME NEW mode \in Modes, NEW p \in Plans, Begin(mode, p) PROVE StepInv'
  <2>1. CASE backend = "iptables"
    <3>1. /\ nft' = nft /\ task'.mode = mode
          /\ task'.at = IF mode = "Destructive" THEN "sweep" ELSE "sets"
          /\ known' = IF known = "unswept" /\ mode # "Destructive" THEN "blind" ELSE known
      BY <2>1, <1>8, BeginFacts, Zenon
    <3>2. CASE mode = "Destructive"
      <4>1. Ipt("sweep")
        BY <2>1, <3>1, <3>2, <1>3, <1>5, Zenon
      <4> QED
        BY <2>1, <4>1, <1>6, Zenon
    <3>3. CASE mode # "Destructive"
      <4>1. known' # "unswept" /\ "sets" # "sweep"
        BY <3>1, <3>3
      <4>2. Ipt("sets")
        BY <2>1, <4>1, <3>1, <3>3, <1>3, <1>5, Zenon
      <4> QED
        BY <2>1, <4>2, <1>6, Zenon
    <3> QED
      BY <3>2, <3>3, Zenon
  <2>2. CASE backend = "nftables"
    <3>1. /\ plan' = p /\ ipt' = ipt /\ known' = known /\ task'.at = "read"
          /\ fw'.pending = Append(fw.pending, p)
      BY <2>2, <1>8, BeginFacts, Zenon
    <3>2. fw.pending \in Seq(Plans)
      BY Parts, Zenon
    <3>3. fw'.pending # <<>> /\ fw'.pending[Len(fw'.pending)] = p
      <4> HIDE DEF Plans
      <4> QED
        BY <3>1, <3>2
    <3>4. "read" # "sweep"
      OBVIOUS
    <3>5. Nft("read")
      BY <2>2, <3>1, <3>3, <3>4, <1>4, <1>5, Zenon
    <3> QED
      BY <2>2, <3>5, <1>7, Zenon
  <2> QED
    BY <2>1, <2>2, <1>2, Zenon
<1>9. ASSUME backend = "iptables", IptSweep PROVE StepInv'
  <2>1. known' # "unswept" /\ "sets" # "sweep"
    BY <1>9 DEF IptSweep
  <2>2. task'.at = "sets"
    BY <1>3, <1>9, StepFacts DEF IptSweep
  <2>3. Ipt("sets")
    BY <2>1, <2>2, <1>3, <1>5, <1>9, Zenon DEF IptSweep
  <2> QED
    BY <2>3, <1>6, <1>9
<1>10. ASSUME backend = "iptables", IptFillSets PROVE StepInv'
  <2>1. known # "unswept" /\ UNCHANGED <<nft, known>>
    <3>1. task.at = "sets" /\ UNCHANGED <<nft, known>>
      BY <1>10 DEF IptFillSets
    <3>2. "sets" # "idle" /\ "sets" # "sweep"
      OBVIOUS
    <3> QED
      BY <3>1, <3>2, <1>5, <1>10, Zenon
  <2>2. task'.at = "dispatch" \/ task'.at = "idle"
    BY <1>2, <1>3, <1>10, StepFacts, Zenon DEF IptFillSets, Throw
  <2>3. "dispatch" # "sweep"
    OBVIOUS
  <2>4. Ipt("dispatch") \/ Ipt("idle")
    BY <2>1, <2>2, <2>3, <1>2, <1>3, <1>5, <1>10, Zenon
  <2> QED
    BY <2>4, <1>6, <1>10, Zenon
<1>11. ASSUME backend = "iptables", IptCheckDispatchers PROVE StepInv'
  <2>1. known # "unswept" /\ UNCHANGED <<nft, known>>
    <3>1. task.at = "dispatch" /\ UNCHANGED <<nft, known>>
      BY <1>11 DEF IptCheckDispatchers
    <3>2. "dispatch" # "idle" /\ "dispatch" # "sweep"
      OBVIOUS
    <3> QED
      BY <3>1, <3>2, <1>5, <1>11, Zenon
  <2>2. task'.at = "restore4"
    BY <1>3, <1>11, StepFacts, Zenon DEF IptCheckDispatchers
  <2>3. "restore4" # "sweep"
    OBVIOUS
  <2>4. Ipt("restore4")
    BY <2>1, <2>2, <2>3, <1>3, <1>5, <1>11, Zenon
  <2> QED
    BY <2>4, <1>6, <1>11, Zenon
<1>12. ASSUME backend = "iptables", NEW f \in Families, IptRestore(f) PROVE StepInv'
  <2>1. known # "unswept" /\ UNCHANGED <<nft, known>>
    <3>1. (task.at = IF f = 4 THEN "restore4" ELSE "restore6") /\ UNCHANGED <<nft, known>>
      BY <1>12, RestoreFacts, Zenon
    <3>2. task.at # "idle" /\ task.at # "sweep"
      BY <3>1
    <3> QED
      BY <3>1, <3>2, <1>5, <1>12, Zenon
  <2>2. task'.at = "restore6" \/ task'.at = "idle"
    BY <1>2, <1>12, RestoreFacts, Zenon
  <2>3. "restore6" # "sweep"
    OBVIOUS
  <2>4. Ipt("restore6") \/ Ipt("idle")
    BY <2>1, <2>2, <2>3, <1>2, <1>3, <1>5, <1>12, Zenon
  <2> QED
    BY <2>4, <1>6, <1>12, Zenon
<1>13. ASSUME backend = "nftables", NftRead PROVE StepInv'
  <2>1. task.at = "read" /\ UNCHANGED <<plan, fw, ipt, known>>
    BY <1>13 DEF NftRead, Throw
  <2>2. "read" # "idle" /\ "batch" # "sweep"
    OBVIOUS
  <2>3. task \in Tasks
    BY DEF TypeInv
  <2>4. task'.at = "idle" \/ task'.at = "batch"
    <3>1. task' = Idle \/ \E seen \in BOOLEAN : task' = [task EXCEPT !.at = "batch", !.seen = seen]
      BY <1>13, Zenon DEF NftRead, Throw
    <3> QED
      BY <3>1, <2>3, <1>2, Zenon DEF Tasks
  <2>5. Nft("idle") \/ Nft("batch")
    BY <2>1, <2>2, <2>4, <1>2, <1>4, <1>5, <1>13
  <2> QED
    BY <2>5, <1>7, <1>13
<1>14. ASSUME backend = "nftables", NftBatch PROVE StepInv'
  <2>1. task'.at = "idle" /\ ipt' = ipt /\ known' \in {"yes", "unswept"}
    BY <1>2, <1>5, <1>14, Zenon DEF NftBatch, Throw, Return
  <2>2. Nft("idle")
    BY <2>1, <1>2, <1>4, <1>5, <1>14, Zenon
  <2> QED
    BY <2>2, <1>7, <1>14, Zenon
<1>15. ASSUME Cleanup PROVE StepInv'
  <2>1. UNCHANGED <<task, known>> /\ task.at = "idle"
    BY <1>15 DEF Cleanup
  <2>2. CASE backend = "iptables"
    <3>1. Ipt("idle")
      BY <2>1, <2>2, <1>2, <1>3, <1>5, <1>15, Zenon DEF Cleanup, IptCleanup
    <3> QED
      BY <2>2, <3>1, <1>6
  <2>3. CASE backend = "nftables"
    <3>1. Nft("idle")
      BY <2>1, <2>3, <1>2, <1>4, <1>5, <1>15, Zenon DEF Cleanup, NftCleanup
    <3> QED
      BY <2>3, <3>1, <1>7
  <2> QED
    BY <2>2, <2>3, <1>2, Zenon
<1>16. ASSUME Crash PROVE StepInv'
  <2>1. task'.at = "idle" /\ UNCHANGED <<ipt, nft>>
        /\ known' = IF known = "blind" THEN "blind" ELSE "unswept"
    BY <1>2, <1>16, Zenon DEF Crash
  <2>2. CASE backend = "iptables"
    <3>1. Ipt("idle")
      BY <2>1, <2>2, <1>2, <1>3, <1>5, Zenon
    <3> QED
      BY <2>2, <3>1, <1>6
  <2>3. CASE backend = "nftables"
    <3>1. known' = "unswept"
      BY <2>1, <2>3, <1>5
    <3>2. Nft("idle")
      BY <2>1, <2>3, <3>1, <1>2, <1>4, <1>5, Zenon
    <3> QED
      BY <2>3, <3>2, <1>7
  <2> QED
    BY <2>2, <2>3, <1>2
<1>17. ASSUME NEW f \in Families, ExternalFlush(f) PROVE StepInv'
  <2>1. UNCHANGED <<plan, fw, task, known>>
    BY <1>17, Zenon DEF ExternalFlush
  <2>2. CASE backend = "iptables"
    <3>1. nft' = nft
      BY <2>2, <1>17, Zenon DEF ExternalFlush
    <3> QED
      BY <2>1, <2>2, <3>1, <1>1, <1>2, <1>5, Zenon DEF StepInv
  <2>3. CASE backend = "nftables"
    <3>1. ipt' = ipt
      BY <2>3, <1>2, <1>17, Zenon DEF ExternalFlush
    <3> QED
      BY <2>1, <2>3, <3>1, <1>1, <1>2, <1>5, Zenon DEF StepInv
  <2> QED
    BY <2>2, <2>3, <1>2, Zenon
<1>18. ASSUME NEW n \in SetNames, NEW addr \in Resolved, DnsLearns(n, addr) PROVE StepInv'
  BY <1>18, <1>5, Zenon DEF DnsLearns, StepInv
<1>19. ASSUME UNCHANGED vars PROVE StepInv'
  BY <1>19, <1>5, Zenon DEF vars, StepInv
<1> QED
  BY <1>1, <1>8, <1>9, <1>10, <1>11, <1>12, <1>13, <1>14, <1>15, <1>16, <1>17, <1>18, <1>19, Zenon
     DEF StepKinds

(* What a step does with a set: a dynamic one is kept, emptied, removed,   *)
(* or has gained an address that was resolved.                             *)
LEMMA DynamicSets ==
    ASSUME TypeInv, [Next]_vars, NEW n \in SetNames, Dynamic(n)
    PROVE  \/ sets'[n] = sets[n] \/ sets'[n] = {} \/ sets'[n] = None
           \/ sets[n] # None /\ \E addr \in Resolved : sets'[n] = sets[n] \cup {addr}
<1> DEFINE Q == \/ sets'[n] = sets[n] \/ sets'[n] = {} \/ sets'[n] = None
                \/ sets[n] # None /\ \E addr \in Resolved : sets'[n] = sets[n] \cup {addr}
<1>1. StepKinds
  BY Kinds, Zenon
<1>2. UNCHANGED sets => Q
  BY Zenon
<1>3. \A mode \in Modes, p \in Plans : Begin(mode, p) => UNCHANGED sets
  BY Zenon DEF Begin
<1>4. ASSUME NEW chains, NEW sweep, NEW preserve, sets' = SetsRemoved(chains, sweep, preserve) PROVE Q
  BY <1>4, Zenon DEF SetsRemoved
<1>5. IptFillSets => Q
  BY Zenon DEF IptFillSets, Restored
<1>6. NftBatch => Q
  <2>1. BatchSets[n] = sets[n] \/ BatchSets[n] = {}
    <3>1. Members[n] \cup {} = IF sets[n] = None THEN {} ELSE sets[n]
      BY DEF Members
    <3> QED
      BY <3>1, Zenon DEF BatchSets
  <2> QED
    BY <2>1, Zenon DEF NftBatch
<1>7. Cleanup => Q
  BY <1>4, Zenon DEF Cleanup, IptCleanup, NftCleanup
<1>8. \A f \in Families : ExternalFlush(f) => Q
  BY DEF ExternalFlush
<1>9. ASSUME NEW m \in SetNames, NEW addr \in Resolved, DnsLearns(m, addr) PROVE Q
  <2>1. sets' = [sets EXCEPT ![m] = sets[m] \cup {addr}] /\ sets[m] # None
    BY <1>9, Zenon DEF DnsLearns
  <2>2. sets \in SetStates
    BY DEF TypeInv
  <2>3. sets'[n] = IF n = m THEN sets[m] \cup {addr} ELSE sets[n]
    BY <2>1, <2>2, Zenon DEF SetStates
  <2> QED
    BY <2>1, <2>3
<1>10. IptCheckDispatchers \/ (\E f \in Families : IptRestore(f)) \/ NftRead \/ Crash \/ UNCHANGED vars
           => UNCHANGED sets
  BY Zenon DEF IptCheckDispatchers, IptRestore, NftRead, Crash, vars
<1>11. IptSweep => Q
  BY <1>4, Zenon DEF IptSweep
<1> HIDE DEF Q
<1>12. Q
  BY <1>1, <1>2, <1>3, <1>5, <1>6, <1>7, <1>8, <1>9, <1>10, <1>11 DEF StepKinds
<1> QED
  BY <1>12 DEF Q

(* dnsmasq alone puts addresses into dynamic sets.                         *)
LEMMA LearnStep == TypeInv /\ LearnInv /\ [Next]_vars => LearnInv'
<1> SUFFICES ASSUME TypeInv, LearnInv, [Next]_vars, NEW n \in SetNames, Dynamic(n), sets'[n] # None
             PROVE  sets'[n] \subseteq Resolved
  BY Zenon DEF LearnInv
<1>1. sets[n] # None => sets[n] \subseteq Resolved
  BY Zenon DEF LearnInv
<1>2. \/ sets'[n] = sets[n] \/ sets'[n] = {} \/ sets'[n] = None
      \/ sets[n] # None /\ \E addr \in Resolved : sets'[n] = sets[n] \cup {addr}
  BY DynamicSets, Zenon
<1> QED
  BY <1>1, <1>2, Zenon

(* The static sets of a generation stay filled while none of them changes. *)
LEMMA FilledKept ==
    ASSUME NEW p \in Plans, NEW g \in Generations, NEW f \in Families, NEW s, NEW t,
           FilledIn(s, p, g, f), \A n \in SetNames : n.slot = g /\ n.fam = f => t[n] = s[n]
    PROVE  FilledIn(t, p, g, f)
<1> SUFFICES ASSUME NEW ref \in Sets[p], ~ref.dyn
             PROVE  t[StaticName(ref, f, g)] = Contents[p.content][ref.list].ips[f]
  BY Zenon DEF FilledIn
<1>1. ref \in SetRefs
  BY SetsFacts, Zenon
<1>2. /\ StaticName(ref, f, g) \in SetNames
      /\ StaticName(ref, f, g).slot = g /\ StaticName(ref, f, g).fam = f
  BY <1>1 DEF StaticName, SetNames, SetRefs
<1>3. s[StaticName(ref, f, g)] = Contents[p.content][ref.list].ips[f]
  BY Zenon DEF FilledIn
<1> QED
  BY <1>2, <1>3, Zenon

(* What dnsmasq adds to is dynamic.                                        *)
LEMMA LearnsKeeps ==
    ASSUME TypeInv, NEW n \in SetNames, NEW addr \in Resolved, DnsLearns(n, addr)
    PROVE  \A m \in SetNames : m.slot \in Generations => sets'[m] = sets[m]
<1> SUFFICES ASSUME NEW m \in SetNames, m.slot \in Generations PROVE sets'[m] = sets[m]
  OBVIOUS
<1>1. sets' = [sets EXCEPT ![n] = sets[n] \cup {addr}] /\ n.slot = "d" /\ sets \in SetStates
  BY Zenon DEF DnsLearns, TypeInv, Dynamic
<1>2. m # n
  BY <1>1 DEF Generations
<1> QED
  BY <1>1, <1>2, Zenon DEF SetStates

(* The sets of an apply are filled before its chains are made.             *)
LEMMA FillStep == TypeInv /\ StepInv /\ FillInv /\ [Next]_vars => FillInv'
<1> SUFFICES ASSUME TypeInv, StepInv, FillInv, [Next]_vars, backend' = "iptables",
                    task'.at \in {"dispatch", "restore4", "restore6"},
                    NEW f \in EnabledFamilies(plan')
             PROVE  FilledIn(sets', plan', task'.target[f], f)
  BY Zenon DEF FillInv, Filled
<1> DEFINE Q == FilledIn(sets', plan', task'.target[f], f)
           Made == {"dispatch", "restore4", "restore6"}
<1>1. StepKinds /\ backend = "iptables"
  BY Kinds, Zenon
<1>2. plan \in Plans /\ task.target \in Targets /\ plan' \in Plans /\ Idle.at = "idle"
  BY Parts, TypeStep, ObjectFacts, Zenon DEF TypeInv
<1>3. f \in Families
  BY DEF EnabledFamilies, Families
<1>4. task.target[f] \in Generations
  BY <1>2, <1>3, Zenon DEF Targets
<1>5. task.at \in Made /\ plan' = plan => FilledIn(sets, plan, task.target[f], f)
  BY <1>1, Zenon DEF FillInv, Filled
<1>6. ASSUME task.at \in Made, UNCHANGED <<plan, sets>>, task'.target = task.target PROVE Q
  <2>1. FilledIn(sets', plan, task.target[f], f)
    BY <1>2, <1>3, <1>4, <1>5, <1>6, FilledKept, Zenon
  <2> QED
    BY <2>1, <1>6
<1>7. /\ "idle" \notin Made /\ "sweep" \notin Made /\ "sets" \notin Made
      /\ "dispatch" \in Made /\ "restore4" \in Made /\ "restore6" \in Made
  OBVIOUS
<1> HIDE DEF Made
<1>8. task'.at \in Made
  BY DEF Made
<1>9. ASSUME NEW mode \in Modes, NEW p \in Plans, Begin(mode, p) PROVE Q
  BY <1>1, <1>7, <1>8, <1>9, BeginFacts, Zenon
<1>10. "sets" \in IptSteps /\ "dispatch" \in IptSteps /\ "restore4" \in IptSteps
  BY DEF IptSteps
<1>11. ASSUME IptSweep PROVE Q
  BY <1>7, <1>8, <1>10, <1>11, StepFacts, Zenon DEF IptSweep
<1>12. ASSUME IptFillSets PROVE Q
  <2>1. sets' = Restored(TRUE) /\ task' = [task EXCEPT !.at = "dispatch"] /\ plan' = plan
    BY <1>2, <1>7, <1>8, <1>12, Zenon DEF IptFillSets, Throw
  <2>2. task'.target = task.target
    BY <2>1, <1>10, StepFacts, Zenon
  <2> DEFINE g == task.target[f]
  <2>3. ASSUME NEW ref \in Sets[plan], ~ref.dyn
        PROVE  sets'[StaticName(ref, f, g)] = Contents[plan.content][ref.list].ips[f]
    <3> DEFINE n == StaticName(ref, f, g)
    <3>1. ref \in SetRefs
      BY <1>2, SetsFacts, Zenon
    <3>2. n \in SetNames /\ n.slot = g /\ n.fam = f /\ n.list = ref.list
      BY <1>3, <1>4, <3>1 DEF StaticName, SetNames, SetRefs
    <3>3. n = NameOf(ref, f, task.target)
      BY <2>3 DEF StaticName, NameOf
    <3>4. n \in SetsIn(plan, task.target)
      <4>1. f \in EnabledFamilies(plan)
        BY <2>1
      <4> QED
        BY <4>1, <3>3 DEF SetsIn
    <3>5. ~Dynamic(n)
      BY <3>2, <1>4 DEF Dynamic, Generations
    <3> HIDE DEF n
    <3>6. sets'[n] = EntriesOf(plan, n)
      BY <2>1, <3>2, <3>4, <3>5, Zenon DEF Restored
    <3> QED
      BY <3>2, <3>6, Zenon DEF EntriesOf, n
  <2> QED
    BY <2>1, <2>2, <2>3, Zenon DEF FilledIn
<1>13. ASSUME IptCheckDispatchers PROVE Q
  BY <1>6, <1>7, <1>10, <1>13, StepFacts, Zenon DEF IptCheckDispatchers
<1>14. ASSUME NEW g \in Families, IptRestore(g) PROVE Q
  <2>1. plan' = plan /\ sets' = sets /\ task.at = IF g = 4 THEN "restore4" ELSE "restore6"
    BY <1>14, RestoreFacts, Zenon
  <2>2. task'.at = "idle" \/ task'.target = task.target
    BY <1>2, <1>14, RestoreFacts, Zenon
  <2> QED
    BY <2>1, <2>2, <1>6, <1>7, <1>8, Zenon
<1>15. ASSUME Cleanup PROVE Q
  BY <1>7, <1>8, <1>15, Zenon DEF Cleanup
<1>16. ASSUME Crash PROVE Q
  BY <1>2, <1>7, <1>8, <1>16, Zenon DEF Crash
<1>17. ASSUME NEW g \in Families, ExternalFlush(g) PROVE Q
  BY <1>1, <1>6, <1>8, <1>17, Zenon DEF ExternalFlush
<1>18. ASSUME NEW n \in SetNames, NEW addr \in Resolved, DnsLearns(n, addr) PROVE Q
  <2>1. UNCHANGED <<plan, task>>
    BY <1>18, Zenon DEF DnsLearns
  <2>2. FilledIn(sets, plan, task.target[f], f)
    BY <2>1, <1>5, <1>8, Zenon
  <2>3. \A m \in SetNames : m.slot \in Generations => sets'[m] = sets[m]
    BY <1>18, LearnsKeeps, Zenon
  <2>4. FilledIn(sets', plan, task.target[f], f)
    BY <2>2, <2>3, <1>2, <1>3, <1>4, FilledKept, Zenon
  <2> QED
    BY <2>1, <2>4
<1>19. ASSUME UNCHANGED vars PROVE Q
  BY <1>6, <1>8, <1>19, Zenon DEF vars
<1>20. "iptables" # "nftables"
  OBVIOUS
<1> HIDE DEF Q
<1>21. Q
  BY <1>1, <1>9, <1>11, <1>12, <1>13, <1>14, <1>15, <1>16, <1>17, <1>18, <1>19, <1>20, Zenon
     DEF StepKinds
<1> QED
  BY <1>21 DEF Q

(* How removing chains counts: there are not more jumps, and with one or   *)
(* none nothing stays.  Where nothing is there is nothing to flush.        *)
LEMMA RemovedFacts ==
    ASSUME NEW chains \in Chains
    PROVE  /\ GenerationsRemoved(chains).jumps = chains.jumps
           /\ chains.jumps <= 1 => Removed(chains) = NoChains
           /\ GenerationsRemoved(NoChains) = NoChains
           /\ NoChains.jumps = 0
           /\ Flushed(chains).jumps = 0 /\ Flushed(NoChains) = NoChains
<1> HIDE DEF Dispatchers, KernelRules
<1>1. NoChains.disp = None /\ NoChains.jumps = 0
  BY DEF NoChains
<1>2. chains.jumps <= 1 => Removed(chains) = NoChains
  BY DEF Removed
<1>3. GenerationsRemoved(chains).jumps = chains.jumps
  <2> DEFINE left == [g \in Generations |->
                         IF chains.disp # None /\ chains.disp.to = g /\ chains.chain[g] # None
                         THEN <<>> ELSE None]
  <2>1. GenerationsRemoved(chains) = [chains EXCEPT !.chain = left]
    BY DEF GenerationsRemoved
  <2> HIDE DEF left, Generations
  <2> QED
    BY <2>1 DEF Chains
<1>4. GenerationsRemoved(NoChains) = NoChains
  <2> DEFINE none == [g \in Generations |-> None]
  <2>1. GenerationsRemoved(NoChains) = [NoChains EXCEPT !.chain = none]
    BY <1>1, Zenon DEF GenerationsRemoved
  <2>2. NoChains = [jumps |-> 0, disp |-> None, chain |-> none]
    BY Zenon DEF NoChains
  <2> HIDE DEF none
  <2> QED
    BY <2>1, <2>2
<1>5. Flushed(chains).jumps = 0
  BY DEF Flushed
<1>6. Flushed(NoChains) = NoChains
  BY DEF Flushed, NoChains
<1> QED
  BY <1>1, <1>2, <1>3, <1>4, <1>5, <1>6, Zenon

(* The table and the sets in it come and go together.                      *)
LEMMA TableStep == TypeInv /\ StepInv /\ TableInv /\ [Next]_vars => TableInv'
<1> SUFFICES ASSUME TypeInv, StepInv, TableInv, [Next]_vars, backend' = "nftables" PROVE TableInv'
  BY Zenon DEF TableInv
<1> DEFINE Empty == nft = None => \A n \in SetNames : sets[n] = None
           Refreshed == task.at = "batch" /\ task.mode = "StaticSetsOnly" => task.seen
           Q == Empty' /\ Refreshed'
<1>1. /\ StepKinds /\ backend = "nftables" /\ Idle.at = "idle" /\ "iptables" # "nftables"
      /\ "idle" # "batch" /\ "read" # "batch" /\ task \in Tasks
  BY Kinds, ObjectFacts, Zenon DEF TypeInv
<1>2. Empty /\ Refreshed
  BY <1>1, Zenon DEF TableInv
<1>3. ASSUME UNCHANGED <<nft, sets>>, task'.at # "batch" PROVE Q
  BY <1>2, <1>3, Zenon
<1>4. ASSUME NEW mode \in Modes, NEW p \in Plans, Begin(mode, p) PROVE Q
  <2>1. UNCHANGED <<nft, sets>> /\ task'.at = "read"
    BY <1>1, <1>4, BeginFacts, Zenon
  <2> QED
    BY <2>1, <1>1, <1>3, Zenon
<1>5. ASSUME NftRead PROVE Q
  <2>1. UNCHANGED <<nft, sets>>
    BY <1>5, Zenon DEF NftRead
  <2>2. PICK seen \in BOOLEAN :
            IF task.mode = "StaticSetsOnly" /\ ~seen THEN Throw
            ELSE task' = [task EXCEPT !.at = "batch", !.seen = seen]
    BY <1>5, Zenon DEF NftRead
  <2>3. CASE task.mode = "StaticSetsOnly" /\ ~seen
    BY <2>1, <2>2, <2>3, <1>1, <1>3, Zenon DEF Throw
  <2>4. CASE ~(task.mode = "StaticSetsOnly" /\ ~seen)
    <3>1. task'.mode = task.mode /\ task'.seen = seen
      <4> HIDE DEF Targets
      <4> QED
        BY <2>2, <2>4, <1>1, Zenon DEF Tasks
    <3> QED
      BY <2>1, <2>4, <3>1, <1>2, Zenon
  <2> QED
    BY <2>3, <2>4, Zenon
<1>6. ASSUME NftBatch PROVE Q
  <2>1. CASE Throw /\ UNCHANGED <<sets, nft>>
    BY <2>1, <1>1, <1>3, Zenon DEF Throw
  <2>2. CASE nft' = BatchRules /\ Return(fw) /\ (task.seen => nft # None)
    <3>1. task.at = "batch" /\ task' = Idle
      BY <2>2, <1>6, Zenon DEF NftBatch, Return
    <3>2. nft # None \/ task.mode # "StaticSetsOnly"
      BY <2>2, <3>1, <1>2, Zenon
    <3>3. nft' # None
      BY <2>2, <3>2, BatchTyped, Zenon
    <3> QED
      BY <3>1, <3>3, <1>1, Zenon
  <2> QED
    BY <2>1, <2>2, <1>6, Zenon DEF NftBatch
<1>7. ASSUME Cleanup PROVE Q
  <2>1. sets' = [n \in SetNames |-> None] /\ task' = task
    BY <1>1, <1>7, Zenon DEF Cleanup, NftCleanup
  <2> QED
    BY <2>1, <1>2, Zenon
<1>8. ASSUME Crash PROVE Q
  BY <1>1, <1>3, <1>8, Zenon DEF Crash
<1>9. ASSUME NEW f \in Families, ExternalFlush(f) PROVE Q
  <2>1. sets' = [n \in SetNames |-> None] /\ task' = task
    BY <1>1, <1>9, Zenon DEF ExternalFlush
  <2> QED
    BY <2>1, <1>2, Zenon
<1>10. ASSUME NEW n \in SetNames, NEW addr \in Resolved, DnsLearns(n, addr) PROVE Q
  <2>1. sets[n] # None /\ UNCHANGED <<nft, task>>
    BY <1>10, Zenon DEF DnsLearns
  <2> QED
    BY <2>1, <1>2, Zenon
<1>11. ASSUME UNCHANGED vars PROVE Q
  BY <1>2, <1>11, Zenon DEF vars
<1> HIDE DEF Q
<1>12. Q
  BY <1>1, <1>4, <1>5, <1>6, <1>7, <1>8, <1>9, <1>10, <1>11, Zenon DEF StepKinds
<1> QED
  BY <1>12, Zenon DEF Q, TableInv

(* The generation in use is another than the one that is filled.           *)
LEMMA UseStep == TypeInv /\ StepInv /\ UseInv /\ [Next]_vars => UseInv'
<1> SUFFICES ASSUME TypeInv, StepInv, UseInv, [Next]_vars PROVE UseInv'
  OBVIOUS
<1> DEFINE Used == known \in {"yes", "kept"} =>
                       \A f \in Families : served[f] # None =>
                           /\ fw.active[f] # None /\ ipt[f].disp # None /\ ipt[f].disp.to = fw.active[f]
                           /\ task.at = "sets" => task.target[f] # fw.active[f]
<1>1. /\ StepKinds /\ backend' = backend /\ Idle.at = "idle"
      /\ backend \in {"iptables", "nftables"}
  BY Kinds, ObjectFacts, Zenon DEF TypeInv
<1>2. backend = "iptables" => Used
  BY Zenon DEF UseInv
<1>3. /\ "idle" # "sets" /\ "sweep" # "sets" /\ "dispatch" # "sets" /\ "restore4" # "sets"
      /\ "restore6" # "sets" /\ "iptables" # "nftables"
      /\ "unswept" \notin {"yes", "kept"} /\ "blind" \notin {"yes", "kept"}
  OBVIOUS
<1>4. "dispatch" \in IptSteps /\ "restore4" \in IptSteps
  BY DEF IptSteps
<1>5. /\ fw.active \in [Families -> Generations \cup {None}] /\ task.target \in Targets
      /\ ipt \in [Families -> Chains] /\ fw.owned \in [Families -> BOOLEAN]
      /\ served \in [Families -> [plan : Plans, regular : BOOLEAN] \cup {None}]
      /\ None \notin Generations
  BY Parts, FirewallAssumption, Zenon DEF TypeInv
<1>6. served' = NotServed => Used'
  BY Zenon DEF NotServed
<1>9. ASSUME UNCHANGED <<ipt, served, known>>, fw'.active = fw.active, task'.at # "sets"
      PROVE  backend = "iptables" => Used'
  BY <1>2, <1>9, Zenon
<1> DEFINE Q == backend = "iptables" => Used'
<1>10. ASSUME NEW mode \in Modes, NEW p \in Plans, Begin(mode, p) PROVE Q
  <2>1. UNCHANGED <<ipt, served>> /\ fw'.active = fw.active
    BY <1>10, BeginFacts, Zenon
  <2>2. ASSUME backend = "iptables", known' \in {"yes", "kept"}, NEW f \in Families, served'[f] # None
        PROVE  /\ fw'.active[f] # None /\ ipt'[f].disp # None /\ ipt'[f].disp.to = fw'.active[f]
               /\ task'.at = "sets" => task'.target[f] # fw'.active[f]
    <3>1. /\ known' = IF known = "unswept" /\ mode # "Destructive" THEN "blind" ELSE known
          /\ task'.at = IF mode = "Destructive" THEN "sweep" ELSE "sets"
          /\ task'.target[f] = TargetGeneration(mode, fw.active[f])
      BY <2>2, <1>10, BeginFacts, Zenon
    <3>2. known \in {"yes", "kept"}
      BY <2>2, <3>1, <1>3, Zenon
    <3>3. fw.active[f] # None /\ ipt[f].disp # None /\ ipt[f].disp.to = fw.active[f]
      BY <2>1, <2>2, <3>2, <1>2, Zenon
    <3>4. fw.active[f] \in Generations
      BY <3>3, <1>5, Zenon
    <3>5. Opposite(fw.active[f]) # fw.active[f]
      BY <3>4 DEF Opposite, Generations
    <3>6. mode # "Destructive" => task'.target[f] # fw.active[f]
      BY <3>1, <3>3, <3>5, Zenon DEF TargetGeneration
    <3> QED
      BY <2>1, <3>1, <3>3, <3>6, <1>3, Zenon
  <2> QED
    BY <2>1, <2>2, Zenon
<1>11. ASSUME IptSweep PROVE Q
  BY <1>6, <1>11, Zenon DEF IptSweep
<1>12. ASSUME IptFillSets PROVE Q
  <2>1. task'.at = "dispatch" \/ task'.at = "idle"
    BY <1>1, <1>4, <1>12, StepFacts, Zenon DEF IptFillSets, Throw
  <2>2. UNCHANGED <<ipt, served, known, fw>>
    BY <1>12, Zenon DEF IptFillSets, Throw
  <2> QED
    BY <2>1, <2>2, <1>3, <1>9, Zenon
<1>13. ASSUME IptCheckDispatchers PROVE Q
  <2>1. task'.at = "restore4" /\ known' = known
    BY <1>4, <1>13, StepFacts DEF IptCheckDispatchers
  <2>2. \/ ipt' = RulesRemoved(TRUE) /\ served' = NotServed
        \/ UNCHANGED <<ipt, fw, served>>
    BY <1>13, Zenon DEF IptCheckDispatchers
  <2>3. CASE ipt' = RulesRemoved(TRUE) /\ served' = NotServed
    BY <2>3, <1>6, Zenon
  <2>4. CASE UNCHANGED <<ipt, fw, served>>
    BY <2>1, <2>4, <1>3, <1>9, Zenon
  <2> QED
    BY <2>2, <2>3, <2>4, Zenon
<1>14. ASSUME backend = "iptables", NEW g \in Families, IptRestore(g) PROVE Q
  <2> DEFINE rules == RulesIn(plan, g, task.target)
  <2>1. CASE task' = Idle /\ UNCHANGED <<fw, ipt, served>>
    BY <2>1, <1>1, <1>3, <1>9, <1>14, RestoreFacts, Zenon
  <2>2. CASE /\ ipt' = [ipt EXCEPT ![g] = Switched(g, rules)]
             /\ served' = [served EXCEPT ![g] = IptServes(g)]
             /\ fw'.active = [fw.active EXCEPT ![g] = task.target[g]]
             /\ task'.at = "idle" \/ task'.at = "restore6"
    <3>1. task.target[g] \in Generations /\ known' = known
      BY <1>5, <1>14, RestoreFacts, ZenonT(40) DEF Targets
    <3> DEFINE c == Switched(g, rules)
               also == Keep(rules, {r \in ToSet(rules) : InDispatcher(r)})
    <3>2. c.disp = [to |-> task.target[g], also |-> also]
      BY SwitchedFields, Zenon
    <3> HIDE DEF c, also, rules
    <3>3. c.disp.to = task.target[g]
      BY <3>2
    <3>4. c.disp # None
      <4>1. c \in Chains
        BY SwitchedFacts, Zenon DEF c, rules
      <4>2. c.disp \in Dispatchers
        <5>1. task.target[g] \in Generations \cup {None}
          BY <3>1
        <5>2. also \in Seq(KernelRules)
          <6> DEFINE D == {r \in ToSet(rules) : InDispatcher(r)}
          <6>1. rules \in Seq(KernelRules)
            BY <1>5, RulesInFacts, Zenon DEF rules, TypeInv
          <6> HIDE DEF D, KernelRules
          <6>2. Keep(rules, D) \in Seq(KernelRules)
            BY <6>1, KeepFacts
          <6> QED
            BY <6>2 DEF D, also
        <5> HIDE DEF KernelRules
        <5> QED
          BY <5>1, <5>2, <3>2 DEF Dispatchers
      <4> QED
        BY <4>2, FirewallAssumption, Zenon
    <3>6. ipt'[g] = c /\ fw'.active[g] = task.target[g] /\ served'[g] = IptServes(g)
      BY <2>2, <1>5, Zenon DEF c
    <3>7. \A f \in Families : f # g => ipt'[f] = ipt[f] /\ fw'.active[f] = fw.active[f] /\ served'[f] = served[f]
      BY <2>2, <1>5, Zenon
    <3>9. ASSUME known' \in {"yes", "kept"}, NEW f \in Families, served'[f] # None
          PROVE  /\ fw'.active[f] # None /\ ipt'[f].disp # None /\ ipt'[f].disp.to = fw'.active[f]
                 /\ task'.at # "sets"
      <4>1. task'.at # "sets"
        BY <2>2, <1>3, Zenon
      <4>2. CASE f = g
        BY <4>1, <4>2, <3>1, <3>3, <3>4, <3>6, <1>5, Zenon
      <4>3. CASE f # g
        BY <4>1, <4>3, <3>1, <3>7, <3>9, <1>2, <1>14, Zenon
      <4> QED
        BY <4>2, <4>3, Zenon
    <3> QED
      BY <3>9, Zenon
  <2> QED
    BY <2>1, <2>2, <1>14, RestoreFacts, Zenon
<1>15. ASSUME backend = "nftables", NftRead \/ NftBatch PROVE Q
  BY <1>3, <1>15, Zenon
<1>16. ASSUME Cleanup PROVE Q
  BY <1>6, <1>16, Zenon DEF Cleanup
<1>17. ASSUME Crash PROVE Q
  BY <1>3, <1>17, Zenon DEF Crash
<1>18. ASSUME NEW g \in Families, ExternalFlush(g) PROVE Q
  <2>1. UNCHANGED <<fw, task, known>>
    BY <1>18, Zenon DEF ExternalFlush
  <2>2. CASE backend = "iptables"
    <3>1. /\ \E chains : ipt' = [ipt EXCEPT ![g] = chains]
          /\ served' = [h \in Families |-> IF h # g THEN served[h] ELSE None]
      BY <2>2, <1>18, Zenon DEF ExternalFlush
    <3>2. /\ served'[g] = None
          /\ \A f \in Families : f # g => ipt'[f] = ipt[f] /\ served'[f] = served[f]
      BY <3>1, <1>5, Zenon
    <3> QED
      BY <2>1, <2>2, <3>2, <1>2, Zenon
  <2>3. CASE backend # "iptables"
    BY <2>3
  <2> QED
    BY <2>2, <2>3, Zenon
<1>19. ASSUME NEW n \in SetNames, NEW addr \in Resolved, DnsLearns(n, addr) PROVE Q
  BY <1>2, <1>19, Zenon DEF DnsLearns
<1>20. ASSUME UNCHANGED vars PROVE Q
  BY <1>2, <1>20, Zenon DEF vars
<1> HIDE DEF Q
<1>21. Q
  BY <1>1, <1>10, <1>11, <1>12, <1>13, <1>14, <1>15, <1>16, <1>17, <1>18, <1>19, <1>20, Zenon
     DEF StepKinds
<1> QED
  BY <1>1, <1>21, Zenon DEF Q, UseInv

(* The rules of a plan are the same as long as the backend is.             *)
LEMMA SameRules ==
    ASSUME backend' = backend, NEW p, NEW f, NEW target
    PROVE  RulesIn(p, f, target)' = RulesIn(p, f, target)
  BY Zenon DEF RulesIn, InFamily

(* What a family has stays while its chains and the sets in use do.        *)
LEMMA IptKept ==
    ASSUME NEW p \in Plans, NEW f \in Families, IptHas(f, p),
           backend' = backend, ipt'[f] = ipt[f],
           \A n \in SetNames : n.slot = ipt[f].disp.to /\ n.fam = f => sets'[n] = sets[n]
    PROVE  IptHas(f, p)'
<1>1. PICK target \in Targets : /\ ipt[f].disp = [to |-> target[f], also |-> <<>>]
                                /\ ipt[f].chain[target[f]] = RulesIn(p, f, target)
                                /\ Filled(p, target[f], f)
  BY ZenonT(40) DEF IptHas
<1>2. ipt[f].disp.to = target[f]
  BY <1>1
<1>3. target[f] \in Generations
  BY DEF Targets
<1>4. FilledIn(sets', p, target[f], f)
  <2>1. FilledIn(sets, p, target[f], f)
    BY <1>1, Zenon DEF Filled
  <2> QED
    BY <2>1, <1>2, <1>3, FilledKept, Zenon
<1>5. RulesIn(p, f, target)' = RulesIn(p, f, target)
  BY SameRules, Zenon
<1>6. ipt[f].jumps # 0
  BY Zenon DEF IptHas
<1> QED
  BY <1>1, <1>4, <1>5, <1>6, Zenon DEF IptHas, Filled

(* The same for nftables, whose table is replaced as a whole.              *)
LEMMA NftKept ==
    ASSUME NEW p \in Plans, NEW f \in Families, NftHas(f, p),
           backend' = backend, nft' = nft,
           \A n \in SetNames : n.slot = "A" /\ n.fam = f => sets'[n] = sets[n]
    PROVE  NftHas(f, p)'
<1>1. "A" \in Generations
  BY DEF Generations
<1>2. FilledIn(sets', p, "A", f)
  <2>1. FilledIn(sets, p, "A", f)
    BY Zenon DEF NftHas, Filled
  <2> QED
    BY <2>1, <1>1, FilledKept, Zenon
<1>3. /\ RulesIn(p, 4, NftTarget)' = RulesIn(p, 4, NftTarget)
      /\ RulesIn(p, 6, NftTarget)' = RulesIn(p, 6, NftTarget)
  BY SameRules, Zenon
<1> QED
  BY <1>2, <1>3, Zenon DEF NftHas, Filled

(* The chains of a family that was switched are those of the plan, when no *)
(* rule of it goes into the dispatcher.                                    *)
LEMMA SwitchedHas ==
    ASSUME TypeInv, NEW f \in Families, ~ListVerdicts(plan)
    PROVE  /\ Switched(f, RulesIn(plan, f, task.target)).disp = [to |-> task.target[f], also |-> <<>>]
           /\ Switched(f, RulesIn(plan, f, task.target)).chain[task.target[f]]
                  = RulesIn(plan, f, task.target)
<1> DEFINE rules == RulesIn(plan, f, task.target)
           g == task.target[f]
           D == {r \in ToSet(rules) : InDispatcher(r)}
           E == ToSet(rules) \ D
<1>1. plan \in Plans /\ task.target \in Targets
      /\ ipt[f].chain \in [Generations -> Seq(KernelRules) \cup {None}]
  BY Parts, Zenon DEF TypeInv
<1>2. g \in Generations
  BY <1>1, Zenon DEF Targets
<1>3. /\ rules \in Seq(KernelRules) /\ DOMAIN rules = DOMAIN Mine(plan, f)
      /\ \A k \in DOMAIN Mine(plan, f) :
             /\ Mine(plan, f)[k] \in ToSet(Rules[plan])
             /\ rules[k] = InKernel(Mine(plan, f)[k], f, task.target)
  BY <1>1, RulesInFacts, Zenon
<1>4. \A r \in ToSet(Rules[plan]) : r.set = None \/ r.act.kind = "mark"
  BY Zenon DEF ListVerdicts, ToSet
<1>5. \A k \in DOMAIN rules : ~InDispatcher(rules[k])
  <2> TAKE k \in DOMAIN rules
  <2> DEFINE r == Mine(plan, f)[k]
             x == InKernel(r, f, task.target)
  <2>1. r.set = None \/ r.act.kind = "mark"
    BY <1>3, <1>4, Zenon
  <2>2. rules[k] = x
    BY <1>3, Zenon
  <2> HIDE DEF r
  <2>3. x.act = r.act /\ (r.set = None => x.set = None)
    BY DEF InKernel
  <2> QED
    BY <2>1, <2>2, <2>3, Zenon DEF InDispatcher
<1>6. ToSet(rules) \cap D = {} /\ ToSet(rules) \subseteq E
  BY <1>5, Zenon DEF ToSet
<1>7. Keep(rules, D) = <<>> /\ Keep(rules, E) = rules
  <2> HIDE DEF rules, D, E, KernelRules
  <2> QED
    BY <1>3, <1>6, KeepAll, Zenon
<1>8. /\ Switched(f, rules).disp = [to |-> g, also |-> Keep(rules, D)]
      /\ Switched(f, rules).chain = [ipt[f].chain EXCEPT ![g] = Keep(rules, E)]
  BY Zenon DEF Switched
<1> HIDE DEF rules, D, E, g
<1>9. Switched(f, rules).chain[g] = rules
  BY <1>1, <1>2, <1>7, <1>8, Zenon
<1> QED
  BY <1>7, <1>8, <1>9, Zenon DEF rules, g

(* The table that one batch makes of one plan is that of the plan.         *)
LEMMA BatchHas ==
    ASSUME TypeInv, Len(fw.pending) = 1, fw.pending[Len(fw.pending)] = plan,
           task.seen \/ \A n \in SetNames : sets[n] = None,
           NEW f \in EnabledFamilies(plan)
    PROVE  /\ QueuedRules = RulesIn(plan, 4, NftTarget) \o RulesIn(plan, 6, NftTarget)
           /\ FilledIn(BatchSets, plan, "A", f)
<1> DEFINE R(p) == RulesIn(p, 4, NftTarget) \o RulesIn(p, 6, NftTarget)
           ss == [i \in DOMAIN fw.pending |-> R(fw.pending[i])]
<1>1. plan \in Plans /\ fw.pending \in Seq(Plans) /\ NftTarget \in Targets
  BY Parts, SetsMade, Zenon DEF TypeInv
<1>2. f \in Families /\ 4 \in Families /\ 6 \in Families
  BY DEF EnabledFamilies, Families
<1>3. DOMAIN fw.pending = {1} /\ fw.pending[1] = plan
  <2> HIDE DEF Plans
  <2> QED
    BY <1>1
<1>4. QueuedRules = R(plan)
  <2> DEFINE a == RulesIn(plan, 4, NftTarget)
             b == RulesIn(plan, 6, NftTarget)
  <2>1. a \in Seq(KernelRules) /\ b \in Seq(KernelRules)
    BY <1>1, <1>2, RulesInFacts, Zenon
  <2>2. R(plan) \in Seq(KernelRules)
    <3> HIDE DEF a, b, KernelRules
    <3>1. a \o b \in Seq(KernelRules)
      BY <2>1
    <3> QED
      BY <3>1 DEF a, b
  <2>3. QueuedRules = FlattenSeq(ss)
    BY Zenon DEF QueuedRules
  <2> DEFINE Y == Seq(KernelRules)
  <2> HIDE DEF R, Y
  <2>4. ss \in [{1} -> Y] /\ ss[1] = R(plan)
    BY <1>3, <2>2, Zenon DEF Y
  <2> HIDE DEF ss
  <2>5. {1} = 1 .. 1 /\ 1 \in Nat
    OBVIOUS
  <2>6. ss \in [1 .. 1 -> Y]
    BY <2>4, <2>5, Zenon
  <2>7. ss \in Seq(Y) /\ Len(ss) = 1
    BY <2>5, <2>6, SeqOf, Zenon
  <2>8. FlattenSeq(ss) = ss[1]
    <3> HIDE DEF KernelRules
    <3>1. ss \in Seq(Seq(KernelRules)) /\ Len(ss) = 1
      BY <2>7 DEF Y
    <3> QED
      BY <3>1, FlattenOne
  <2> QED
    BY <2>3, <2>4, <2>8, Zenon
<1>5. ASSUME NEW ref \in Sets[plan], ~ref.dyn
      PROVE  BatchSets[StaticName(ref, f, "A")] = Contents[plan.content][ref.list].ips[f]
  <2> DEFINE n == StaticName(ref, f, "A")
  <2>1. ref \in SetRefs
    BY <1>1, SetsFacts, Zenon
  <2>2. n \in SetNames /\ n.slot = "A" /\ n.fam = f /\ n.list = ref.list
    BY <2>1, <1>2 DEF StaticName, SetNames, SetRefs, Generations
  <2>3. n = NameOf(ref, f, NftTarget)
    BY <1>2, <1>5 DEF StaticName, NameOf, NftTarget
  <2>4. n \in SetsIn(plan, NftTarget)
    BY <2>3 DEF SetsIn
  <2>5. ~Dynamic(n)
    BY <2>2 DEF Dynamic
  <2> HIDE DEF n
  <2>6. n \in QueuedSets
    BY <2>4, <1>3, Zenon DEF QueuedSets
  <2>7. QueuedEntries(n) = EntriesOf(plan, n)
    <3> DEFINE with == {j \in DOMAIN fw.pending : n \in SetsIn(fw.pending[j], NftTarget)}
    <3>1. with = {1}
      BY <2>4, <1>3, Zenon
    <3>2. QueuedEntries(n) = UNION {EntriesOf(fw.pending[i], n) : i \in with}
      BY Zenon DEF QueuedEntries
    <3> HIDE DEF with
    <3>3. {EntriesOf(fw.pending[i], n) : i \in with} = {EntriesOf(plan, n)}
      BY <3>1, <1>3, Zenon
    <3> QED
      BY <3>2, <3>3, Zenon
  <2>8. BatchSets[n] = EntriesOf(plan, n)
    <3>1. ~task.seen => Members[n] = {}
      BY <2>2, Zenon DEF Members
    <3>2. {} \cup QueuedEntries(n) = QueuedEntries(n)
      OBVIOUS
    <3> QED
      BY <2>2, <2>5, <2>6, <2>7, <3>1, <3>2, Zenon DEF BatchSets
  <2> QED
    BY <2>2, <2>8, Zenon DEF EntriesOf, n
<1> QED
  BY <1>4, <1>5, Zenon DEF FilledIn

(* The names of the sets of an apply.                                      *)
LEMMA OtherGeneration ==
    ASSUME TypeInv, NEW n \in SetNames, NEW g, n.slot = g, g \in Generations, g # task.target[n.fam]
    PROVE  n \notin SetsIn(plan, task.target)
<1> SUFFICES ASSUME n \in SetsIn(plan, task.target) PROVE FALSE
  BY Zenon
<1>1. plan \in Plans /\ task.target \in Targets /\ EnabledFamilies(plan) \subseteq Families
  BY Parts, Zenon DEF TypeInv, EnabledFamilies, Families
<1>2. PICK ref \in Sets[plan], f \in EnabledFamilies(plan) : n = NameOf(ref, f, task.target)
  BY DEF SetsIn
<1>3. ref \in SetRefs /\ f \in Families
  BY <1>1, SetsFacts, Zenon
<1>4. n.fam = f /\ n.slot = IF ref.dyn THEN "d" ELSE task.target[f]
  BY <1>1, <1>2, <1>3, NamesFacts
<1> QED
  BY <1>4 DEF Generations

(* The chains and sets in use stay those of the plan that is served.       *)
LEMMA ServeStep ==
    TypeInv /\ StepInv /\ TableInv /\ FillInv /\ UseInv /\ ServeInv /\ [Next]_vars => ServeInv'
<1> SUFFICES ASSUME TypeInv, StepInv, TableInv, FillInv, UseInv, ServeInv, [Next]_vars, known' # "blind",
                    NEW f \in Families, NEW p \in Plans,
                    served'[f] # None, served'[f].regular, served'[f].plan = p
             PROVE  f \in EnabledFamilies(p) /\ ~Widened(p) /\ Has(f, p)'
  BY Zenon DEF ServeInv
<1> DEFINE Q == f \in EnabledFamilies(p) /\ ~Widened(p) /\ Has(f, p)'
<1>1. /\ StepKinds /\ backend' = backend /\ Idle.at = "idle"
      /\ backend \in {"iptables", "nftables"} /\ "iptables" # "nftables"
  BY Kinds, ObjectFacts, Zenon DEF TypeInv
<1>2. ASSUME known # "blind", served'[f] = served[f]
      PROVE  f \in EnabledFamilies(p) /\ ~Widened(p) /\ Has(f, p)
  BY <1>2, Zenon DEF ServeInv
<1>3. ASSUME backend = "iptables", known # "blind", served'[f] = served[f], ipt'[f] = ipt[f],
             \A n \in SetNames : n.slot = ipt[f].disp.to /\ n.fam = f => sets'[n] = sets[n]
      PROVE  Q
  <2>1. f \in EnabledFamilies(p) /\ ~Widened(p) /\ IptHas(f, p)
    BY <1>2, <1>3, Zenon DEF Has
  <2>2. IptHas(f, p)'
    BY <2>1, <1>1, <1>3, IptKept, Zenon
  <2> QED
    BY <2>1, <2>2, <1>1, <1>3, Zenon DEF Has
<1>4. ASSUME backend = "nftables", known # "blind", served'[f] = served[f], nft' = nft,
             \A n \in SetNames : n.slot = "A" /\ n.fam = f => sets'[n] = sets[n]
      PROVE  Q
  <2>1. f \in EnabledFamilies(p) /\ ~Widened(p) /\ NftHas(f, p)
    BY <1>1, <1>2, <1>4, Zenon DEF Has
  <2>2. NftHas(f, p)'
    BY <2>1, <1>1, <1>4, NftKept, Zenon
  <2> QED
    BY <2>1, <2>2, <1>1, <1>4, Zenon DEF Has
<1>5. ASSUME known # "blind", UNCHANGED <<served, ipt, nft, sets>> PROVE Q
  BY <1>1, <1>3, <1>4, <1>5, Zenon
<1>6. served' # NotServed
  BY Zenon DEF NotServed
<1>7. ASSUME NEW mode \in Modes, NEW q \in Plans, Begin(mode, q) PROVE Q
  <2>1. UNCHANGED <<served, ipt, nft, sets>>
    BY <1>7, BeginFacts, Zenon
  <2>2. known' = known \/ known' = IF known = "unswept" /\ mode # "Destructive" THEN "blind" ELSE known
    BY <1>1, <1>7, BeginFacts, Zenon
  <2> QED
    BY <2>1, <2>2, <1>5, Zenon
<1>8. ~IptSweep
  BY <1>6, Zenon DEF IptSweep
<1>9. ASSUME backend = "iptables", IptFillSets PROVE Q
  <2>1. task.at = "sets" /\ UNCHANGED <<ipt, served, known>>
        /\ (sets' = sets \/ \E filled : sets' = Restored(filled))
    BY <1>9, Zenon DEF IptFillSets
  <2>2. known \in {"yes", "kept"}
    <3>1. known # "unswept"
      <4>1. "sets" # "idle" /\ "sets" # "sweep"
        OBVIOUS
      <4> QED
        BY <4>1, <2>1, <1>9, Zenon DEF StepInv
    <3> QED
      BY <2>1, <3>1 DEF TypeInv
  <2>3. fw.active[f] # None /\ ipt[f].disp.to = fw.active[f] /\ task.target[f] # fw.active[f]
    BY <2>1, <2>2, <1>9, Zenon DEF UseInv
  <2>4. fw.active[f] \in Generations
    BY <2>3, Parts, Zenon
  <2>5. ASSUME NEW n \in SetNames, n.slot = ipt[f].disp.to, n.fam = f PROVE sets'[n] = sets[n]
    <3>1. n \notin SetsIn(plan, task.target)
      BY <2>3, <2>4, <2>5, OtherGeneration, Zenon
    <3> QED
      BY <3>1, <2>1, Zenon DEF Restored
  <2> QED
    BY <2>1, <2>5, <1>3, <1>9, Zenon
<1>10. ASSUME IptCheckDispatchers PROVE Q
  BY <1>5, <1>6, <1>10, Zenon DEF IptCheckDispatchers
<1>11. ASSUME backend = "iptables", NEW g \in Families, IptRestore(g) PROVE Q
  <2> DEFINE rules == RulesIn(plan, g, task.target)
  <2>1. UNCHANGED <<sets, nft, known>> /\ task.at = IF g = 4 THEN "restore4" ELSE "restore6"
    BY <1>11, RestoreFacts, Zenon
  <2>2. CASE UNCHANGED <<ipt, served>>
    BY <2>1, <2>2, <1>5, Zenon
  <2>3. CASE ipt' = [ipt EXCEPT ![g] = Switched(g, rules)] /\ served' = [served EXCEPT ![g] = IptServes(g)]
    <3>1. /\ plan \in Plans /\ task.target \in Targets /\ ipt \in [Families -> Chains]
          /\ served \in [Families -> [plan : Plans, regular : BOOLEAN] \cup {None}]
      BY Parts, Zenon DEF TypeInv
    <3>2. CASE f # g
      <4>1. ipt'[f] = ipt[f] /\ served'[f] = served[f]
        BY <2>3, <3>1, <3>2, Zenon
      <4> QED
        BY <4>1, <2>1, <1>3, <1>11, Zenon
    <3>3. CASE f = g
      <4>1. ipt'[f] = Switched(f, rules) /\ served'[f] = IptServes(f)
        BY <2>3, <3>1, <3>3, Zenon
      <4>2. /\ IptServes(f).plan = plan
            /\ IptServes(f).regular <=> /\ f \in EnabledFamilies(plan) /\ ~ListVerdicts(plan)
                                        /\ ~Widened(plan)
                                        /\ fw.active[f] = None \/ ipt[f].jumps > 0
        BY DEF IptServes
      <4>3. p = plan /\ f \in EnabledFamilies(plan) /\ ~ListVerdicts(plan) /\ ~Widened(plan)
            /\ (fw.active[f] = None \/ ipt[f].jumps > 0)
        BY <4>1, <4>2, Zenon
      <4> DEFINE target == task.target
                 mine == RulesIn(p, f, target)
      <4>4. rules = mine
        BY <3>3, <4>3, Zenon
      <4>5. /\ ipt'[f].disp = [to |-> target[f], also |-> <<>>]
            /\ ipt'[f].chain[target[f]] = mine
        BY <3>3, <4>1, <4>3, <4>4, SwitchedHas, Zenon
      <4>6. task.at \in {"dispatch", "restore4", "restore6"}
        BY <2>1
      <4>7. FilledIn(sets, p, target[f], f)
        BY <4>3, <4>6, <1>11, Zenon DEF FillInv, Filled
      <4>8. ipt[f].jumps \in Nat
        BY Parts, Zenon
      <4>9. ipt'[f].jumps # 0
        <5> DEFINE more == IF fw.active[f] = None THEN 1 ELSE 0
        <5>1. ipt'[f].jumps = ipt[f].jumps + more
          BY <4>1, SwitchedFields, Zenon
        <5> QED
          BY <4>3, <4>8, <5>1
      <4>10. PICK t \in Targets : t = target
        BY <3>1, Zenon
      <4>11. RulesIn(p, f, t)' = RulesIn(p, f, t)
        BY <1>1, SameRules, Zenon
      <4>12. /\ ipt'[f].disp = [to |-> t[f], also |-> <<>>]
             /\ ipt'[f].chain[t[f]] = RulesIn(p, f, t)'
             /\ FilledIn(sets', p, t[f], f)
        BY <4>5, <4>7, <4>10, <4>11, <2>1, Zenon
      <4>13. IptHas(f, p)'
        BY <4>9, <4>12, Zenon DEF IptHas, Filled
      <4> QED
        BY <4>3, <4>13, <1>1, <1>11, Zenon DEF Has
    <3> QED
      BY <3>2, <3>3, Zenon
  <2> QED
    BY <2>2, <2>3, <1>11, RestoreFacts, Zenon
<1>12. ASSUME NftRead PROVE Q
  BY <1>5, <1>12, Zenon DEF NftRead
<1>13. ASSUME backend = "nftables", NftBatch PROVE Q
  <2>1. CASE UNCHANGED <<sets, nft, served, known>>
    BY <2>1, <1>5, <1>13, Zenon DEF NftBatch
  <2>2. CASE sets' = BatchSets /\ nft' = BatchRules /\ served' = [g \in Families |-> NftServes(g)]
    <3>1. served'[f] = NftServes(f)
      BY <2>2, Zenon
    <3>2. /\ NftServes(f).plan = plan
          /\ NftServes(f).regular <=> /\ f \in EnabledFamilies(plan)
                                      /\ Len(fw.pending) = 1 /\ ~Widened(plan)
                                      /\ task.seen \/ nft = None
                                      /\ BatchRules = QueuedRules
      BY DEF NftServes
    <3>3. /\ p = plan /\ f \in EnabledFamilies(plan) /\ Len(fw.pending) = 1 /\ ~Widened(plan)
          /\ BatchRules = QueuedRules /\ (task.seen \/ \A n \in SetNames : sets[n] = None)
      BY <3>1, <3>2, <1>13, Zenon DEF TableInv
    <3>4. task.at = "batch" /\ "batch" # "idle"
      BY <1>13 DEF NftBatch
    <3>5. fw.pending[Len(fw.pending)] = plan
      BY <3>4, <1>13, Zenon DEF StepInv
    <3>6. /\ QueuedRules = RulesIn(plan, 4, NftTarget) \o RulesIn(plan, 6, NftTarget)
          /\ FilledIn(BatchSets, plan, "A", f)
      BY <3>3, <3>5, BatchHas, Zenon
    <3>7. /\ nft' = RulesIn(p, 4, NftTarget) \o RulesIn(p, 6, NftTarget)
          /\ FilledIn(sets', p, "A", f)
      BY <2>2, <3>3, <3>6, Zenon
    <3>8. /\ RulesIn(p, 4, NftTarget)' = RulesIn(p, 4, NftTarget)
          /\ RulesIn(p, 6, NftTarget)' = RulesIn(p, 6, NftTarget)
      BY <1>1, SameRules, Zenon
    <3>9. NftHas(f, p)'
      BY <3>7, <3>8, Zenon DEF NftHas, Filled
    <3> QED
      BY <3>3, <3>9, <1>1, <1>13, Zenon DEF Has
  <2> QED
    BY <2>1, <2>2, <1>13, Zenon DEF NftBatch
<1>14. ~Cleanup
  BY <1>6 DEF Cleanup
<1>15. ASSUME Crash PROVE Q
  BY <1>5, <1>15, Zenon DEF Crash
<1>16. ASSUME NEW g \in Families, ExternalFlush(g) PROVE Q
  <2>1. served'[f] = (IF backend = "iptables" /\ f # g THEN served[f] ELSE None) /\ known' = known
    BY <1>16, Zenon DEF ExternalFlush
  <2>2. backend = "iptables" /\ f # g /\ served'[f] = served[f]
    BY <2>1, Zenon
  <2>3. (\E chains : ipt' = [ipt EXCEPT ![g] = chains]) /\ sets' = sets /\ ipt \in [Families -> Chains]
    BY <2>2, <1>16, Zenon DEF ExternalFlush, TypeInv
  <2>4. ipt'[f] = ipt[f]
    BY <2>2, <2>3, Zenon
  <2> QED
    BY <2>1, <2>2, <2>3, <2>4, <1>3, Zenon
<1>17. ASSUME NEW n \in SetNames, NEW addr \in Resolved, DnsLearns(n, addr) PROVE Q
  <2>1. UNCHANGED <<ipt, nft, served, known>>
    BY <1>17, Zenon DEF DnsLearns
  <2>2. \A m \in SetNames : m.slot \in Generations => sets'[m] = sets[m]
    BY <1>17, LearnsKeeps, Zenon
  <2>3. CASE backend = "iptables"
    <3>1. IptHas(f, p)
      BY <2>1, <2>3, <1>2, Zenon DEF Has
    <3>2. PICK target \in Targets : ipt[f].disp = [to |-> target[f], also |-> <<>>]
      BY <3>1, Zenon DEF IptHas
    <3>3. ipt[f].disp.to \in Generations
      BY <3>2 DEF Targets
    <3> QED
      BY <2>1, <2>2, <2>3, <3>3, <1>3, Zenon
  <2>4. CASE backend = "nftables"
    <3>1. "A" \in Generations
      BY DEF Generations
    <3> QED
      BY <2>1, <2>2, <2>4, <3>1, <1>4, Zenon
  <2> QED
    BY <2>3, <2>4, <1>1, Zenon
<1>18. ASSUME UNCHANGED vars PROVE Q
  BY <1>5, <1>18, Zenon DEF vars
<1> HIDE DEF Q
<1>19. Q
  BY <1>1, <1>7, <1>8, <1>9, <1>10, <1>11, <1>12, <1>13, <1>14, <1>15, <1>16, <1>17, <1>18, Zenon
     DEF StepKinds
<1> QED
  BY <1>19 DEF Q

(* What a removal leaves in each family.                                   *)
LEMMA RulesLeft ==
    ASSUME TypeInv, NEW sweep, NEW f \in Families, ipt[f].jumps <= 1
    PROVE  /\ RulesRemoved(sweep)[f].jumps <= 1
           /\ sweep \/ fw.owned[f] => RulesRemoved(sweep)[f] = NoChains
           /\ ipt[f] = NoChains => RulesRemoved(sweep)[f] = NoChains
<1>1. ipt[f] \in Chains
  BY Parts, Zenon
<1>2. /\ Removed(ipt[f]) = NoChains /\ NoChains.jumps = 0
      /\ GenerationsRemoved(ipt[f]).jumps = ipt[f].jumps /\ GenerationsRemoved(NoChains) = NoChains
  BY <1>1, RemovedFacts, Zenon
<1>3. RulesRemoved(sweep)[f] = IF fw.owned[f] \/ sweep THEN Removed(ipt[f])
                               ELSE IF \E g \in Families : fw.owned[g] THEN GenerationsRemoved(ipt[f])
                               ELSE ipt[f]
  BY DEF RulesRemoved
<1>4. 0 <= 1
  OBVIOUS
<1> DEFINE c == \E g \in Families : fw.owned[g]
<1> HIDE DEF c
<1>5. RulesRemoved(sweep)[f] = IF fw.owned[f] \/ sweep THEN Removed(ipt[f])
                               ELSE IF c THEN GenerationsRemoved(ipt[f]) ELSE ipt[f]
  BY <1>3 DEF c
<1> QED
  BY <1>2, <1>4, <1>5, Zenon

(* When no chains are left no set is in use.                               *)
LEMMA SetsLeft ==
    ASSUME NEW chains, \A f \in Families : chains[f] = NoChains,
           NEW sweep, NEW preserve, NEW n \in SetNames
    PROVE  SetsRemoved(chains, sweep, preserve)[n] =
               IF (n \notin fw.created /\ ~sweep) \/ (preserve /\ Dynamic(n)) THEN sets[n] ELSE None
<1>1. Named(NoChains) = {}
  <2>1. NoChains.disp = None /\ \A g \in Generations : NoChains.chain[g] = None
    BY DEF NoChains
  <2> QED
    BY <2>1, Zenon DEF Named
<1>2. ~\E f \in Families : n \in Named(chains[f])
  BY <1>1, Zenon
<1> QED
  BY <1>2, Zenon DEF SetsRemoved

(* The object knows what it must remove.                                   *)
LEMMA OwnStep == TypeInv /\ StepInv /\ OwnInv /\ [Next]_vars => OwnInv'
<1> SUFFICES ASSUME TypeInv, StepInv, OwnInv, [Next]_vars, backend' = "iptables" PROVE OwnInv'
  BY Zenon DEF OwnInv
<1> DEFINE Known == {"yes", "kept"}
           Once == known # "blind" => \A f \in Families : ipt[f].jumps <= 1
           Listed == task.at # "idle" => SetsIn(plan, task.target) \subseteq fw.created
           Owned == known \in Known =>
                        \A f \in Families : /\ ~fw.owned[f] => ipt[f] = NoChains
                                            /\ fw.owned[f] <=> fw.active[f] # None
           Recorded == known \in Known =>
                           \A n \in SetNames : sets[n] # None =>
                               n \in fw.created \/ (Dynamic(n) /\ known = "kept")
           Q == Once' /\ Listed' /\ Owned' /\ Recorded'
<1>1. StepKinds /\ backend = "iptables" /\ Idle.at = "idle" /\ "iptables" # "nftables"
  BY Kinds, ObjectFacts, Zenon
<1>2. Once /\ Listed /\ Owned /\ Recorded
  BY <1>1, Zenon DEF OwnInv
<1>3. /\ plan \in Plans /\ task.target \in Targets /\ ipt \in [Families -> Chains]
      /\ fw.active \in [Families -> Generations \cup {None}] /\ fw.owned \in [Families -> BOOLEAN]
      /\ known \in {"yes", "kept", "unswept", "blind"} /\ None \notin Generations
  BY Parts, FirewallAssumption, Zenon DEF TypeInv
<1>4. /\ "blind" \notin Known /\ "unswept" \notin Known
      /\ known # "blind" /\ known # "unswept" => known \in Known
      /\ "yes" \in Known /\ "kept" \in Known /\ "yes" # "kept"
  BY <1>3
<1> HIDE DEF Known
<1>5. /\ \A f \in Families : ~Fresh.owned[f] /\ Fresh.active[f] = None
      /\ NoChains.jumps <= 1
  BY DEF Fresh, NoChains
<1>6. "sets" \in IptSteps /\ "dispatch" \in IptSteps /\ "restore4" \in IptSteps
  BY DEF IptSteps
<1>7. Disowned.active = Fresh.active /\ Disowned.owned = Fresh.owned /\ Disowned.created = fw.created
  BY Left, Zenon
<1>8. ASSUME known # "blind" PROVE \A f \in Families : RulesRemoved(TRUE)[f] = NoChains
  BY <1>2, <1>8, RulesLeft, Zenon
<1>9. ASSUME NEW mode \in Modes, NEW p \in Plans, Begin(mode, p) PROVE Q
  <2>1. /\ plan' = p /\ UNCHANGED <<sets, ipt>>
        /\ fw'.active = fw.active /\ fw'.owned = fw.owned
        /\ fw'.created = fw.created \cup SetsIn(p, task'.target)
        /\ known' = IF known = "unswept" /\ mode # "Destructive" THEN "blind" ELSE known
    BY <1>1, <1>9, BeginFacts, Zenon
  <2>2. known' # "blind" => known' = known
    BY <2>1, Zenon
  <2>3. known' \in Known => known' = known
    BY <2>2, <1>4, Zenon
  <2>4. fw.created \subseteq fw'.created /\ SetsIn(plan', task'.target) \subseteq fw'.created
    BY <2>1, Zenon
  <2> QED
    BY <2>1, <2>2, <2>3, <2>4, <1>2, Zenon
<1>10. ASSUME IptSweep PROVE Q
  <2> DEFINE c == RulesRemoved(TRUE)
  <2>1. /\ ipt' = c /\ sets' = SetsRemoved(c, TRUE, ~ConfigOf(plan).clear)
        /\ fw' = Disowned /\ plan' = plan
        /\ known' = CASE known = "unswept" /\ ConfigOf(plan).clear -> "yes"
                      [] known = "unswept" /\ ~ConfigOf(plan).clear -> "kept"
                      [] OTHER -> known
    BY <1>10 DEF IptSweep
  <2>2. task'.target = task.target /\ task.at = "sweep"
    BY <1>6, <1>10, StepFacts, Zenon DEF IptSweep
  <2>3. "sweep" # "idle"
    OBVIOUS
  <2>4. /\ known = "blind" => known' = "blind"
        /\ known = "unswept" => known' = IF ConfigOf(plan).clear THEN "yes" ELSE "kept"
        /\ known # "unswept" => known' = known
    BY <2>1
  <2> HIDE DEF c
  <2>5. known' # "blind" => \A f \in Families : ipt'[f] = NoChains
    BY <2>1, <2>4, <1>8, Zenon DEF c
  <2>6. Once' /\ Owned'
    BY <2>1, <2>5, <1>4, <1>5, <1>7
  <2>7. Listed'
    BY <2>1, <2>2, <2>3, <1>2, <1>7
  <2>8. ASSUME known' \in Known, NEW n \in SetNames, sets'[n] # None
        PROVE  n \in fw'.created \/ (Dynamic(n) /\ known' = "kept")
    <3>1. known' # "blind" /\ known # "blind"
      BY <2>4, <2>8, <1>4, Zenon
    <3>2. \A f \in Families : c[f] = NoChains
      BY <2>1, <2>5, <3>1, Zenon
    <3> DEFINE preserve == ~ConfigOf(plan).clear
    <3> HIDE DEF preserve
    <3>3. sets'[n] = IF (n \notin fw.created /\ ~TRUE) \/ (preserve /\ Dynamic(n))
                     THEN sets[n] ELSE None
      <4>1. sets' = SetsRemoved(c, TRUE, preserve)
        BY <2>1 DEF preserve
      <4> QED
        BY <4>1, <3>2, SetsLeft, Zenon
    <3>4. ~ConfigOf(plan).clear /\ Dynamic(n) /\ sets[n] # None
      BY <2>8, <3>3, Zenon DEF preserve
    <3>5. CASE known = "unswept"
      BY <2>4, <3>4, <3>5, Zenon
    <3>6. CASE known # "unswept"
      BY <2>1, <2>4, <2>8, <3>4, <3>6, <1>2, <1>7, Zenon
    <3> QED
      BY <3>5, <3>6, Zenon
  <2> QED
    BY <2>6, <2>7, <2>8, Zenon
<1>11. ASSUME IptFillSets PROVE Q
  <2>1. /\ UNCHANGED <<plan, fw, ipt, known>> /\ task.at = "sets" /\ "sets" # "idle"
        /\ sets' = sets \/ \E filled : sets' = Restored(filled)
    BY <1>11, Zenon DEF IptFillSets, Throw
  <2>2. task'.at = "idle" \/ task'.target = task.target
    BY <1>1, <1>6, <1>11, StepFacts, Zenon DEF IptFillSets, Throw
  <2>3. SetsIn(plan, task.target) \subseteq fw.created
    BY <2>1, <1>2, Zenon
  <2>4. \A n \in SetNames : n \notin SetsIn(plan, task.target) => sets'[n] = sets[n]
    BY <2>1, Zenon DEF Restored
  <2>5. Recorded'
    BY <2>1, <2>3, <2>4, <1>2, Zenon
  <2>6. Listed'
    BY <2>1, <2>2, <2>3, Zenon
  <2> QED
    BY <2>1, <2>5, <2>6, <1>2, Zenon
<1>12. ASSUME IptCheckDispatchers PROVE Q
  <2>1. UNCHANGED <<plan, sets, known>> /\ task.at = "dispatch" /\ "dispatch" # "idle"
    BY <1>12 DEF IptCheckDispatchers
  <2>2. task'.target = task.target
    BY <1>6, <1>12, StepFacts, Zenon DEF IptCheckDispatchers
  <2>3. (ipt' = RulesRemoved(TRUE) /\ fw' = Disowned) \/ UNCHANGED <<ipt, fw>>
    BY <1>12, Zenon DEF IptCheckDispatchers
  <2>4. fw'.created = fw.created
    BY <2>3, <1>7, Zenon
  <2>5. Listed' /\ Recorded'
    BY <2>1, <2>2, <2>4, <1>2, Zenon
  <2>6. CASE UNCHANGED <<ipt, fw>>
    BY <2>1, <2>5, <2>6, <1>2, Zenon
  <2>7. CASE ipt' = RulesRemoved(TRUE) /\ fw' = Disowned
    <3>1. known # "blind" => \A f \in Families : ipt'[f] = NoChains
      BY <2>7, <1>8, Zenon
    <3>2. Once' /\ Owned'
      BY <2>1, <2>7, <3>1, <1>4, <1>5, <1>7, Zenon
    <3> QED
      BY <2>5, <3>2, Zenon
  <2> QED
    BY <2>3, <2>6, <2>7, Zenon
<1>13. ASSUME NEW g \in Families, IptRestore(g) PROVE Q
  <2> DEFINE rules == RulesIn(plan, g, task.target)
  <2>1. UNCHANGED <<plan, sets, known>> /\ task.at = IF g = 4 THEN "restore4" ELSE "restore6"
    BY <1>13, RestoreFacts, Zenon
  <2>2. task.at # "idle" /\ task.at # "sweep"
    BY <2>1
  <2>3. known # "blind" => known \in Known
    BY <2>2, <1>1, <1>4, Zenon DEF StepInv
  <2>4. CASE task' = Idle /\ UNCHANGED <<fw, ipt>>
    BY <2>1, <2>4, <1>1, <1>2, Zenon
  <2>5. CASE /\ ipt' = [ipt EXCEPT ![g] = Switched(g, rules)]
             /\ fw'.active = [fw.active EXCEPT ![g] = task.target[g]]
             /\ fw'.owned = [fw.owned EXCEPT ![g] = TRUE]
             /\ fw'.created = fw.created
             /\ task'.at = "idle" \/ task'.target = task.target
    <3>1. task.target[g] \in Generations
      BY <1>3, Zenon DEF Targets
    <3>2. ipt'[g] = Switched(g, rules) /\ fw'.active[g] = task.target[g] /\ fw'.owned[g] = TRUE
      BY <2>5, <1>3, Zenon
    <3>3. \A f \in Families : f # g => /\ ipt'[f] = ipt[f] /\ fw'.active[f] = fw.active[f]
                                       /\ fw'.owned[f] = fw.owned[f]
      BY <2>5, <1>3, Zenon
    <3>4. ASSUME known # "blind" PROVE ipt'[g].jumps <= 1
      <4> DEFINE more == IF fw.active[g] = None THEN 1 ELSE 0
      <4>1. ipt'[g].jumps = ipt[g].jumps + more
        BY <3>2, SwitchedFields, Zenon
      <4>2. ipt[g].jumps <= 1 /\ ipt[g].jumps \in Nat
        BY <3>4, <1>2, Parts, Zenon
      <4>3. fw.active[g] = None => ipt[g] = NoChains
        BY <2>3, <3>4, <1>2, Zenon
      <4>4. fw.active[g] = None => ipt[g].jumps = 0
        BY <4>3 DEF NoChains
      <4>5. CASE fw.active[g] = None
        BY <4>1, <4>4, <4>5
      <4>6. CASE fw.active[g] # None
        BY <4>1, <4>2, <4>6
      <4> QED
        BY <4>5, <4>6, ZenonT(40)
    <3>5. Once'
      BY <2>1, <3>3, <3>4, <1>2, Zenon
    <3>6. Owned'
      <4> SUFFICES ASSUME known' \in Known, NEW f \in Families
                   PROVE  /\ ~fw'.owned[f] => ipt'[f] = NoChains
                          /\ fw'.owned[f] <=> fw'.active[f] # None
        BY Zenon
      <4>1. CASE f = g
        <5>1. fw'.owned[g] /\ fw'.active[g] # None
          BY <3>1, <3>2, <1>3, Zenon
        <5> QED
          BY <4>1, <5>1, Zenon
      <4>2. CASE f # g
        <5>1. /\ ~fw.owned[f] => ipt[f] = NoChains
              /\ fw.owned[f] <=> fw.active[f] # None
          BY <2>1, <1>2, Zenon
        <5> QED
          BY <4>2, <5>1, <3>3
      <4> QED
        BY <4>1, <4>2, Zenon
    <3>7. Listed' /\ Recorded'
      BY <2>1, <2>2, <2>5, <1>2, Zenon
    <3> QED
      BY <3>5, <3>6, <3>7, Zenon
  <2> QED
    BY <2>4, <2>5, <1>13, RestoreFacts, Zenon
<1>14. ASSUME Cleanup PROVE Q
  <2> DEFINE c == RulesRemoved(FALSE)
  <2>1. /\ ipt' = c /\ sets' = SetsRemoved(c, FALSE, FALSE) /\ fw' = [Fresh EXCEPT !.states = fw.states]
        /\ UNCHANGED <<task, known>> /\ task.at = "idle"
    BY <1>1, <1>14 DEF Cleanup, IptCleanup
  <2>2. fw'.active = Fresh.active /\ fw'.owned = Fresh.owned
    BY <2>1, ObjectFacts
  <2> HIDE DEF c
  <2>3. known # "blind" => \A f \in Families : c[f].jumps <= 1
    BY <1>2, RulesLeft, Zenon DEF c
  <2>4. ASSUME known \in Known, NEW f \in Families PROVE c[f] = NoChains
    <3>1. known # "blind"
      BY <2>4, <1>4, Zenon
    <3>2. fw.owned[f] \/ ipt[f] = NoChains
      BY <2>4, <1>2, Zenon
    <3> QED
      BY <3>1, <3>2, <1>2, RulesLeft, Zenon DEF c
  <2>5. Once' /\ Listed' /\ Owned'
    BY <2>1, <2>2, <2>3, <2>4, <1>5, Zenon
  <2>6. ASSUME known \in Known, NEW n \in SetNames, sets'[n] # None
        PROVE  Dynamic(n) /\ known = "kept"
    <3>1. sets'[n] = IF (n \notin fw.created /\ ~FALSE) \/ (FALSE /\ Dynamic(n)) THEN sets[n] ELSE None
      BY <2>1, <2>4, <2>6, SetsLeft, Zenon
    <3> QED
      BY <3>1, <2>6, <1>2, Zenon
  <2> QED
    BY <2>1, <2>5, <2>6, Zenon
<1>15. ASSUME Crash PROVE Q
  <2>1. /\ UNCHANGED <<sets, ipt>> /\ task' = Idle
        /\ known' = IF known = "blind" THEN "blind" ELSE "unswept"
    BY <1>15, Zenon DEF Crash
  <2>2. known' \notin Known
    BY <2>1, <1>4, Zenon
  <2> QED
    BY <2>1, <2>2, <1>1, <1>2, Zenon
<1>16. ASSUME NEW g \in Families, ExternalFlush(g) PROVE Q
  <2>1. /\ \E chains \in {NoChains, Flushed(ipt[g])} : ipt' = [ipt EXCEPT ![g] = chains]
        /\ UNCHANGED <<plan, sets, fw, task, known>>
    BY <1>1, <1>16, Zenon DEF ExternalFlush
  <2>2. /\ ipt'[g] = NoChains \/ ipt'[g] = Flushed(ipt[g])
        /\ \A f \in Families : f # g => ipt'[f] = ipt[f]
    BY <2>1, <1>3, Zenon
  <2>4. /\ ipt[g] = NoChains => ipt'[g] = NoChains
        /\ ipt'[g].jumps <= 1
    <3>1. ipt[g] \in Chains
      BY <1>3, Zenon
    <3>2. 0 <= 1
      OBVIOUS
    <3> QED
      BY <2>2, <3>1, <3>2, <1>5, RemovedFacts, Zenon
  <2>3. Once' /\ Owned'
    BY <2>1, <2>2, <2>4, <1>2, Zenon
  <2> QED
    BY <2>1, <2>3, <1>2, Zenon
<1>17. ASSUME NEW n \in SetNames, NEW addr \in Resolved, DnsLearns(n, addr) PROVE Q
  <2>1. /\ sets' = [sets EXCEPT ![n] = sets[n] \cup {addr}] /\ sets[n] # None
        /\ UNCHANGED <<plan, fw, task, ipt, known>> /\ sets \in SetStates
    BY <1>17, Zenon DEF DnsLearns, TypeInv
  <2>2. \A m \in SetNames : sets'[m] # None => sets[m] # None
    BY <2>1, Zenon DEF SetStates
  <2> QED
    BY <2>1, <2>2, <1>2, Zenon
<1>18. ASSUME UNCHANGED vars PROVE Q
  BY <1>2, <1>18, Zenon DEF vars
<1>19. Q
  <2> HIDE DEF Q
  <2> QED
    BY <1>1, <1>9, <1>10, <1>11, <1>12, <1>13, <1>14, <1>15, <1>16, <1>17, <1>18, Zenon
       DEF StepKinds
<1> QED
  BY <1>19, Zenon DEF OwnInv, Known

-------------------------------------------------------------------------------
(* The inductive invariant                                                 *)
LEMMA InvStep == Inv /\ [Next]_vars => Inv'
<1> SUFFICES ASSUME Inv, [Next]_vars PROVE Inv'
  OBVIOUS
<1>1. /\ TypeInv /\ StepInv /\ TableInv /\ LearnInv /\ FillInv /\ UseInv /\ ServeInv /\ OwnInv
  BY Zenon DEF Inv
<1>2. TypeInv' /\ StepInv' /\ TableInv' /\ LearnInv'
  BY <1>1, TypeStep, StepStep, TableStep, LearnStep, Zenon
<1>3. FillInv' /\ UseInv' /\ OwnInv'
  BY <1>1, FillStep, UseStep, OwnStep, Zenon
<1>4. ServeInv'
  BY <1>1, ServeStep, Zenon
<1> QED
  BY <1>2, <1>3, <1>4, Zenon DEF Inv

(* Whatever fails, crashes or is half done: the generation of sets that an *)
(* apply() fills is not the one in use, and a family is switched by one    *)
(* command, so every packet is classified by the plan last committed for   *)
(* its family as the documentation explains it (iptables.cpp:630,          *)
(* nftables.cpp:734).                                                      *)
THEOREM AlwaysEnforced == Spec => []Enforced
<1>1. Init => Inv
  BY InitInv, Zenon
<1>2. Inv /\ [Next]_vars => Inv'
  BY InvStep
<1>3. Inv => Enforced
  BY InvEnforced, Zenon DEF Inv
<1> QED
  BY <1>1, <1>2, <1>3, PTL DEF Spec

(* What a step may do to what dnsmasq has put into the sets                *)
KeepsLearned ==
    \/ \A n \in SetNames : Dynamic(n) /\ sets[n] # None => sets[n] \subseteq Members'[n]
    \/ task.mode = "Destructive" /\ ConfigOf(plan).clear
    \/ Cleanup
    \/ \E f \in Families : ExternalFlush(f)

(* Every other step keeps it.                                              *)
LEMMA LearnedStep == Inv /\ [Next]_vars => KeepsLearned
<1> SUFFICES ASSUME Inv, [Next]_vars, ~Cleanup, ~\E f \in Families : ExternalFlush(f),
                    ~(task.mode = "Destructive" /\ ConfigOf(plan).clear),
                    NEW n \in SetNames, Dynamic(n), sets[n] # None
             PROVE  sets[n] \subseteq Members'[n]
  BY Zenon DEF KeepsLearned
<1>1. TypeInv /\ StepInv /\ StepKinds
  BY Kinds, Zenon DEF Inv
<1>2. Members'[n] = IF sets'[n] = None THEN {} ELSE sets'[n]
  BY Zenon DEF Members
<1>3. sets'[n] = sets[n] => sets[n] \subseteq Members'[n]
  BY <1>2, Zenon
<1> DEFINE Q == sets'[n] = sets[n] \/ sets[n] \subseteq Members'[n]
<1>4. \A mode \in Modes, p \in Plans : Begin(mode, p) => Q
  BY Zenon DEF Begin
<1>5. IptSweep => Q
  <2> SUFFICES ASSUME IptSweep PROVE sets'[n] = sets[n]
    OBVIOUS
  <2>1. task.mode = "Destructive"
    BY <1>1, Zenon DEF IptSweep, StepInv
  <2>2. ~ConfigOf(plan).clear
    BY <2>1, Zenon
  <2> DEFINE preserve == ~ConfigOf(plan).clear
  <2>3. preserve
    BY <2>2
  <2> HIDE DEF preserve
  <2>4. sets' = SetsRemoved(RulesRemoved(TRUE), TRUE, preserve)
    BY DEF IptSweep, preserve
  <2> QED
    BY <2>3, <2>4, Zenon DEF SetsRemoved
<1>6. IptFillSets => Q
  BY Zenon DEF IptFillSets, Restored
<1>7. NftBatch => Q
  <2>1. Members[n] \cup {} = sets[n]
    BY DEF Members
  <2>2. NftBatch => sets' = sets \/ sets' = BatchSets
    BY Zenon DEF NftBatch
  <2> QED
    BY <2>1, <2>2, Zenon DEF BatchSets
<1>8. IptCheckDispatchers \/ (\E f \in Families : IptRestore(f)) \/ NftRead \/ Crash \/ UNCHANGED vars
           => Q
  BY Zenon DEF IptCheckDispatchers, IptRestore, NftRead, Crash, vars
<1>9. ASSUME NEW m \in SetNames, NEW addr \in Resolved, DnsLearns(m, addr) PROVE Q
  <2>1. /\ sets' = [sets EXCEPT ![m] = sets[m] \cup {addr}] /\ sets \in SetStates
    BY <1>1, <1>9, Zenon DEF DnsLearns, TypeInv
  <2>2. sets'[n] = IF n = m THEN sets[m] \cup {addr} ELSE sets[n]
    BY <2>1, Zenon DEF SetStates
  <2>3. CASE n # m
    BY <2>2, <2>3, Zenon
  <2>4. CASE n = m
    <3>1. sets'[n] = sets[n] \cup {addr}
      BY <2>2, <2>4, Zenon
    <3>2. sets[n] \in SUBSET AllAddresses /\ addr \in AllAddresses
      <4>1. addr \in AllAddresses
        BY FirewallAssumption, Zenon
      <4> QED
        BY <4>1, <1>1, Parts, Zenon
    <3>3. sets[n] \cup {addr} \in SUBSET AllAddresses
      BY <3>2, Zenon
    <3>4. sets'[n] # None
      BY <3>1, <3>3, FirewallAssumption, Zenon
    <3> QED
      BY <3>1, <3>4, <1>2, Zenon
  <2> QED
    BY <2>3, <2>4, Zenon
<1>10. Q
  <2> HIDE DEF Q
  <2> QED
    BY <1>1, <1>4, <1>5, <1>6, <1>7, <1>8, <1>9, Zenon DEF StepKinds
<1> QED
  BY <1>3, <1>10, Zenon

(* Addresses dnsmasq has put into a set are lost only to a start with      *)
(* clear_dynamic_sets_on_apply, to cleanup() or to another program: the    *)
(* sweep of everything happens only in a start (iptables.cpp:641), and a   *)
(* batch leaves the elements of dynamic sets alone (nftables.cpp:676).     *)
THEOREM LearnedIsKept == Spec => LearnedKept
<1>1. Init => Inv
  BY InitInv
<1>2. Inv /\ [Next]_vars => Inv'
  BY InvStep
<1>3. Inv /\ [Next]_vars => [KeepsLearned]_vars
  BY LearnedStep, Zenon
<1> QED
  BY <1>1, <1>2, <1>3, PTL DEF Spec, LearnedKept, KeepsLearned

(* What a cleanup leaves when the object knows what is in the kernel       *)
Leaves ==
    Cleanup /\ known \in {"yes", "kept"} =>
        /\ ipt' = [f \in Families |-> NoChains]
        /\ nft' = None
        /\ \A n \in SetNames : sets'[n] = None \/ (Dynamic(n) /\ known = "kept")

(* It is nothing but dynamic sets that were kept.                          *)
LEMMA LeavesStep == Inv => Leaves
<1> SUFFICES ASSUME Inv, Cleanup, known \in {"yes", "kept"}
             PROVE  /\ ipt' = [f \in Families |-> NoChains]
                    /\ nft' = None
                    /\ \A n \in SetNames : sets'[n] = None \/ (Dynamic(n) /\ known = "kept")
  BY Zenon DEF Leaves
<1>1. TypeInv /\ StepInv /\ UseInv /\ OwnInv /\ (backend = "iptables" \/ backend = "nftables")
      /\ "iptables" # "nftables"
  BY DEF Inv, TypeInv
<1>2. CASE backend = "nftables"
  BY <1>1, <1>2, Zenon DEF Cleanup, NftCleanup, StepInv
<1>3. CASE backend = "iptables"
  <2> DEFINE c == RulesRemoved(FALSE)
  <2>1. ipt' = c /\ sets' = SetsRemoved(c, FALSE, FALSE) /\ nft' = nft
    BY <1>3, Zenon DEF Cleanup, IptCleanup
  <2>2. nft = None /\ known # "blind"
    BY <1>1, <1>3 DEF StepInv
  <2>3. /\ \A f \in Families : ipt[f].jumps <= 1 /\ (fw.owned[f] \/ ipt[f] = NoChains)
        /\ \A n \in SetNames : sets[n] # None => n \in fw.created \/ (Dynamic(n) /\ known = "kept")
    BY <1>1, <1>3, <2>2, Zenon DEF OwnInv
  <2>4. \A f \in Families : c[f] = NoChains
    BY <1>1, <2>3, RulesLeft, Zenon
  <2>5. c = [f \in Families |-> c[f]]
    BY DEF RulesRemoved
  <2> HIDE DEF c
  <2>6. c = [f \in Families |-> NoChains]
    BY <2>4, <2>5
  <2>7. \A n \in SetNames : sets'[n] = IF (n \notin fw.created /\ ~FALSE) \/ (FALSE /\ Dynamic(n))
                                       THEN sets[n] ELSE None
    BY <2>1, <2>4, SetsLeft, Zenon
  <2> QED
    BY <2>1, <2>2, <2>3, <2>6, <2>7, Zenon
<1> QED
  BY <1>1, <1>2, <1>3, Zenon

(* cleanup() leaves no chain, no jump and no set of keen-pbr, whatever     *)
(* failed or was flushed before: created_sets_ has every set an attempt    *)
(* may have made, and chains it does not own are not there                 *)
(* (iptables.cpp:915, nftables.cpp:768).                                   *)
THEOREM NothingRemains == Spec => CleanupLeavesNothing
<1>1. Init => Inv
  BY InitInv
<1>2. Inv /\ [Next]_vars => Inv'
  BY InvStep
<1>3. Inv /\ [Next]_vars => [Leaves]_vars
  BY LeavesStep
<1> QED
  BY <1>1, <1>2, <1>3, PTL DEF Spec, CleanupLeavesNothing, Leaves
===============================================================================
