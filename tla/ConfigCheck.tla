----------------------------- MODULE ConfigCheck -----------------------------
(***************************************************************************)
(* What stands between a configuration that is submitted and the runtime   *)
(* that serves it: parse_config() and validate_config()                    *)
(* (config/config.cpp) on one side, and on the other the code that takes   *)
(* an accepted configuration at its word, DnsServerRegistry, the firewall  *)
(* criteria, marks and rule priorities.                                    *)
(*                                                                         *)
(* A name is a string; CONSTANT Untrimmed maps the spellings with blanks   *)
(* around them to the name proper.  A port or address selector is a        *)
(* record: lead, blanks before it; neg; its tokens, each with the blanks   *)
(* before it, a form and numbers.  Every other text is abstracted to       *)
(* whether the parser that reads it accepts it.                            *)
(***************************************************************************)
EXTENDS FirewallPlan, Fwmarks, FiniteSets, Functions

CONSTANTS Untrimmed,        \* the names written with blanks around them
          BadTags,          \* names that is_valid_tag() refuses
          MaxPort,          \* 65535
          Submitted,        \* configurations somebody may submit
          Proxies           \* answers of Keenetic's DNS proxy: sets of addresses

VARIABLE submitted          \* the configuration that is being submitted, or None

Trim(name) == IF name \in DOMAIN Untrimmed THEN Untrimmed[name] ELSE name

Absent == [lead |-> FALSE, neg |-> FALSE, tokens |-> <<>>]

InRange(port) == port \in 1 .. MaxPort

(* validate_port_spec(): blanks do not matter to it.                       *)
PortTokenOk(t) ==
    /\ t.form \in {"single", "range"}
    /\ InRange(t.lo) /\ InRange(t.hi) /\ t.lo <= t.hi

PortSpecOk(s) ==
    /\ s.neg => s.tokens # <<>>
    /\ \A i \in DOMAIN s.tokens : PortTokenOk(s.tokens[i])

(* parse_port_spec(): ranges may also be written with a colon, and blanks  *)
(* are not numbers.                                                        *)
PortTokenParses(t) ==
    /\ ~t.blank
    /\ t.form \in {"single", "range", "colon"}
    /\ InRange(t.lo) /\ InRange(t.hi) /\ t.lo <= t.hi

PortSpecParses(tokens) == \A i \in DOMAIN tokens : PortTokenParses(tokens[i])

(* classify_optional_port_spec() trims the selector before it parses it,   *)
(* so that only blanks between the tokens matter to it.                    *)
Classifies(s) ==
    PortSpecParses([i \in DOMAIN s.tokens |->
                        IF i = 1 THEN [s.tokens[i] EXCEPT !.blank = FALSE] ELSE s.tokens[i]])

IsPortList(s) == Len(s.tokens) > 1

(* parse_addr_spec() skips blank tokens and trims the others.              *)
AddrSpecParses(tokens) == \A i \in DOMAIN tokens : tokens[i].form = "address"

(* validate_address_spec()                                                 *)
AddrSpecOk(s) == (s.neg => s.tokens # <<>>) /\ AddrSpecParses(s.tokens)

-------------------------------------------------------------------------------
(* validate_route_rule_specs()                                             *)
HasCondition(rule) ==
    \/ \E i \in DOMAIN rule.lists : rule.lists[i] # ""
    \/ rule.dscp # None
    \/ \E s \in {rule.src, rule.dst, rule.addr} : s.tokens # <<>>

(* validate_dscp_field()                                                   *)
DscpOk(rule) == rule.dscp # None => rule.dscp \in 1 .. 63

RuleSpecsOk(rule) ==
    /\ HasCondition(rule)
    /\ DscpOk(rule)
    /\ PortSpecOk(rule.src) /\ PortSpecOk(rule.dst) /\ AddrSpecOk(rule.addr)

(* validate_route_inbound_interfaces()                                     *)
InboundOk(names) ==
    /\ \A i \in DOMAIN names : Trim(names[i]) = names[i] /\ names[i] # ""
    /\ IsInjective(names)

(* The JSON is well-formed, and validate_optional_..._field() find that    *)
(* its fields have their types.                                            *)
Typed(cfg) == cfg.typed

(* parse_config()                                                          *)
Parses(cfg) ==
    /\ Typed(cfg)
    /\ \A i \in DOMAIN cfg.rules : RuleSpecsOk(cfg.rules[i])
    /\ InboundOk(cfg.inbound)

-------------------------------------------------------------------------------
(* validate_tag()                                                          *)
ValidTag(tag) == tag # "" /\ tag \notin BadTags \cup DOMAIN Untrimmed

(* The sizes and timeouts of the daemon and api sections                   *)
LimitsOk(cfg) == cfg.limits

(* lists_autoupdate: cron_validate()                                       *)
CronOk(cfg) == cfg.cron # "malformed"

ListsOk(lists) ==
    \A l \in DOMAIN lists :
        /\ ValidTag(l)
        /\ lists[l].sources # {}
        /\ "url" \in lists[l].sources => lists[l].http

TypeOf(cfg) ==
    [t \in {cfg.outbounds[i].tag : i \in DOMAIN cfg.outbounds} |->
        FirstIn(cfg.outbounds, {o \in ToSet(cfg.outbounds) : o.tag = t}, None).type]

GroupsOk(cfg, ob) ==
    /\ ob.groups # <<>>
    /\ \A g \in ToSet(ob.groups) :
           /\ g # <<>>
           /\ \A child \in ToSet(g) :
                  /\ child \in DOMAIN TypeOf(cfg)
                  /\ TypeOf(cfg)[child] \in {"interface", "table", "blackhole"}

OutboundsOk(cfg) ==
    \A ob \in ToSet(cfg.outbounds) :
        /\ ValidTag(ob.tag)
        /\ ob.type = "interface" => ob.complete      \* an interface name; gateways parse
        /\ ob.type = "urltest" => ob.complete /\ GroupsOk(cfg, ob)

(* validate_required_reference()                                           *)
RefersTo(names, name) == Trim(name) # "" /\ Trim(name) \in names

RulesOk(cfg) ==
    \A rule \in ToSet(cfg.rules) :
        /\ RefersTo(DOMAIN TypeOf(cfg), rule.outbound)
        /\ \A l \in ToSet(rule.lists) : RefersTo(DOMAIN cfg.lists, l)

RoutableCount(cfg) == Len(SelectSeq(cfg.outbounds, LAMBDA o : HasMark(o.type)))

MarksOk(cfg) == ValidMask(cfg.mask) /\ Allocates(RoutableCount(cfg), cfg.mask)

(* table_start is not a table of the system's, and there are two           *)
(* priorities for every routable outbound.                                 *)
IprouteOk(cfg) ==
    /\ ~cfg.reserved
    /\ cfg.priority \in 1 .. (Word - 1)
    /\ RoutableCount(cfg) <= (Word - 1 - cfg.priority) \div 2

(* What xt_multiport cannot match: a list of ports of one side beside      *)
(* ports of the other                                                      *)
CombinesPortLists(rule) ==
    /\ rule.src.tokens # <<>> /\ rule.dst.tokens # <<>>
    /\ IsPortList(rule.src) \/ IsPortList(rule.dst)

(* Only when the backend is set to iptables.  A selector that does not     *)
(* parse makes validate_config() itself throw.                             *)
PortListsOk(cfg) ==
    cfg.backend = "iptables" =>
        \A rule \in ToSet(cfg.rules) :
            Classifies(rule.src) /\ Classifies(rule.dst) /\ ~CombinesPortLists(rule)

ServerTags(dns) == {dns.servers[i].tag : i \in DOMAIN dns.servers}

ServerOk(cfg, s) ==
    /\ ValidTag(s.tag)
    /\ s.keenetic <=> s.addr = ""
    /\ s.detour # None => /\ s.detour \in DOMAIN TypeOf(cfg)
                          /\ TypeOf(cfg)[s.detour] \notin {"blackhole", "ignore"}

ServersOk(cfg) ==
    LET servers == cfg.dns.servers
    IN  /\ \A s \in ToSet(servers) : ServerOk(cfg, s)
        /\ IsInjective([i \in DOMAIN servers |-> servers[i].tag])
        /\ IsInjective([i \in DOMAIN servers |-> <<servers[i].keenetic, servers[i].addr>>])

(* Mutant: fallback tags are not looked up.                                *)
FallbackOkUnknown(dns) == IsInjective(dns.fallback)

FallbackOk(dns) ==
    /\ \A i \in DOMAIN dns.fallback : dns.fallback[i] \in ServerTags(dns) \ {""}
    /\ IsInjective(dns.fallback)

DnsRulesOk(cfg) ==
    \A rule \in ToSet(cfg.dns.rules) :
        /\ RefersTo(ServerTags(cfg.dns), rule.server)
        /\ rule.lists # <<>>
        /\ \A l \in ToSet(rule.lists) : RefersTo(DOMAIN cfg.lists, l)

(* parse_dns_probe_server_settings() takes the listen address and the      *)
(* answer.                                                                 *)
ProbeOk(dns) == dns.probe

DnsOk(cfg) ==
    /\ ServersOk(cfg)
    /\ FallbackOk(cfg.dns)
    /\ cfg.dns.resolver
    /\ DnsRulesOk(cfg)
    /\ ProbeOk(cfg.dns)

(* validate_config()                                                       *)
Validates(cfg) ==
    /\ LimitsOk(cfg)
    /\ CronOk(cfg)
    /\ ListsOk(cfg.lists)
    /\ OutboundsOk(cfg)
    /\ RulesOk(cfg)
    /\ MarksOk(cfg)
    /\ IprouteOk(cfg)
    /\ PortListsOk(cfg)
    /\ DnsOk(cfg)

Accepted(cfg) == Parses(cfg) /\ Validates(cfg)

-------------------------------------------------------------------------------
(* parse_dns_address_str()                                                 *)
AddressParses(addr) == addr \notin {"", "host name"}

(* DnsServerRegistry() with the addresses that Keenetic's proxy has        *)
Registered(dns, proxy) ==
    {s.tag : s \in {t \in ToSet(dns.servers) : t.keenetic => proxy # {}}}

Registers(dns, proxy) ==
    /\ \A s \in ToSet(dns.servers) : IF s.keenetic THEN proxy # {} ELSE AddressParses(s.addr)
    /\ \A tag \in ToSet(dns.fallback) : tag \in Registered(dns, proxy)
    /\ \A rule \in ToSet(dns.rules) : rule.on => rule.server \in Registered(dns, proxy)

(* build_firewall_rule_criteria(): the negation is recognised only at the  *)
(* very start, and the tokens of ports are not trimmed.                    *)
PortsBuild(s) ==
    /\ ~s.lead
    /\ PortSpecParses(s.tokens)

CriteriaBuild(rule) ==
    /\ rule.proto \in {"", "tcp", "udp", "tcp/udp"}
    /\ PortsBuild(rule.src) /\ PortsBuild(rule.dst)
    /\ ~(rule.addr.lead /\ rule.addr.neg) /\ AddrSpecParses(rule.addr.tokens)

PlanOf(cfg) ==
    [rules |-> cfg.rules, types |-> TypeOf(cfg), servers |-> cfg.dns.servers]

(* schedule_lists_autoupdate(): cron_next() finds a date within two years. *)
Fires(cfg) == cfg.cron # "never"

-------------------------------------------------------------------------------
(* The priorities that populate_routing_state() hands out: a pair for      *)
(* every routable outbound, and another one when something detours to it   *)
Detoured(cfg) ==
    {s.detour : s \in ToSet(cfg.dns.servers)} \cup {cfg.lists[l].detour : l \in DOMAIN cfg.lists}

LastPriority(cfg) ==
    LET internal == Cardinality(Detoured(cfg) \cap
                                {t \in DOMAIN TypeOf(cfg) : HasMark(TypeOf(cfg)[t])})
    IN  cfg.priority + (2 * (RoutableCount(cfg) + internal)) - 1

(* resolve_firewall_backend() with the tools that are installed; None when *)
(* it throws                                                               *)
BackendOf(cfg, tools) ==
    CASE cfg.backend \in tools -> cfg.backend
      [] cfg.backend = "auto" /\ "nftables" \in tools -> "nftables"
      [] cfg.backend = "auto" /\ tools = {"iptables"} -> "iptables"
      [] OTHER -> None

(* Nothing throws while the configuration becomes the runtime, and the     *)
(* kernel takes its rules.                                                 *)
Builds(cfg, proxy, tools) ==
    /\ Registers(cfg.dns, proxy)
    /\ BackendOf(cfg, tools) # None
    /\ \A rule \in ToSet(cfg.rules) :
           RuleAction(PlanOf(cfg), None, rule) # Skip =>
               /\ CriteriaBuild(rule)
               /\ BackendOf(cfg, tools) = "iptables" => ~CombinesPortLists(rule)
    /\ Fires(cfg)

(* The marks that allocate_outbound_marks() hands out, in their order      *)
MarksOf(cfg) ==
    [k \in 1 .. (2 * RoutableCount(cfg)) |->
        IF k % 2 = 1 THEN UserMark(cfg.start, cfg.mask, (k + 1) \div 2)
                     ELSE DetourMark(cfg.start, cfg.mask, k \div 2)]

(* No two of them are the same to a policy rule, which compares under the  *)
(* mask.                                                                   *)
MarksDistinct(cfg) ==
    IsInjective([k \in DOMAIN MarksOf(cfg) |-> Masked(MarksOf(cfg)[k], cfg.mask)])

(* A download with a detour has the mark of its outbound; without one it   *)
(* goes the default way, with a warning.                                   *)
DownloadsDetour(cfg) ==
    \A l \in DOMAIN cfg.lists :
        LET tag == cfg.lists[l].detour
        IN  tag # None => tag \in DOMAIN TypeOf(cfg) /\ HasMark(TypeOf(cfg)[tag])

(* Every rule that is on acts on its lists, every detour has a mark, and   *)
(* every priority is a number of the kernel's.                             *)
Effective(cfg) ==
    /\ DownloadsDetour(cfg)
    /\ \A rule \in ToSet(cfg.rules) :
           rule.on => /\ RuleAction(PlanOf(cfg), None, rule) \notin {Skip, MarkWith(None)}
                      /\ ToSet(rule.lists) \subseteq DOMAIN cfg.lists
    /\ Len(DetourRules(PlanOf(cfg))) =
           Len(SelectSeq(cfg.dns.servers, LAMBDA s : s.detour # None))
    /\ LastPriority(cfg) < Word

(* What validation lets pass and the code behind it does not: blanks       *)
(* around names and selectors, protocols it does not know, addresses of    *)
(* DNS servers that do not parse, a proxy that does not answer, a date     *)
(* that does not come within two years, detours of lists to an outbound    *)
(* that is not there or has no mark, internal detours, for which no        *)
(* priorities are reserved, a fwmark.start from which marks leave the mask *)
(* or are 0, which a rule takes for no mark, a backend that is not         *)
(* installed, and port lists that iptables cannot combine when it is       *)
(* iptables that auto finds.                                               *)
Tidy(cfg, proxy, tools) ==
    /\ \A rule \in ToSet(cfg.rules) :
           /\ rule.outbound = Trim(rule.outbound)
           /\ \A l \in ToSet(rule.lists) : l = Trim(l)
           /\ rule.proto # "icmp"
           /\ \A s \in {rule.src, rule.dst, rule.addr} :
                  ~s.lead /\ \A i \in DOMAIN s.tokens : ~s.tokens[i].blank
    /\ \A rule \in ToSet(cfg.dns.rules) : rule.server = Trim(rule.server)
    /\ \A s \in ToSet(cfg.dns.servers) : IF s.keenetic THEN proxy # {} ELSE AddressParses(s.addr)
    /\ Fires(cfg)
    /\ DownloadsDetour(cfg)
    /\ BackendOf(cfg, tools) # None
    /\ cfg.backend = "auto" /\ BackendOf(cfg, tools) = "iptables" =>
           \A rule \in ToSet(cfg.rules) : ~CombinesPortLists(rule)
    /\ cfg.priority + (4 * RoutableCount(cfg)) < Word
    /\ \A k \in DOMAIN MarksOf(cfg) : MarksOf(cfg)[k] # 0 /\ Masked(MarksOf(cfg)[k], cfg.mask) = MarksOf(cfg)[k]

(* The marks of a configuration that parse_config() and validate_config()  *)
(* accept are told apart by the policy rules, wherever they start and wrap *)
(* and when it is tidy it becomes a runtime without an exception, whatever *)
(* backend it gets, and every enabled rule, list and detour in it takes    *)
(* effect: what is accepted is what the code that applies it later, on the *)
(* event loop, relies on.                                                  *)
AcceptedServes ==
    submitted # None /\ Accepted(submitted) =>
        /\ MarksDistinct(submitted)
        /\ \A proxy \in Proxies, tools \in SUBSET {"iptables", "nftables"} :
               Tidy(submitted, proxy, tools) =>
                   Builds(submitted, proxy, tools) /\ Effective(submitted)
==============================================================================
