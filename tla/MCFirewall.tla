----------------------------- MODULE MCFirewall -----------------------------
EXTENDS FirewallVerifier, ConfigCheck

CONSTANTS a4, b4, d4, a6

AddressTable(f) == IF f = 4 THEN {a4, b4, d4} ELSE {a6}

Rule(lists, sel, outbound) == [on |-> TRUE, lists |-> lists, sel |-> sel, outbound |-> outbound]

Types == [vpn |-> "interface", wan |-> "interface", auto |-> "urltest", hole |-> "blackhole",
          direct |-> "ignore"]

(* Two lists through two outbounds; queries to d4 take a detour.           *)
Marks == [rules |-> <<Rule(<<"sites">>, FALSE, "auto"), Rule(<<"nets", "sites">>, FALSE, "wan")>>,
          types |-> Types, servers |-> <<[addr |-> d4, detour |-> "vpn"]>>, ipv6 |-> TRUE,
          clear |-> TRUE]

(* The other order, exceptions by port, a rule that is off                 *)
Ports == [rules |-> <<Rule(<<>>, TRUE, "direct"), Rule(<<"nets">>, TRUE, "vpn"),
                      [Rule(<<"sites">>, FALSE, "hole") EXCEPT !.on = FALSE],
                      Rule(<<"nets">>, FALSE, "wan")>>,
          types |-> Types, servers |-> <<>>, ipv6 |-> FALSE, clear |-> FALSE]

(* What is in one list is excepted from what another list routes.          *)
Exceptions == [Marks EXCEPT !.rules = <<Rule(<<"sites">>, FALSE, "direct"),
                                        Rule(<<"nets">>, FALSE, "wan")>>]

BothConfigs == [c \in {"marks", "ports"} |-> IF c = "marks" THEN Marks ELSE Ports]

ExceptionsOnly == [c \in {"exceptions"} |-> Exceptions]

Entries(v4, v6, domains) == [ips |-> [f \in Families |-> IF f = 4 THEN v4 ELSE v6],
                             domains |-> domains]

AllContents ==
    [c \in {"old", "new"} |->
        IF c = "old"
        THEN [l \in {"sites", "nets"} |-> IF l = "sites" THEN Entries({}, {}, TRUE)
                                                         ELSE Entries({a4}, {a6}, FALSE)]
        ELSE [l \in {"sites", "nets"} |-> IF l = "sites" THEN Entries({a4}, {}, TRUE)
                                                         ELSE Entries({a4, b4}, {}, FALSE)]]

AllPackets == {[addr |-> a, hit |-> h, local |-> FALSE] : a \in {a4, b4, a6}, h \in BOOLEAN}
                  \cup {[addr |-> d4, hit |-> FALSE, local |-> TRUE]}

-------------------------------------------------------------------------------
(* Configurations to submit: a usual one, and what becomes of it when one  *)
(* or two of its sections are replaced.                                    *)
Blanks == [n \in {" vpn", " nets", " quad"} |->
              CASE n = " vpn" -> "vpn" [] n = " nets" -> "nets" [] OTHER -> "quad"]

Ob(tag, type, groups) == [tag |-> tag, type |-> type, complete |-> TRUE, groups |-> groups]

OneTunnel == <<Ob("vpn", "interface", <<>>), Ob("direct", "ignore", <<>>), Ob("hole", "blackhole", <<>>)>>

WithUrltest == OneTunnel \o <<Ob("auto", "urltest", <<<<"vpn", "hole">>>>)>>

OutboundChoices ==
    {OneTunnel, WithUrltest,
     OneTunnel \o <<Ob("wan", "table", <<>>), Ob("auto", "urltest", <<<<"vpn">>, <<"wan">>>>)>>,
     OneTunnel \o <<Ob("auto", "urltest", <<>>)>>, OneTunnel \o <<Ob("auto", "urltest", <<<<"direct">>>>)>>,
     OneTunnel \o <<Ob("auto", "urltest", <<<<"gone">>>>)>>, OneTunnel \o <<Ob("vpn", "blackhole", <<>>)>>,
     <<[Ob("vpn", "interface", <<>>) EXCEPT !.complete = FALSE]>>, <<Ob("Long tag", "table", <<>>)>>}

Token(form, lo, hi, blank) == [form |-> form, lo |-> lo, hi |-> hi, blank |-> blank]

Selector(tokens) == [lead |-> FALSE, neg |-> FALSE, tokens |-> tokens]

PortChoices ==
    {Absent, [Absent EXCEPT !.neg = TRUE], [Absent EXCEPT !.lead = TRUE]}
        \cup {Selector(<<Token(form, lo, hi, blank)>>) :
                  form \in {"single", "range", "colon", "empty"}, lo \in {0, 9}, hi \in {8, 9, 10},
                  blank \in BOOLEAN}
        \cup {Selector(<<Token("single", 1, 1, FALSE), Token("range", 2, 3, blank)>>) : blank \in BOOLEAN}

AddressChoices ==
    {[lead |-> lead, neg |-> neg, tokens |-> <<Token(form, 0, 0, FALSE)>>] :
         lead \in BOOLEAN, neg \in BOOLEAN, form \in {"address", "host name"}}

RouteRule(outbound) == [on |-> TRUE, lists |-> <<"sites">>, outbound |-> outbound, dscp |-> None,
                        src |-> Absent, dst |-> Absent, addr |-> Absent, proto |-> ""]

RuleChoices ==
    {[RouteRule("vpn") EXCEPT !.src = src, !.dst = dst] :
         src \in PortChoices, dst \in {Absent, Selector(<<Token("single", 2, 2, FALSE)>>),
                                       Selector(<<Token("single", 2, 2, FALSE), Token("single", 3, 3, TRUE)>>)}}
        \cup {[RouteRule(out) EXCEPT !.on = on, !.lists = lists, !.dscp = dscp, !.proto = proto] :
                  out \in {"vpn", "auto", "hole", "direct", " vpn", "gone", ""}, on \in BOOLEAN,
                  lists \in {<<>>, <<"sites">>, <<" nets">>, <<"gone">>, <<"">>},
                  dscp \in {None, 63, 64}, proto \in {"tcp/udp", "icmp"}}
        \cup {[RouteRule("hole") EXCEPT !.addr = addr] : addr \in AddressChoices}

Server(tag, addr, detour) ==
    [tag |-> tag, addr |-> addr, keenetic |-> (addr = ""), detour |-> detour]

ServerChoices ==
    {<<>>, <<Server("quad", "address", None)>>, <<Server("quad", "host name", None)>>,
     <<Server("quad", "address", None), Server("quad", "other", None)>>,
     <<Server("quad", "address", None), Server("router", "address", None)>>,
     <<Server("quad", "address", None), [Server("router", "address", None) EXCEPT !.keenetic = TRUE]>>}
        \cup {<<Server("quad", "address", detour), Server("router", "", None)>> :
                  detour \in {None, "vpn", "auto", "hole", "direct", "gone"}}

DnsRule(server) == [server |-> server, lists |-> <<"sites">>, on |-> TRUE]

DnsChoices ==
    {[servers |-> servers, fallback |-> fallback, rules |-> rules, resolver |-> TRUE, probe |-> TRUE] :
         servers \in ServerChoices,
         fallback \in {<<>>, <<"quad">>, <<"router", "quad">>, <<"quad", "quad">>, <<"gone">>, <<"">>},
         rules \in {<<>>, <<DnsRule("quad")>>, <<DnsRule(" quad")>>, <<DnsRule("gone")>>,
                    <<[DnsRule(" quad") EXCEPT !.on = FALSE]>>, <<[DnsRule("quad") EXCEPT !.lists = <<>>]>>}}

UsualDns == [servers |-> <<Server("quad", "address", "vpn")>>, fallback |-> <<"quad">>,
             rules |-> <<DnsRule("quad")>>, resolver |-> TRUE, probe |-> TRUE]

UsualLists == [l \in {"sites", "nets"} |-> [sources |-> {"url"}, http |-> TRUE, detour |-> None]]

Usual == [typed |-> TRUE, limits |-> TRUE, cron |-> "daily", inbound |-> <<"br0">>, lists |-> UsualLists,
          outbounds |-> OneTunnel, rules |-> <<RouteRule("vpn")>>, start |-> 4, mask |-> 60,
          reserved |-> FALSE,
          priority |-> 100, backend |-> "auto", dns |-> UsualDns]

AllSubmitted ==
    {[Usual EXCEPT !.rules = <<rule>>, !.outbounds = WithUrltest, !.backend = preferred] :
         rule \in RuleChoices, preferred \in {"auto", "iptables", "nftables"}}
        \cup {[Usual EXCEPT !.outbounds = outs, !.rules = <<RouteRule(out)>>] :
                  outs \in OutboundChoices, out \in {"vpn", "auto", "wan", "hole", "direct"}}
        \cup {[Usual EXCEPT !.dns = dns, !.outbounds = WithUrltest] : dns \in DnsChoices}
        \cup {[Usual EXCEPT !.mask = mask, !.start = start, !.priority = prio, !.outbounds = outs,
                            !.lists["nets"].detour = detour] :
                  mask \in {0, 5, 12, 60}, start \in {0, 4, 255}, prio \in {0, 1, 245, 252, 253, 254},
                  outs \in OutboundChoices,
                  detour \in {None, "vpn", "auto", "hole", "gone"}}
        \cup {[Usual EXCEPT !.typed = typed, !.limits = limits, !.cron = cron, !.inbound = inbound,
                            !.reserved = reserved] :
                  typed \in BOOLEAN, limits \in BOOLEAN, cron \in {"daily", "never", "malformed"},
                  inbound \in {<<>>, <<"br0", "br0">>, <<"">>, <<" vpn">>, <<"br0", "br1">>}, reserved \in BOOLEAN}
        \cup {[Usual EXCEPT !.lists["nets"].sources = sources, !.lists["nets"].http = http,
                            !.dns.resolver = resolver, !.dns.probe = probe] :
                  sources \in {{}, {"url"}, {"file"}}, http \in BOOLEAN, resolver \in BOOLEAN, probe \in BOOLEAN}

-------------------------------------------------------------------------------
(* Either a configuration is submitted, or the firewall is at work.        *)
MCInit == Init /\ submitted \in Submitted \cup {None}

MCNext == submitted = None /\ Next /\ UNCHANGED submitted

MCSpec == MCInit /\ [][MCNext]_<<vars, submitted>>
==============================================================================
