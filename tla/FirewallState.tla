---------------------------- MODULE FirewallState ----------------------------
(***************************************************************************)
(* The state the two firewall backends share: what the daemon wants        *)
(* (plan), the memory of its Firewall object (fw), the apply() it is in    *)
(* (task), and the kernel: IP sets, the mangle chains of iptables and      *)
(* ip6tables, the table of nftables.                                       *)
(***************************************************************************)
EXTENDS FirewallPlan

CONSTANTS
    Configs,    \* the configurations, by name
    Contents,   \* what the lists may hold, by name
    Selections, \* the children a urltest may have selected
    Packets,
    Resolved,   \* the addresses dnsmasq may resolve names of the lists to
    MaxApplies, \* how often the firewall is applied
    MaxTrouble  \* how many commands fail, crashes and foreign flushes happen

VARIABLES
    backend, \* "iptables" or "nftables", chosen when the daemon is made
    plan,    \* [cfg, sel, content]: config_, the selection, the list cache
    runtime, \* "up" when routing_runtime_active_
    fw, task, sets, ipt, nft,
    served,  \* history: what was last committed for each family
    known,   \* history: "yes"; "unswept" after a crash; then "kept" when a start
             \* preserved dynamic sets, or "blind" when a refresh preceded the start
    applies, trouble

vars == <<backend, plan, runtime, fw, task, sets, ipt, nft, served, known, applies, trouble>>

Generations == {"A", "B"}

Modes == {"Destructive", "PreserveSets", "StaticSetsOnly"}

Plans == [cfg : DOMAIN Configs, sel : Selections, content : DOMAIN Contents]

Lists == UNION {DOMAIN Contents[c] : c \in DOMAIN Contents}

(* kpbr4s_x, kpbr4S_x, kpbr4d_x and those of IPv6; nftables has one static *)
SetNames == [fam : Families, list : Lists, slot : Generations \cup {"d"}]

Dynamic(name) == name.slot = "d"

ConfigOf(p) == Configs[p.cfg]

(* What a configuration that was parsed consists of                        *)
ConfiguredRules == [on : BOOLEAN, lists : Seq(STRING), sel : BOOLEAN, outbound : STRING]

ServerAddresses ==
    UNION {{s.addr : s \in ToSet(Configs[c].servers)} : c \in DOMAIN Configs}

AllAddresses == Addresses(4) \cup Addresses(6)

Outbounds == UNION {DOMAIN Configs[c].types : c \in DOMAIN Configs}

(* The sets by list and kind, the verdicts, and the rules of a chain       *)
SetRefs == [list : Lists, dyn : BOOLEAN]

Verdicts ==
    [kind : {"skip", "pass", "drop", "mark"},
     mark : {"user", "internal"} \X Outbounds \cup {None}]

KernelRules ==
    [fam : Families, sel : BOOLEAN, dst : ServerAddresses \cup {None}, act : Verdicts,
     set : SetNames \cup {None}]

Dispatchers == [to : Generations \cup {None}, also : Seq(KernelRules)]

(* Configurations are parsed, an address is of one family, lists keep the  *)
(* addresses of a family apart, and None is none of the values it stands   *)
(* in for.                                                                 *)
ASSUME FirewallAssumption ==
    /\ \A c \in DOMAIN Configs :
           /\ Configs[c].rules \in Seq(ConfiguredRules)
           /\ Configs[c].servers \in Seq([addr : ServerAddresses, detour : STRING])
    /\ Addresses(4) \cap Addresses(6) = {} /\ Resolved \subseteq AllAddresses
    /\ \A c \in DOMAIN Contents, f \in Families :
           \A l \in DOMAIN Contents[c] : Contents[c][l].ips[f] \subseteq Addresses(f)
    /\ \A S \in SUBSET AllAddresses : None # S
    /\ None \notin SetRefs \cup SetNames \cup Generations \cup ServerAddresses
    /\ None \notin ConfiguredRules /\ None \notin Seq(KernelRules) /\ None \notin Dispatchers

(* The packets that are looked at: a forwarded one does not go to a server *)
(* with a detour, and one of the router is a query no route rule covers.   *)
ASSUME PacketsAssumption ==
    \A p \in Packets :
        /\ p \in [addr : AllAddresses, hit : BOOLEAN, local : BOOLEAN]
        /\ ~p.local => p.addr \notin ServerAddresses
        /\ p.local => /\ ~p.hit /\ p.addr \notin Resolved
                      /\ \A c \in DOMAIN Contents, f \in Families :
                             \A l \in DOMAIN Contents[c] : p.addr \notin Contents[c][l].ips[f]

(* The tables of FirewallPlan for the plans of an instance                 *)
Rules == [p \in Plans |-> PlannedRules(ConfigOf(p), p.sel, Contents[p.content])]

Sets == [p \in Plans |-> PlannedSets(ConfigOf(p), p.sel, Contents[p.content])]

(* Rules with a set or an address exist in one family; rules with other    *)
(* selectors in both, which in iptables includes IPv6 when it is disabled. *)
InFamily(rule, f, p) ==
    /\ rule.dst # None => FamilyOf(rule.dst) = f
    /\ f = 6 => ConfigOf(p).ipv6 \/ (rule.set = None /\ backend = "iptables")

NameOf(ref, f, target) ==
    [fam |-> f, list |-> ref.list, slot |-> IF ref.dyn THEN "d" ELSE target[f]]

RulesIn(p, f, target) ==
    LET mine == Keep(Rules[p], {r \in ToSet(Rules[p]) : InFamily(r, f, p)})
    IN  [k \in DOMAIN mine |->
            [fam |-> f, sel |-> mine[k].sel, dst |-> mine[k].dst, act |-> mine[k].act,
             set |-> IF mine[k].set = None THEN None ELSE NameOf(mine[k].set, f, target)]]

EnabledFamilies(p) == IF ConfigOf(p).ipv6 THEN Families ELSE {4}

SetsIn(p, target) == {NameOf(ref, f, target) : ref \in Sets[p], f \in EnabledFamilies(p)}

EntriesOf(p, name) == Contents[p.content][name.list].ips[name.fam]

Exist(rules) == \A k \in DOMAIN rules : rules[k].set # None => sets[rules[k].set] # None

Members == [name \in SetNames |-> IF sets[name] = None THEN {} ELSE sets[name]]

-------------------------------------------------------------------------------
Fresh == [active  |-> [f \in Families |-> None],
          owned   |-> [f \in Families |-> FALSE],
          created |-> {},
          pending |-> <<>>,
          states  |-> None]

Idle == [at     |-> "idle",
         mode   |-> "PreserveSets",
         target |-> [f \in Families |-> "A"],
         seen   |-> FALSE]

NoChains == [jumps |-> 0, disp |-> None, chain |-> [g \in Generations |-> None]]

NotServed == [f \in Families |-> None]

Init ==
    /\ backend \in {"iptables", "nftables"}
    /\ plan \in Plans
    /\ runtime = "down"
    /\ fw = Fresh
    /\ task = Idle
    /\ sets = [n \in SetNames |-> None]
    /\ ipt = [f \in Families |-> NoChains]
    /\ nft = None
    /\ served = NotServed
    /\ known = "yes"
    /\ applies = 0
    /\ trouble = 0

-------------------------------------------------------------------------------
(* apply() throws: what the backend queued stays queued.                   *)
Throw ==
    /\ task' = Idle
    /\ UNCHANGED <<backend, plan, runtime, fw>>

(* apply() returns, and the rule states it made become the daemon's        *)
(* firewall_state_: what was applied, under which names of the sets.       *)
Return(memory) ==
    /\ task' = Idle
    /\ fw' = [memory EXCEPT !.pending = <<>>,
                            !.states = [plan |-> plan, target |-> task.target]]
    /\ runtime' = IF task.mode = "Destructive" THEN "up" ELSE runtime
    /\ UNCHANGED <<backend, plan>>

Trouble == trouble < MaxTrouble /\ trouble' = trouble + 1

(* Route rules that have lists, all of them empty, and another selector    *)
Widened(p) ==
    \E i \in DOMAIN ConfigOf(p).rules :
        LET rule == ConfigOf(p).rules[i]
        IN  /\ rule.lists # <<>> /\ rule.sel
            /\ RuleAction(ConfigOf(p), p.sel, rule).kind # "skip"
            /\ SetsOf(Contents[p.content], rule) = <<>>

(* Rules that drop or pass what is in a list                               *)
ListVerdicts(p) ==
    \E k \in DOMAIN Rules[p] : Rules[p][k].set # None /\ Rules[p][k].act.kind # "mark"
==============================================================================
