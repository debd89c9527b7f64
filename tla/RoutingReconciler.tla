-------------------------- MODULE RoutingReconciler --------------------------
(***************************************************************************)
(* How the kernel is brought to the plan: RoutingReconciler::reconcile()   *)
(* (routing/routing_reconciler.cpp), one netlink call a step, on the event *)
(* loop of the daemon, for each of its causes: startup, a new              *)
(* configuration, a change of an interface seen by the InterfaceMonitor,   *)
(* another selection of a urltest.  Around it the kernel: interfaces go    *)
(* down and up at any time, taking their routes with them, netlink calls   *)
(* fail, the daemon crashes and starts again.  The firewall follows the    *)
(* routing in every case, and decides which marks packets carry.           *)
(***************************************************************************)
EXTENDS RoutingPlan

CONSTANTS
    Configs, Interfaces, Gateways, ForeignRoutes,
    Subnets,        \* the gateways an interface may have on it: pairs
    V6Interfaces,   \* the interfaces that may have a routed IPv6 address
    MaxTrouble

(* What a configuration that was parsed consists of                        *)
Outbounds ==
    [tag : Nat, type : STRING, strict : BOOLEAN, table : Nat, iface : Interfaces \cup {None},
     gw4 : Gateways \cup {None}, gw6 : Gateways \cup {None},
     groups : Seq([weight : Int, outbounds : Seq(Nat)])]

(* The kernel's IPv6 tables have no metric 0: they file it under another.  *)
Ipv6Metric == 1024

Stored(r) == [r EXCEPT !.metric = IF r.family = 6 /\ @ = 0 THEN Ipv6Metric ELSE @]

(* Configurations are parsed, routes of a user are as the kernel files     *)
(* them.                                                                   *)
ASSUME RoutingAssumption ==
    /\ None \notin Interfaces
    /\ Subnets \subseteq Interfaces \X Gateways /\ V6Interfaces \subseteq Interfaces
    /\ \A c \in DOMAIN Configs :
           Configs[c] \in [outbounds : Seq(Outbounds), detours : SUBSET Nat, ipv6 : BOOLEAN]
    /\ \A r \in ForeignRoutes :
           /\ r \in [table : Nat, family : Families, iface : Interfaces, gw : Gateways \cup {None},
                     metric : Nat, own : {FALSE}]
           /\ Stored(r) = r

VARIABLES
    config,     \* config_, by name
    selections, \* firewall_state_.urltest_selections_, None if there is none
    marking,    \* the configuration whose marks the firewall puts on packets, or None
    task,       \* the reconciliation under way
    ok,         \* the last reconciliation succeeded
    tracked,    \* route_table_ and policy_rules_: the routes, and whose rules, adopted last
    up,         \* kernel: the interfaces that are up
    onlink,     \* kernel: the gateways the main table reaches, with the interface
    v6,         \* kernel: the interfaces with a routed IPv6 address
    routes,     \* kernel: the default routes of the tables, own or foreign
    rules,      \* kernel: the policy rules
    known,      \* InterfaceMonitor: interface_state, the interfaces last seen up
    messages,   \* InterfaceMonitor: the link messages not read yet
    watching,   \* the monitor's descriptor is registered
    blind,      \* the network changed unnoticed since the last reconciliation began
    left        \* how many link changes, faults and crashes are still to come

kernel == <<up, onlink, v6, routes, rules>>
monitor == <<known, messages, watching, blind>>
vars == <<config, selections, marking, task, ok, tracked, kernel, monitor, left>>

Net == [up |-> up, onlink |-> onlink, v6 |-> v6]

Idle == [at |-> "idle"]

NothingTracked == [routes |-> {}, config |-> None]

(* The configurations that may be applied, by name                         *)
Names == DOMAIN Configs

Current == Configs[config]

AllTags == UNION {Tags(Configs[c]) : c \in Names}

ChildrenOf ==
    [c \in Names |-> [t \in AllTags |->
        IF t \in Tags(Configs[c]) /\ OutboundOf(Configs[c], t).type = "urltest"
        THEN {o.tag : o \in ToSet(OrderedChildren(Configs[c], OutboundOf(Configs[c], t)))}
        ELSE {}]]

Init ==
    /\ config \in Names
    /\ selections = [t \in AllTags |-> None]
    /\ marking = None
    /\ task = [at |-> "plan", cause |-> "startup"]
    /\ ok = FALSE
    /\ tracked = NothingTracked
    /\ up = Interfaces
    /\ onlink \in SUBSET Subnets
    /\ v6 \in SUBSET V6Interfaces
    /\ routes = {r \in ForeignRoutes : r.iface \in up}
    /\ rules = {}
    /\ known = up
    /\ messages = <<>>
    /\ watching = FALSE
    /\ blind = FALSE
    /\ left = MaxTrouble

-------------------------------------------------------------------------------
(* What makes the event loop reconcile.  task' is the new reconciliation.  *)
Begin(cause) == task.at = "idle" /\ task' = [at |-> "plan", cause |-> cause] /\ blind' = FALSE

(* reconcile_prepared_runtime(): the selections of the urltests stay.      *)
Apply(c) ==
    /\ Begin("apply")
    /\ config' = c
    /\ UNCHANGED <<selections, marking, ok, tracked, kernel, known, messages, watching, left>>

(* handle_urltest_selection_change()                                       *)
SelectionChange(tag, child) ==
    /\ child \in ChildrenOf[config][tag]
    /\ child # selections[tag]
    /\ Begin("switch")
    /\ selections' = [selections EXCEPT ![tag] = child]
    /\ UNCHANGED <<config, marking, ok, tracked, kernel, known, messages, watching, left>>

InUse(i) == \E ob \in ToSet(Current.outbounds) : ob.type = "interface" /\ ob.iface = i

(* on_nl_message() and handle_interface_event(): only a change of the      *)
(* administrative state of an interface in use refreshes.                  *)
HandleMessage ==
    /\ watching
    /\ task.at = "idle"
    /\ messages # <<>>
    /\ LET m == Head(messages)
       IN  /\ known' = IF m.up THEN known \cup {m.iface} ELSE known \ {m.iface}
           /\ IF (m.iface \in known) # m.up /\ InUse(m.iface)
              THEN Begin("refresh") ELSE UNCHANGED <<task, blind>>
    /\ messages' = Tail(messages)
    /\ UNCHANGED <<config, selections, marking, ok, tracked, kernel, watching, left>>

(* The monitor's socket fails: reconnect() opens another and reads the     *)
(* present states, and what changed meanwhile is never reported.           *)
Reconnect ==
    /\ watching
    /\ task.at = "idle"
    /\ left > 0
    /\ left' = left - 1
    /\ messages' = <<>>
    /\ known' = up
    /\ blind' = (blind \/ messages # <<>>)
    /\ UNCHANGED <<config, selections, marking, task, ok, tracked, kernel, watching>>

-------------------------------------------------------------------------------
unchangedByTask == <<config, selections, up, onlink, v6, known, messages, blind>>

(* An exception leaves reconcile_static_routing(), or apply_firewall().    *)
Throw ==
    /\ task' = Idle
    /\ ok' = FALSE
    /\ UNCHANGED <<marking, tracked, routes, rules, watching, unchangedByTask>>

(* Any netlink call may fail for reasons of its own.                       *)
Fault ==
    /\ task.at # "idle"
    /\ left > 0
    /\ left' = left - 1
    /\ Throw

Wanted == ToSet(task.routes)

SameKey(r, s) == r.table = s.table /\ r.family = s.family

(* populate_routing_state() on the network as it is now                    *)
Plan ==
    /\ task.at = "plan"
    /\ task' = [at |-> "dump", cause |-> task.cause,
                routes |-> PlannedRoutes(Current, selections, Net)]
    /\ UNCHANGED <<marking, ok, tracked, routes, rules, watching, left, unchangedByTask>>

(* The tables of the planned routes are read; a foreign route equal to a   *)
(* planned one ends the reconciliation before it changes anything.         *)
Dump ==
    /\ task.at = "dump"
    /\ LET seen == {r \in routes : \E w \in Wanted : r.table = w.table}
       IN  IF \E w \in Wanted : w \notin seen /\ [w EXCEPT !.own = FALSE] \in seen
           THEN Throw
           ELSE /\ task' = [at |-> "add", cause |-> task.cause, routes |-> task.routes,
                            next |-> 1, seen |-> seen]
                /\ UNCHANGED <<marking, ok, tracked, routes, rules, watching, unchangedByTask>>
    /\ UNCHANGED left

(* netlink delete_route() of a route read by Dump: it may be gone since.   *)
DeleteRoute(r) ==
    IF r \in routes
    THEN /\ routes' = routes \ {r}
         /\ task' = [task EXCEPT !.seen = @ \ {r}]
         /\ UNCHANGED <<marking, ok, tracked, rules, watching, unchangedByTask>>
    ELSE Throw

(* netlink add_route(): refused if the interface is down or its gateway is *)
(* not on it; one route to a table, family and metric, and if that is      *)
(* there already it must read back as the one asked for.                   *)
InsertRoute(r) ==
    IF \/ r.iface # None /\ r.iface \notin up
       \/ r.gw # None /\ <<r.iface, r.gw>> \notin onlink
       \/ \E s \in routes : SameKey(r, s) /\ s.metric = Stored(r).metric /\ s # r
    THEN Throw
    ELSE /\ routes' = routes \cup {Stored(r)}
         /\ task' = [task EXCEPT !.next = @ + 1,
                                 !.seen = IF r \in routes THEN @ ELSE @ \cup {r}]
         /\ UNCHANGED <<marking, ok, tracked, rules, watching, unchangedByTask>>

(* Mutant: routes in the way are deleted even if they are planned.         *)
AddRouteClears ==
    /\ task.at = "add"
    /\ task.next <= Len(task.routes)
    /\ LET r == task.routes[task.next]
           inTheWay == {s \in task.seen : s.own /\ SameKey(r, s)}
       IN  IF r \in task.seen
           THEN /\ task' = [task EXCEPT !.next = @ + 1]
                /\ UNCHANGED <<marking, ok, tracked, routes, rules, watching, unchangedByTask>>
           ELSE IF inTheWay # {}
           THEN \E s \in inTheWay : DeleteRoute(s)
           ELSE InsertRoute(r)
    /\ UNCHANGED left

(* The next planned route: own routes with its table and family that are   *)
(* not planned go first, one by one.                                       *)
AddRoute ==
    /\ task.at = "add"
    /\ task.next <= Len(task.routes)
    /\ LET r == task.routes[task.next]
           inTheWay == {s \in task.seen : s.own /\ s \notin Wanted /\ SameKey(r, s)}
       IN  IF r \in task.seen
           THEN /\ task' = [task EXCEPT !.next = @ + 1]
                /\ UNCHANGED <<marking, ok, tracked, routes, rules, watching, unchangedByTask>>
           ELSE IF inTheWay # {}
           THEN \E s \in inTheWay : DeleteRoute(s)
           ELSE InsertRoute(r)
    /\ UNCHANGED left

(* The own routes read that are not planned                                *)
PruneRoute ==
    /\ task.at = "add"
    /\ task.next > Len(task.routes)
    /\ LET obsolete == {r \in task.seen : r.own /\ r \notin Wanted}
       IN  IF obsolete # {}
           THEN \E r \in obsolete : DeleteRoute(r)
           ELSE /\ task' = [at |-> "rules", cause |-> task.cause, routes |-> task.routes,
                            next |-> 1, seen |-> rules]
                /\ UNCHANGED <<marking, ok, tracked, routes, rules, watching, unchangedByTask>>
    /\ UNCHANGED left

(* Each planned rule in each of its families                               *)
RulesWanted ==
    [c \in Names |-> FlattenSeq([i \in DOMAIN PlannedRules(Configs[c]) |->
        [k \in DOMAIN RuleFamilies(Configs[c]) |->
            [rule |-> PlannedRules(Configs[c])[i], family |-> RuleFamilies(Configs[c])[k]]]])]

WantedRules == RulesWanted[config]

AddRule ==
    /\ task.at = "rules"
    /\ task.next <= Len(WantedRules)
    /\ rules' = rules \cup {WantedRules[task.next]}
    /\ task' = [task EXCEPT !.next = @ + 1]
    /\ UNCHANGED <<marking, ok, tracked, routes, watching, left, unchangedByTask>>

(* Mutant: the rules in the way of the new ones go first.                  *)
PruneRuleFirst ==
    /\ task.at = "rules"
    /\ LET planned == ToSet(WantedRules)
           obsolete == {r \in task.seen : /\ r \notin planned
                                          /\ \E w \in planned : w.rule.mark = r.rule.mark
                                                             /\ w.rule.mask = r.rule.mask}
       IN  IF obsolete # {}
           THEN \E r \in obsolete : /\ rules' = rules \ {r}
                                    /\ task' = [task EXCEPT !.seen = @ \ {r}]
                                    /\ UNCHANGED tracked
           ELSE /\ task.next > Len(WantedRules)
                /\ task' = [at |-> "firewall", cause |-> task.cause, routes |-> task.routes]
                /\ tracked' = [routes |-> Wanted, config |-> config]
                /\ UNCHANGED rules
    /\ UNCHANGED <<marking, ok, routes, watching, left, unchangedByTask>>

(* The rules read before, of a planned mark but not planned themselves     *)
PruneRule ==
    /\ task.at = "rules"
    /\ task.next > Len(WantedRules)
    /\ LET planned == ToSet(WantedRules)
           obsolete == {r \in task.seen : /\ r \notin planned
                                          /\ \E w \in planned : w.rule.mark = r.rule.mark
                                                             /\ w.rule.mask = r.rule.mask}
       IN  IF obsolete # {}
           THEN \E r \in obsolete : /\ rules' = rules \ {r}
                                    /\ task' = [task EXCEPT !.seen = @ \ {r}]
                                    /\ UNCHANGED tracked
           ELSE /\ task' = [at |-> "firewall", cause |-> task.cause, routes |-> task.routes]
                /\ tracked' = [routes |-> Wanted, config |-> config]
                /\ UNCHANGED rules
    /\ UNCHANGED <<marking, ok, routes, watching, left, unchangedByTask>>

(* apply_firewall(), and at startup the monitor is registered after it     *)
ApplyFirewall ==
    /\ task.at = "firewall"
    /\ marking' = config
    /\ ok' = TRUE
    /\ watching' = (watching \/ task.cause = "startup")
    /\ task' = Idle
    /\ UNCHANGED <<tracked, routes, rules, left, unchangedByTask>>

-------------------------------------------------------------------------------
(* The kernel: a default route goes with its interface.                    *)
LinkDown(i) ==
    /\ i \in up
    /\ left > 0
    /\ left' = left - 1
    /\ up' = up \ {i}
    /\ routes' = {r \in routes : r.iface # i}
    /\ messages' = Append(messages, [iface |-> i, up |-> FALSE])
    /\ UNCHANGED <<config, selections, marking, task, ok, tracked, onlink, v6, rules, known,
                   watching, blind>>

LinkUp(i) ==
    /\ i \notin up
    /\ left > 0
    /\ left' = left - 1
    /\ up' = up \cup {i}
    /\ messages' = Append(messages, [iface |-> i, up |-> TRUE])
    /\ UNCHANGED <<config, selections, marking, task, ok, tracked, onlink, v6, routes, rules,
                   known, watching, blind>>

(* Addresses and routes of the main table come and go.  The monitor hears  *)
(* of addresses, and handle_interface_event() refreshes nothing for them;  *)
(* of routes it does not hear.                                             *)
AddressesChange ==
    /\ left > 0
    /\ left' = left - 1
    /\ \/ /\ \E x \in Subnets : onlink' = IF x \in onlink THEN onlink \ {x} ELSE onlink \cup {x}
          /\ UNCHANGED v6
       \/ /\ \E i \in V6Interfaces : v6' = IF i \in v6 THEN v6 \ {i} ELSE v6 \cup {i}
          /\ UNCHANGED onlink
    /\ blind' = TRUE
    /\ UNCHANGED <<config, selections, marking, task, ok, tracked, up, routes, rules, known,
                   messages, watching>>

(* A crash leaves kernel and firewall as they are; the next process starts *)
(* with the configuration on disk and no selection.                        *)
Crash(c) ==
    /\ left > 0
    /\ left' = left - 1
    /\ config' = c
    /\ selections' = [t \in AllTags |-> None]
    /\ task' = [at |-> "plan", cause |-> "startup"]
    /\ ok' = FALSE
    /\ tracked' = NothingTracked
    /\ known' = up
    /\ messages' = <<>>
    /\ watching' = FALSE
    /\ blind' = FALSE
    /\ UNCHANGED <<marking, kernel>>

Next ==
    \/ \E c \in Names : Apply(c) \/ Crash(c)
    \/ \E tag, child \in AllTags : SelectionChange(tag, child)
    \/ HandleMessage \/ Reconnect
    \/ Plan \/ Dump \/ AddRoute \/ PruneRoute \/ AddRule \/ PruneRule \/ ApplyFirewall \/ Fault
    \/ \E i \in Interfaces : LinkDown(i) \/ LinkUp(i)
    \/ AddressesChange

Spec == Init /\ [][Next]_vars

-------------------------------------------------------------------------------
(* The last reconciliation succeeded, and nothing has happened since:      *)
(* whatever makes the daemon reconcile again is done, and nothing changed  *)
(* that does not.                                                          *)
Settled == task.at = "idle" /\ ok /\ watching /\ messages = <<>> /\ ~blind

PlannedNow == ToSet(PlannedRoutes(Current, selections, Net))

TablesPlanned == {r.table : r \in PlannedNow}

(* Where a kernel with these routes and rules sends a packet: by the rules *)
(* with its mark in the order of priorities, past tables without a route,  *)
(* to the main table.                                                      *)
TableRoutes(rts, table, family) == {r \in rts : r.table = table /\ r.family = family}

BestHop(rts, table, family) ==
    LET best == CHOOSE r \in TableRoutes(rts, table, family) :
                    \A s \in TableRoutes(rts, table, family) : r.metric <= s.metric
    IN  IF best.iface = None THEN "reject" ELSE best.iface

HopsIn(rts, rls, mark, family) ==
    LET stopping == {x \in rls : /\ x.family = family
                                 /\ Masked(mark, x.rule.mask) = Masked(x.rule.mark, x.rule.mask)
                                 /\ \/ x.rule.action = "reject"
                                    \/ TableRoutes(rts, x.rule.table, family) # {}}
        first == {x \in stopping : \A y \in stopping : x.rule.prio <= y.rule.prio}
    IN  IF stopping = {} THEN {"main"}
        ELSE {IF x.rule.action = "reject" THEN "reject" ELSE BestHop(rts, x.rule.table, family) :
                  x \in first}

Hops(mark, family) == HopsIn(routes, rules, mark, family)

OwnHops(ob, family) ==
    IF Reachable(ob, Net) /\ Carries(ob, family, Net) THEN {ob.iface} ELSE {"reject"}

SelectedChild(ob) == OutboundOf(Current, selections[ob.tag])

(* Packets of an outbound leave as the configuration says: through its     *)
(* interface, or for a urltest through the selected child as long as that  *)
(* is reachable, else through another child; never by the main table, and  *)
(* never through the interface of another outbound.  Tables with foreign   *)
(* routes, and tables for which nothing is planned, are not claimed; nor,  *)
(* for IPv6, that the selected child goes first: its route asks for metric *)
(* 0, which is filed behind the others' (Stored).                          *)
MarkedFollowsOutbound ==
    Settled =>
        LET obs == RoutableOutbounds(Current)
            tables == TablesPlanned
        IN  \A i \in DOMAIN obs, f \in ToSet(RuleFamilies(Current)) :
            LET ob == obs[i]
                hops == Hops(MarkOf(Current, ob), f)
                children == ToSet(OrderedChildren(Current, ob))
            IN  ( /\ TableOf(ob, i) \in tables
                  /\ \A r \in TableRoutes(routes, TableOf(ob, i), f) : r.own ) =>
                /\ ob.type = "interface" => hops = OwnHops(ob, f)
                /\ ob.type = "urltest" =>
                      /\ hops \subseteq {c.iface : c \in children} \cup {"reject"}
                      /\ ( /\ f = 4
                           /\ selections[ob.tag] \in {c.tag : c \in children}
                           /\ OwnHops(SelectedChild(ob), f) # {"reject"} )
                             => hops = OwnHops(SelectedChild(ob), f)

(* populate_routing_state(): "A policy rule must never become visible      *)
(* before every route it can select has been installed": when rules are    *)
(* added, every planned route is there, unless its interface has changed   *)
(* since.                                                                  *)
RoutesBeforeRules ==
    task.at \in {"rules", "firewall"} =>
        \A r \in Wanted : \/ Stored(r) \in routes
                        \/ \E k \in DOMAIN messages : messages[k].iface = r.iface

GuardedMarks ==
    [c \in Names |->
        LET routable == {ob \in ToSet(Configs[c].outbounds) : Routable(ob)}
        IN  {MarkOf(Configs[c], ob) : ob \in {o \in routable : Guarded(o)}}
              \cup {InternalMarkOf(Configs[c], ob) :
                       ob \in {o \in routable : o.tag \in Configs[c].detours}}]

Guards == {<<x.rule.mark, x.family>> : x \in {y \in rules : y.rule.action = "reject"}}

(* The kill switch has no gap: a mark that is guarded, and that the        *)
(* configuration being applied guards too, is guarded at every step in     *)
(* between, whatever fails or crashes on the way.                          *)
GuardsStay ==
    [][\A g \in Guards : /\ g[1] \in GuardedMarks[config']
                         /\ g[2] \in ToSet(RuleFamilies(Current'))
                         => g \in Guards']_vars

==============================================================================
