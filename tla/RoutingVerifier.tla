--------------------------- MODULE RoutingVerifier ---------------------------
(***************************************************************************)
(* What the daemon says of its routing when asked: RoutingVerifier and the *)
(* routing half of build_routing_health_report(), and                      *)
(* build_runtime_outbounds_response() (health/runtime_outbound_state.cpp). *)
(* Both run on the threads of the API, on the routes and rules adopted     *)
(* last and on the kernel as it is at that moment.  A netlink dump may     *)
(* fail, which readable tells.                                             *)
(***************************************************************************)
EXTENDS RoutingReconciler

TrackedRules == IF tracked.config = None THEN {} ELSE ToSet(RulesWanted[tracked.config])

TrackedTables == {r.table : r \in tracked.routes}

(* route_metric_matches()                                                  *)
MetricMatches(expected, actual) == expected.metric = 0 \/ expected.metric = actual.metric

(* route_matches_expected(); a route without an interface is unreachable.  *)
RouteMatchesExpected(expected, actual) ==
    /\ SameKey(expected, actual)
    /\ (expected.iface = None) = (actual.iface = None)
    /\ expected.own = actual.own
    /\ MetricMatches(expected, actual)
    /\ expected.iface # None =>
           /\ actual.iface = expected.iface
           /\ expected.gw # None => actual.gw = expected.gw

(* verify_route_table()                                                    *)
RouteStatus(expected, readable) ==
    CASE readable /\ \E r \in routes : RouteMatchesExpected(expected, r) -> "ok"
      [] /\ readable
         /\ TableRoutes(routes, expected.table, expected.family) # {}
         /\ ~\E r \in routes : RouteMatchesExpected(expected, r) -> "mismatch"
      [] OTHER -> "missing"

(* route_matches(): whose route it is does not count                       *)
Covered(actual) ==
    \E w \in tracked.routes : /\ SameKey(w, actual)
                              /\ w.iface = actual.iface
                              /\ w.gw = actual.gw
                              /\ MetricMatches(w, actual)

UnexpectedRoutes == {r \in routes : r.table \in TrackedTables /\ ~Covered(r)}

(* verify_policy_rule(), in each family the rule is expected in            *)
RuleStatus(expected, readable) ==
    IF readable /\ expected \in rules THEN "ok" ELSE "missing"

(* Mutant: routes that are in a table and not expected there are not       *)
(* looked for.                                                             *)
RoutingHealthOkMissingOnly(readable) ==
    /\ tracked.routes # {} => readable
    /\ \A w \in tracked.routes : RouteStatus(w, readable) = "ok"
    /\ \A x \in TrackedRules : RuleStatus(x, readable) = "ok"

(* overall_ok, as far as the routing goes; the dump of a table for routes  *)
(* that are not expected is the one whose failure ends the report.         *)
RoutingHealthOk(readable) ==
    /\ tracked.routes # {} => readable
    /\ \A w \in tracked.routes : RouteStatus(w, readable) = "ok"
    /\ UnexpectedRoutes = {}
    /\ \A x \in TrackedRules : RuleStatus(x, readable) = "ok"

-------------------------------------------------------------------------------
(* outbound_table_id(): by the first rule in force with the outbound's mark *)
OutboundTables(ob) ==
    {x.rule.table : x \in {y \in TrackedRules : /\ y.rule.mark = MarkOf(Current, ob)
                                                /\ y.rule.action = "lookup"}}

DumpOf(ob) == {r \in routes : r.table \in OutboundTables(ob)}

(* Mutant: the metrics of the routes are not compared.                     *)
PrimaryRoutesAny(ob) == {r \in DumpOf(ob) : r.iface # None}

(* find_primary_default_route(): of either family, the first of the lowest *)
(* metric; which one comes first is up to the kernel.                      *)
PrimaryRoutes(ob) ==
    LET usable == {r \in DumpOf(ob) : r.iface # None}
    IN  {r \in usable : \A s \in usable : r.metric <= s.metric}

(* route_matches_outbound()                                                *)
RouteMatchesOutbound(r, ob) ==
    LET via == IF r.family = 4 THEN ob.gw4 ELSE ob.gw6
    IN  /\ ob.type = "interface"
        /\ r.iface = ob.iface
        /\ via # None => r.gw = via

(* live_active_child_tag, and for an interface whether it is active: the   *)
(* first outbound of these whose route the primary one is                  *)
ActiveOf(r, children) ==
    LET matching == SelectSeq(children, LAMBDA c : RouteMatchesOutbound(r, c))
    IN  IF matching = <<>> THEN None ELSE matching[1].tag

(* map_urltest_child_status(), with results and breakers of UrltestManager *)
(* left open, and build_interface_outbound_state()                         *)
InterfaceStatuses == {"active", "backup", "unavailable", "unknown", "degraded"}

ChildStatuses(ob, child, active) ==
    CASE child.iface = None -> {"unknown"}
      [] child.iface # None /\ active = child.tag -> {"active"}
      [] /\ child.iface # None
         /\ active # child.tag
         /\ ob.type = "interface" \/ ~Reachable(child, Net) -> {"unavailable"}
      [] OTHER -> InterfaceStatuses \ {"active"}

(* derive_overall_status()                                                 *)
OverallStatus(statuses, active, live) ==
    CASE active # None \/ (statuses = {} /\ live) -> "healthy"
      [] active = None /\ statuses \cap {"backup", "degraded"} # {} -> "degraded"
      [] active = None /\ statuses # {} /\ statuses \cap {"backup", "degraded"} = {} ->
             "unavailable"
      [] OTHER -> "unknown"

(* What build_runtime_outbounds_response() may say of an outbound: the     *)
(* status of each of its interfaces, and its own                           *)
OutboundStates(ob) ==
    LET children == IF ob.type = "urltest" THEN OrderedChildren(Current, ob) ELSE <<ob>>
        primary == PrimaryRoutes(ob)
        actives == IF primary = {} THEN {None} ELSE {ActiveOf(r, children) : r \in primary}
        live == primary # {}
        statuses(a) == {t \in [DOMAIN children -> InterfaceStatuses] :
                            \A k \in DOMAIN t : t[k] \in ChildStatuses(ob, children[k], a)}
    IN  CASE ~Routable(ob) -> {[active |-> None, status |-> "healthy"]}
          [] ob.type = "table" ->
                 {[active |-> None, status |-> IF live THEN "healthy" ELSE "unknown"]}
          [] OTHER ->
                 UNION {{[active |-> a, status |-> OverallStatus(ToSet(t), a, live)] :
                             t \in statuses(a)} : a \in actives}

-------------------------------------------------------------------------------
(* The routing half of the health report can be believed.  Once the last   *)
(* reconciliation has succeeded, "ok" means that the kernel sends the      *)
(* packets of every mark where the adopted plan sends them, whatever links *)
(* did since and whatever messages were lost (the tables for which it has  *)
(* no route are taken as they are); and a settled kernel without routes of *)
(* others in the daemon's tables is never reported as broken.              *)
RoutingHealthTellsTheTruth ==
    ok /\ task.at = "idle" =>
        /\ \A readable \in BOOLEAN : RoutingHealthOk(readable) =>
               LET plan == {Stored(r) : r \in tracked.routes}
                               \cup {r \in routes : r.table \notin TrackedTables}
               IN  \A x \in TrackedRules :
                       Hops(x.rule.mark, x.family)
                           = HopsIn(plan, TrackedRules, x.rule.mark, x.family)
        /\ Settled /\ (\A r \in routes : r.table \in TrackedTables => r.own)
               => RoutingHealthOk(TRUE)

(* The state shown for an outbound is the live one: an interface is        *)
(* "active", and an outbound "healthy", only if packets of its mark leave  *)
(* that way in some family; and once settled a reachable interface, and    *)
(* the selected child of a urltest, are shown as the active ones.          *)
OutboundStatusIsLive ==
    ok /\ task.at = "idle" =>
        \A ob \in {o \in ToSet(Current.outbounds) : Routable(o)} :
            LET hops == UNION {Hops(MarkOf(Current, ob), f) : f \in ToSet(RuleFamilies(Current))}
                states == OutboundStates(ob)
            IN  /\ \A st \in states :
                       /\ st.active # None => OutboundOf(Current, st.active).iface \in hops
                       /\ st.status = "healthy" => hops \ {"reject", "main"} # {}
                /\ Settled /\ ob.type = "interface" /\ Reachable(ob, Net) =>
                       \A st \in states : st.active = ob.tag
                /\ ( /\ Settled
                     /\ ob.type = "urltest"
                     /\ selections[ob.tag] \in ChildrenOf[config][ob.tag]
                     /\ OwnHops(SelectedChild(ob), 4) # {"reject"} ) =>
                       \A st \in states : st.active = selections[ob.tag]
==============================================================================
