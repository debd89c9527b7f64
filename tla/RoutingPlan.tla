----------------------------- MODULE RoutingPlan -----------------------------
(***************************************************************************)
(* What populate_routing_state() (config/routing_state.cpp) wants of the   *)
(* kernel: the routes and policy rules of a configuration, given the state *)
(* of the network and which child each urltest has selected.               *)
(*                                                                         *)
(* A configuration is a record: outbounds, a sequence of records; detours, *)
(* the tags that lists or DNS servers use as detour; ipv6.  Tags are       *)
(* numbers, in the order of the strings; iface, gw4, gw6 may be None.      *)
(*                                                                         *)
(* The network is a record: up, the interfaces that are up; onlink, the    *)
(* pairs of an interface and a gateway that some route of the main table   *)
(* through that interface contains; v6, the interfaces with a routed IPv6  *)
(* address.                                                                *)
(***************************************************************************)
EXTENDS Fwmarks, FiniteSets, Sequencing

CONSTANTS None, MarkStart, MarkMask, TableStart, ReservedTables, PriorityStart

UnreachableMetric == 65535

Families == {4, 6}

Routable(ob) == ob.type \in {"interface", "table", "urltest"}

TypeRank(ob) ==
    CASE ob.type = "interface" -> 0
      [] ob.type = "table" -> 1
      [] ob.type = "urltest" -> 2
      [] OTHER -> 3

(* The outbounds in the order the loop of populate_routing_state() visits  *)
Earlier(a, b) ==
    TypeRank(a) < TypeRank(b) \/ (TypeRank(a) = TypeRank(b) /\ a.tag < b.tag)

RoutableOutbounds(cfg) ==
    LET obs == cfg.outbounds
        sorted == Arranged(obs, {p \in (DOMAIN obs) \X (DOMAIN obs) : Earlier(obs[p[1]], obs[p[2]])})
    IN  Keep(sorted, {ob \in ToSet(obs) : Routable(ob)})

Tags(cfg) == {cfg.outbounds[i].tag : i \in DOMAIN cfg.outbounds}

OutboundOf(cfg, tag) == CHOOSE ob \in ToSet(cfg.outbounds) : ob.tag = tag

(* The place of an outbound in the order of tags, for its marks            *)
TagRank(cfg, ob) == Cardinality({o \in ToSet(cfg.outbounds) : Routable(o) /\ o.tag <= ob.tag})

MarkOf(cfg, ob) == UserMark(MarkStart, MarkMask, TagRank(cfg, ob))

InternalMarkOf(cfg, ob) == DetourMark(MarkStart, MarkMask, TagRank(cfg, ob))

(* safe_table_id(): the offset-th table from TableStart not reserved       *)
SafeTableId(offset) ==
    CHOOSE id \in TableStart .. (TableStart + offset + Cardinality(ReservedTables)) :
        /\ id \notin ReservedTables
        /\ Cardinality((TableStart .. (id - 1)) \ ReservedTables) = offset

(* The table of ob, the i-th in that order                                 *)
TableOf(ob, i) == IF ob.type = "table" THEN ob.table ELSE SafeTableId(i - 1)

-------------------------------------------------------------------------------
(* The families for which an interface outbound gets a default route       *)
Carries(ob, family, net) ==
    IF family = 4 THEN ob.gw4 # None \/ ob.gw6 = None
                  ELSE ob.gw6 # None \/ (ob.gw4 = None /\ ob.iface \in net.v6)

Unreachable(table, family, metric) ==
    [table |-> table, family |-> family, iface |-> None, gw |-> None, metric |-> metric,
     own |-> TRUE]

(* make_default_routes() and make_family_closure_routes()                  *)
RouteVia(table, ob, family, metric) ==
    [table |-> table, family |-> family, iface |-> ob.iface,
     gw |-> IF family = 4 THEN ob.gw4 ELSE ob.gw6, metric |-> metric, own |-> TRUE]

InterfaceRoutes(table, ob, net, metric, closure) ==
    LET via == Keep(<<4, 6>>, {f \in Families : Carries(ob, f, net)})
        not == Keep(<<4, 6>>, {f \in Families : ~Carries(ob, f, net)})
    IN  [i \in DOMAIN via |-> RouteVia(table, ob, via[i], metric)]
            \o [i \in DOMAIN not |-> Unreachable(table, not[i], closure)]

UnreachableRoutes(table) ==
    <<Unreachable(table, 4, UnreachableMetric), Unreachable(table, 6, UnreachableMetric)>>

(* ordered_urltest_children(): by the weights of the groups, ties and      *)
(* members in the order of the file                                        *)
OrderedChildren(cfg, ob) ==
    LET gs == ob.groups
        order == Arranged(gs, {p \in (DOMAIN gs) \X (DOMAIN gs) : gs[p[1]].weight < gs[p[2]].weight})
        tags == Keep(FlattenSeq([k \in DOMAIN order |-> order[k].outbounds]), Tags(cfg))
    IN  [k \in DOMAIN tags |-> OutboundOf(cfg, tags[k])]

(* is_interface_outbound_reachable(): the link is up, and the main table   *)
(* reaches every gateway that is configured, of either family, through it. *)
Reachable(ob, net) ==
    ob.type = "interface" =>
        /\ ob.iface \in net.up
        /\ \A g \in {ob.gw4, ob.gw6} \ {None} : <<ob.iface, g>> \in net.onlink

(* The routes of a urltest's table: the selected child's at metric 0, then *)
(* those of every reachable child in order; none without a selection.      *)
CandidateRoutes(cfg, ob, table, selected, net) ==
    LET usable == Keep(OrderedChildren(cfg, ob),
                       {c \in ToSet(cfg.outbounds) : c.type = "interface" /\ Reachable(c, net)})
        first == IF /\ selected \in Tags(cfg)
                    /\ OutboundOf(cfg, selected).type = "interface"
                    /\ Reachable(OutboundOf(cfg, selected), net)
                 THEN InterfaceRoutes(table, OutboundOf(cfg, selected), net, 0, UnreachableMetric)
                 ELSE <<>>
    IN  IF selected = None THEN <<>>
        ELSE first \o FlattenSeq([k \in DOMAIN usable |->
                                      InterfaceRoutes(table, usable[k], net, k, k)])

(* Mutant: the selection is not put before the other children.             *)
RoutesOfAnyOrder(cfg, ob, table, sel, net) ==
    LET candidates == CandidateRoutes(cfg, ob, table, sel[ob.tag], net)
    IN  CASE ob.type = "interface" /\ Reachable(ob, net) ->
                 InterfaceRoutes(table, ob, net, 0, UnreachableMetric)
          [] ob.type = "interface" /\ ~Reachable(ob, net) /\ ob.strict -> UnreachableRoutes(table)
          [] ob.type = "urltest" /\ candidates # <<>> ->
                 Keep(candidates, {r \in ToSet(candidates) : r.metric # 0})
          [] ob.type = "urltest" /\ candidates = <<>> -> UnreachableRoutes(table)
          [] OTHER -> <<>>

(* The routes planned for a routable outbound                              *)
RoutesOf(cfg, ob, table, sel, net) ==
    LET candidates == CandidateRoutes(cfg, ob, table, sel[ob.tag], net)
    IN  CASE ob.type = "interface" /\ Reachable(ob, net) ->
                 InterfaceRoutes(table, ob, net, 0, UnreachableMetric)
          [] ob.type = "interface" /\ ~Reachable(ob, net) /\ ob.strict -> UnreachableRoutes(table)
          [] ob.type = "urltest" /\ candidates # <<>> -> candidates
          [] ob.type = "urltest" /\ candidates = <<>> -> UnreachableRoutes(table)
          [] OTHER -> <<>>

PlannedRoutes(cfg, sel, net) ==
    LET obs == RoutableOutbounds(cfg)
        all == FlattenSeq([i \in DOMAIN obs |->
                               RoutesOf(cfg, obs[i], TableOf(obs[i], i), sel, net)])
    IN  Keep(all, {r \in ToSet(all) : cfg.ipv6 \/ r.family = 4})

-------------------------------------------------------------------------------
(* add_lookup_and_guard(): a pair of priorities is reserved for each mark, *)
(* the second one used only by a guard.                                    *)
LookupAndGuard(mark, table, pair, guarded) ==
    LET lookup == [mark |-> mark, mask |-> MarkMask, table |-> table,
                   prio |-> PriorityStart + 2 * pair, action |-> "lookup"]
        guard == [lookup EXCEPT !.table = 0, !.prio = @ + 1, !.action = "reject"]
    IN  IF guarded THEN <<lookup, guard>> ELSE <<lookup>>

(* How many pairs the outbounds before the i-th have taken                 *)
PairsBefore(cfg, i) ==
    LET before == {RoutableOutbounds(cfg)[j] : j \in 1 .. (i - 1)}
    IN  Cardinality(before) + Cardinality({ob \in before : ob.tag \in cfg.detours})

Guarded(ob) == ob.strict \/ ob.type = "urltest"

RulesOf(cfg, i) ==
    LET ob == RoutableOutbounds(cfg)[i]
        pair == PairsBefore(cfg, i)
    IN  LookupAndGuard(MarkOf(cfg, ob), TableOf(ob, i), pair, Guarded(ob))
            \o (IF ob.tag \in cfg.detours
                THEN LookupAndGuard(InternalMarkOf(cfg, ob), TableOf(ob, i), pair + 1, TRUE)
                ELSE <<>>)

PlannedRules(cfg) ==
    FlattenSeq([i \in DOMAIN RoutableOutbounds(cfg) |-> RulesOf(cfg, i)])

(* The families in which each rule is installed                            *)
RuleFamilies(cfg) == IF cfg.ipv6 THEN <<4, 6>> ELSE <<4>>
==============================================================================
