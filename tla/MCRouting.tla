------------------------------ MODULE MCRouting ------------------------------
EXTENDS RoutingVerifier

CONSTANTS wg, eth, gateway

Base == [type |-> "interface", iface |-> None, gw4 |-> None, gw6 |-> None, strict |-> FALSE,
         table |-> 0, groups |-> <<>>]

Outbound(tag, type) == [f \in DOMAIN Base \cup {"tag"} |->
                            CASE f = "tag" -> tag [] f = "type" -> type [] OTHER -> Base[f]]

(* A gatewayed outbound that DNS uses as detour, a strict one, and a       *)
(* urltest that prefers the second                                         *)
Wide == [outbounds |-> << [Outbound(3, "urltest") EXCEPT
                              !.groups = << [weight |-> 2, outbounds |-> <<1>>],
                                            [weight |-> 1, outbounds |-> <<2>>] >>],
                          [Outbound(1, "interface") EXCEPT !.iface = eth, !.gw4 = gateway],
                          [Outbound(2, "interface") EXCEPT !.iface = wg, !.strict = TRUE],
                          Outbound(4, "ignore") >>,
         detours |-> {1}, ipv6 |-> TRUE]

(* The strict one alone, with a user's table: marks, tables and priorities *)
(* all move.                                                               *)
Narrow == [outbounds |-> << [Outbound(2, "interface") EXCEPT !.iface = wg, !.strict = TRUE],
                            [Outbound(4, "table") EXCEPT !.table = 9, !.strict = TRUE] >>,
           detours |-> {}, ipv6 |-> FALSE]

BothConfigs == [c \in {"wide", "narrow"} |-> IF c = "wide" THEN Wide ELSE Narrow]

Foreign(table, metric) ==
    [table |-> table, family |-> 4, iface |-> eth, gw |-> None, metric |-> metric, own |-> FALSE]

UserRoutes == {Foreign(9, 0), Foreign(5, 7)}

EthSubnet == {<<eth, gateway>>}

(* The network is complete at first; AddressesChange takes from it.        *)
MCInit == Init /\ onlink = Subnets /\ v6 = V6Interfaces

MCSpec == MCInit /\ [][Next]_vars
==============================================================================
