----------------------------- MODULE MCResolver -----------------------------
(***************************************************************************)
(* Two configurations, two versions of the lists and of the router's DNS   *)
(* proxy: an apply to the other configuration and back, or a stop and a    *)
(* start, with an outside event between any two steps: a restart of        *)
(* dnsmasq by the system, the daemon's shutdown or death, a failure or a   *)
(* timeout; under the hooks without a state file one operation with an     *)
(* outside event, two without, or two outside events.                      *)
(* The generator is given two lists of up to three domains, rules that are *)
(* on or off, static and Keenetic servers.                                 *)
(***************************************************************************)
EXTENDS ResolverReload, DnsmasqGen

Domain(n, k, w) == [name |-> n, len |-> k, wild |-> w]
Contents == {<<>>, <<Domain("a", 1, TRUE)>>, <<Domain("a", 1, FALSE), Domain("b", 2, FALSE)>>,
             <<Domain("b", 2, FALSE), Domain("c", 4, FALSE), Domain("a", 1, FALSE)>>,
             <<Domain("a", 1, FALSE), Domain("b", 2, TRUE), Domain("a", 1, TRUE), Domain("d", 5, FALSE)>>}

Line(is, addr, scoped, secure) ==
    [is |-> is, addr |-> addr, valid |-> addr # "bad", v6 |-> FALSE, scoped |-> scoped,
     secure |-> secure, domain |-> Domain("h", 1, FALSE)]
Plain == <<Line("server", "p1", FALSE, FALSE)>>
Secure == <<Line("static", "s1", FALSE, FALSE), Line("server", "p1", FALSE, FALSE),
            Line("server", "e1", FALSE, TRUE), Line("server", "e2", FALSE, TRUE)>>
Scoped == <<[Line("server", "bad", FALSE, TRUE) EXCEPT !.v6 = TRUE], Line("server", "e1", TRUE, TRUE),
            Line("server", "p1", FALSE, FALSE), Line("static", "s1", FALSE, FALSE),
            [Line("static", "s1", FALSE, FALSE) EXCEPT !.domain = Domain("h", 1, TRUE)]>>
Unusable == <<Line("server", "e1", TRUE, FALSE)>>

Rule(e, l, s, b) == [enabled |-> e, lists |-> l, server |-> s, rebind |-> b]
RuleSets == {<<>>, <<Rule(TRUE, {"l1"}, "t1", FALSE)>>, <<Rule(TRUE, {"l1", "l2"}, "t2", TRUE)>>,
             <<Rule(FALSE, {"l1"}, "t1", TRUE), Rule(TRUE, {"l1"}, "t2", FALSE)>>,
             <<Rule(TRUE, {"l2"}, "t1", TRUE), Rule(TRUE, {"l2"}, "t2", FALSE)>>}
Route(e, l) == <<[enabled |-> e, lists |-> l]>>

AllInputs ==
    [ipv6 : BOOLEAN, probe : {"", "d1"},
     routes : {Route(TRUE, {}), Route(TRUE, {"l1"}), Route(FALSE, {"l2"})},
     rules : RuleSets, servers : {[t1 |-> "d1", t2 |-> "d2"]},
     fallback : {<<"t1">>}, proxy : {<<>>}, later : {<<>>},
     lists : {[l1 |-> c, l2 |-> <<Domain("a", 1, FALSE)>>] : c \in Contents}]
    \cup
    [ipv6 : {TRUE}, probe : {""}, routes : {Route(TRUE, {"l1", "l3"})},
     rules : RuleSets, servers : {[t1 |-> "d1", t2 |-> "keenetic"], [t1 |-> "d2", t2 |-> "d2"]},
     fallback : {<<>>, <<"t2">>, <<"t2", "t1">>},
     proxy : {Plain, Secure, Scoped, Unusable}, later : {Plain, Secure, Scoped},
     lists : {[l1 |-> <<Domain("b", 2, FALSE)>>, l2 |-> c] : c \in Contents}]
Order == <<"l1", "l2", "l3">>

-----------------------------------------------------------------------------
(* Whether the hook keeps a state file, operations, outside events and     *)
(* commands                                                                *)
Scenarios == {<<TRUE, 2, 1, 0>>, <<FALSE, 2, 0, 0>>, <<FALSE, 1, 1, 0>>, <<FALSE, 0, 2, 0>>,
              <<TRUE, 0, 0, 1>>}
Scenario == <<service.file, budget.ops, budget.faults, budget.commands>>

(* Either a generator is given an input, or the daemon is at work.         *)
MCInit ==
    /\ Init /\ Scenario \in Scenarios
    /\ given = {} \/ (budget.commands = 1 /\ given \in {{x} : x \in Inputs})
MCNext == given = {} /\ Next /\ UNCHANGED given
MCSpec == MCInit /\ [][MCNext]_<<vars, given>> /\ Fairness
=============================================================================
