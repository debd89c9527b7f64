---------------------------- MODULE RoutingProofs ----------------------------
(***************************************************************************)
(* What holds of the reconciliation of the routing for any configurations, *)
(* interfaces and numbers of link changes, faults and crashes.             *)
(***************************************************************************)
EXTENDS RoutingReconciler, Induction

(* The tables, routes and tags of a plan                                   *)
Tables == Nat \cup {SafeTableId(n) : n \in Nat}

RouteSet ==
    [table : Tables, family : Families, iface : Interfaces \cup {None},
     gw : Gateways \cup {None}, metric : Nat, own : BOOLEAN]

Plannable == {r \in RouteSet : r.own}

Groups == [weight : Int, outbounds : Seq(Nat)]

ConfigSet == [outbounds : Seq(Outbounds), detours : SUBSET Nat, ipv6 : BOOLEAN]

-------------------------------------------------------------------------------
(* The fields of a configuration and of an outbound.                       *)
LEMMA ConfigFacts ==
    ASSUME NEW c \in Names
    PROVE  /\ Configs[c].outbounds \in Seq(Outbounds)
           /\ ToSet(Configs[c].outbounds) \subseteq Outbounds
           /\ DOMAIN Configs[c].outbounds = 1 .. Len(Configs[c].outbounds)
<1>1. Configs[c] \in ConfigSet
  BY RoutingAssumption, Zenon DEF Names, ConfigSet
<1> DEFINE O == Outbounds
           s == Configs[c].outbounds
<1> HIDE DEF O
<1>2. s \in Seq(O)
  BY <1>1, Zenon DEF ConfigSet, O
<1> HIDE DEF s
<1>3. ToSet(s) \subseteq O /\ DOMAIN s = 1 .. Len(s)
  BY <1>2 DEF ToSet
<1> QED
  BY <1>2, <1>3, Zenon DEF s, O

(* The fields of an outbound.                                              *)
LEMMA OutboundFacts ==
    ASSUME NEW ob \in Outbounds
    PROVE  /\ ob.tag \in Nat /\ ob.table \in Nat /\ ob.iface \in Interfaces \cup {None}
           /\ ob.gw4 \in Gateways \cup {None} /\ ob.gw6 \in Gateways \cup {None}
           /\ ob.groups \in Seq(Groups)
  BY Zenon DEF Outbounds, Groups

(* What is in a sequence of a set is in a sequence of any larger one.      *)
LEMMA SeqMonotone ==
    ASSUME NEW A, NEW B, A \subseteq B, NEW s \in Seq(A)
    PROVE  s \in Seq(B)
  OBVIOUS

(* The outbounds of a configuration, by tag.                               *)
LEMMA OutboundOfFacts ==
    ASSUME NEW cfg, NEW tag \in Tags(cfg)
    PROVE  OutboundOf(cfg, tag) \in ToSet(cfg.outbounds) /\ OutboundOf(cfg, tag).tag = tag
<1>1. PICK i \in DOMAIN cfg.outbounds : tag = cfg.outbounds[i].tag
  BY Zenon DEF Tags
<1>2. cfg.outbounds[i] \in ToSet(cfg.outbounds)
  BY Zenon DEF ToSet
<1> QED
  BY <1>1, <1>2, Zenon DEF OutboundOf

(* The loop of populate_routing_state() visits the routable outbounds.     *)
LEMMA RoutableFacts ==
    ASSUME NEW c \in Names
    PROVE  /\ RoutableOutbounds(Configs[c]) \in Seq(Outbounds)
           /\ ToSet(RoutableOutbounds(Configs[c])) =
                  {ob \in ToSet(Configs[c].outbounds) : Routable(ob)}
<1> DEFINE obs == Configs[c].outbounds
           R == {p \in (DOMAIN obs) \X (DOMAIN obs) : Earlier(obs[p[1]], obs[p[2]])}
           S == {ob \in ToSet(obs) : Routable(ob)}
           O == Outbounds
<1>1. RoutableOutbounds(Configs[c]) = Keep(Arranged(obs, R), S)
  BY Zenon DEF RoutableOutbounds
<1>2. obs \in Seq(O)
  BY ConfigFacts, Zenon
<1>3. S \subseteq ToSet(obs)
  BY Zenon
<1> HIDE DEF obs, R, S, O
<1>4. Arranged(obs, R) \in Seq(O) /\ ToSet(Arranged(obs, R)) = ToSet(obs)
  BY <1>2, ArrangedFacts, Zenon
<1>5. Keep(Arranged(obs, R), S) \in Seq(O) /\ ToSet(Keep(Arranged(obs, R), S)) = ToSet(obs) \cap S
  BY <1>4, KeepFacts
<1>6. ToSet(obs) \cap S = S
  BY <1>3, Zenon
<1> QED
  BY <1>1, <1>5, <1>6, Zenon DEF S, O, obs

(* One route of the plan.                                                  *)
LEMMA RouteFacts ==
    ASSUME NEW ob \in Outbounds, NEW table \in Tables, NEW family \in Families, NEW metric \in Nat
    PROVE  /\ RouteVia(table, ob, family, metric) \in Plannable
           /\ Unreachable(table, family, metric) \in Plannable
<1>1. RouteVia(table, ob, family, metric) \in Plannable
  BY OutboundFacts, Zenon DEF RouteVia, Plannable, RouteSet
<1>2. Unreachable(table, family, metric) \in Plannable
  BY Zenon DEF Unreachable, Plannable, RouteSet
<1> QED
  BY <1>1, <1>2, Zenon

(* The routes of an interface.                                             *)
LEMMA InterfaceRoutesType ==
    ASSUME NEW ob \in Outbounds, NEW table \in Tables, NEW net, NEW metric \in Nat, NEW closure \in Nat
    PROVE  InterfaceRoutes(table, ob, net, metric, closure) \in Seq(Plannable)
<1> DEFINE A == {f \in Families : Carries(ob, f, net)}
           B == {f \in Families : ~Carries(ob, f, net)}
           both == <<4, 6>>
           via == Keep(both, A)
           not == Keep(both, B)
           s == [i \in DOMAIN via |-> RouteVia(table, ob, via[i], metric)]
           t == [i \in DOMAIN not |-> Unreachable(table, not[i], closure)]
           P == Plannable
<1>1. InterfaceRoutes(table, ob, net, metric, closure) = s \o t
  BY Zenon DEF InterfaceRoutes
<1>2. both \in Seq(Families)
  BY DEF Families
<1> HIDE DEF A, B, both
<1>3. via \in Seq(Families) /\ not \in Seq(Families)
  BY <1>2, KeepFacts, Zenon
<1> HIDE DEF via, not
<1>4. \A q \in Seq(Families) : Len(q) \in Nat /\ DOMAIN q = 1 .. Len(q) /\ \A i \in DOMAIN q : q[i] \in Families
  OBVIOUS
<1>5. s \in [1 .. Len(via) -> P] /\ t \in [1 .. Len(not) -> P]
  BY <1>3, <1>4, RouteFacts, Zenon
<1> HIDE DEF s, t, P
<1>6. s \in Seq(P) /\ t \in Seq(P)
  BY <1>3, <1>4, <1>5, SeqOf, Zenon
<1>7. s \o t \in Seq(P)
  BY <1>6
<1> QED
  BY <1>1, <1>7, Zenon DEF P

(* The children of a urltest.                                              *)
LEMMA ChildrenFacts ==
    ASSUME NEW c \in Names, NEW ob \in Outbounds
    PROVE  OrderedChildren(Configs[c], ob) \in Seq(Outbounds)
<1> DEFINE cfg == Configs[c]
           gs == ob.groups
           R == {p \in (DOMAIN gs) \X (DOMAIN gs) : gs[p[1]].weight < gs[p[2]].weight}
           order == Arranged(gs, R)
           ss == [k \in DOMAIN order |-> order[k].outbounds]
           tags == Keep(FlattenSeq(ss), Tags(cfg))
           G == Groups
           O == Outbounds
<1>1. OrderedChildren(cfg, ob) = [k \in DOMAIN tags |-> OutboundOf(cfg, tags[k])]
  BY Zenon DEF OrderedChildren
<1>2. gs \in Seq(G)
  BY OutboundFacts, Zenon
<1>3. \A g \in G : g.outbounds \in Seq(Nat)
  BY Zenon DEF Groups
<1> HIDE DEF gs, R, G
<1>4. order \in Seq(G)
  BY <1>2, ArrangedFacts, Zenon
<1> HIDE DEF order
<1>5. Len(order) \in Nat /\ DOMAIN order = 1 .. Len(order) /\ \A k \in DOMAIN order : order[k] \in G
  BY <1>4
<1> DEFINE Q == Seq(Nat)
<1>6. ss \in [1 .. Len(order) -> Q]
  BY <1>3, <1>5, Zenon
<1>7. ss \in Seq(Q)
  <2> HIDE DEF ss, Q
  <2> QED
    BY <1>5, <1>6
<1> HIDE DEF ss
<1>8. FlattenSeq(ss) \in Seq(Nat)
  BY <1>7, FlattenFacts, Zenon
<1>9. tags \in Seq(Nat) /\ ToSet(tags) \subseteq Tags(cfg)
  <2>1. tags \in Seq(Nat) /\ ToSet(tags) = ToSet(FlattenSeq(ss)) \cap Tags(cfg)
    BY <1>8, KeepFacts, Zenon
  <2> QED
    BY <2>1, Zenon
<1> HIDE DEF tags
<1>10. Len(tags) \in Nat /\ DOMAIN tags = 1 .. Len(tags)
  BY <1>9
<1>11. \A k \in DOMAIN tags : OutboundOf(cfg, tags[k]) \in O
  <2> TAKE k \in DOMAIN tags
  <2>1. tags[k] \in Tags(cfg)
    BY <1>9, Zenon DEF ToSet
  <2> QED
    BY <2>1, OutboundOfFacts, ConfigFacts, Zenon
<1> DEFINE children == [k \in DOMAIN tags |-> OutboundOf(cfg, tags[k])]
<1>12. children \in [1 .. Len(tags) -> O]
  BY <1>10, <1>11, Zenon
<1> HIDE DEF children, O
<1>13. children \in Seq(O)
  BY <1>10, <1>12
<1> QED
  BY <1>1, <1>13, Zenon DEF children, O

(* The routes of a urltest's table.                                        *)
LEMMA CandidateRoutesType ==
    ASSUME NEW c \in Names, NEW ob \in Outbounds, NEW table \in Tables, NEW selected, NEW net
    PROVE  CandidateRoutes(Configs[c], ob, table, selected, net) \in Seq(Plannable)
<1> DEFINE cfg == Configs[c]
           S == {o \in ToSet(cfg.outbounds) : o.type = "interface" /\ Reachable(o, net)}
           usable == Keep(OrderedChildren(cfg, ob), S)
           Up == /\ selected \in Tags(cfg)
                 /\ OutboundOf(cfg, selected).type = "interface"
                 /\ Reachable(OutboundOf(cfg, selected), net)
           first == IF Up
                    THEN InterfaceRoutes(table, OutboundOf(cfg, selected), net, 0, UnreachableMetric)
                    ELSE <<>>
           ss == [k \in DOMAIN usable |-> InterfaceRoutes(table, usable[k], net, k, k)]
           P == Plannable
           O == Outbounds
           all == CandidateRoutes(cfg, ob, table, selected, net)
<1>1. all = IF selected = None THEN <<>> ELSE first \o FlattenSeq(ss)
  BY Zenon DEF CandidateRoutes
<1> HIDE DEF all
<1>2. first \in Seq(P)
  <2>1. CASE Up
    <3>1. OutboundOf(cfg, selected) \in Outbounds
      BY <2>1, OutboundOfFacts, ConfigFacts, Zenon
    <3>2. 0 \in Nat /\ UnreachableMetric \in Nat
      BY DEF UnreachableMetric
    <3>3. first = InterfaceRoutes(table, OutboundOf(cfg, selected), net, 0, UnreachableMetric)
      BY <2>1, Zenon
    <3> QED
      BY <3>1, <3>2, <3>3, InterfaceRoutesType, Zenon
  <2>2. CASE ~Up
    <3>1. first = <<>>
      BY <2>2, Zenon
    <3> HIDE DEF P, first
    <3> QED
      BY <3>1
  <2> QED
    BY <2>1, <2>2, Zenon
<1> HIDE DEF first, S
<1>3. OrderedChildren(cfg, ob) \in Seq(O)
  BY ChildrenFacts, Zenon
<1> HIDE DEF O
<1>4. usable \in Seq(O)
  BY <1>3, KeepFacts, Zenon
<1>5. Len(usable) \in Nat /\ DOMAIN usable = 1 .. Len(usable) /\ \A k \in DOMAIN usable : usable[k] \in O
  BY <1>4, SeqFacts, Zenon
<1> HIDE DEF usable
<1> DEFINE Q == Seq(P)
<1>6. ss \in [1 .. Len(usable) -> Q]
  <2>1. \A k \in DOMAIN usable : k \in Nat
    BY <1>5
  <2> QED
    BY <2>1, <1>5, InterfaceRoutesType, Zenon DEF O
<1> HIDE DEF Q, ss
<1>7. ss \in Seq(Q)
  BY <1>5, <1>6, SeqOf, Zenon
<1> HIDE DEF P
<1>8. FlattenSeq(ss) \in Seq(P)
  BY <1>7, FlattenFacts, Zenon DEF Q
<1>9. first \o FlattenSeq(ss) \in Seq(P) /\ <<>> \in Seq(P)
  BY <1>2, <1>8
<1> QED
  BY <1>1, <1>9, Zenon DEF P, all

(* The routes of an outbound.                                              *)
LEMMA RoutesOfType ==
    ASSUME NEW c \in Names, NEW ob \in Outbounds, NEW table \in Tables, NEW sel, NEW net
    PROVE  RoutesOf(Configs[c], ob, table, sel, net) \in Seq(Plannable)
<1> DEFINE candidates == CandidateRoutes(Configs[c], ob, table, sel[ob.tag], net)
           P == Plannable
<1>1. candidates \in Seq(P)
  BY CandidateRoutesType, Zenon
<1>2. InterfaceRoutes(table, ob, net, 0, UnreachableMetric) \in Seq(P)
  <2>1. 0 \in Nat /\ UnreachableMetric \in Nat
    BY DEF UnreachableMetric
  <2> QED
    BY <2>1, InterfaceRoutesType, Zenon
<1>3. UnreachableRoutes(table) \in Seq(P)
  <2>1. UnreachableMetric \in Nat /\ 4 \in Families /\ 6 \in Families
    BY DEF UnreachableMetric, Families
  <2> DEFINE a == Unreachable(table, 4, UnreachableMetric)
             b == Unreachable(table, 6, UnreachableMetric)
  <2>2. a \in P /\ b \in P
    BY <2>1, RouteFacts, Zenon
  <2>3. UnreachableRoutes(table) = <<a, b>>
    BY Zenon DEF UnreachableRoutes
  <2> HIDE DEF a, b, P
  <2> QED
    BY <2>2, <2>3
<1> DEFINE all == RoutesOf(Configs[c], ob, table, sel, net)
<1>4. \/ all = InterfaceRoutes(table, ob, net, 0, UnreachableMetric)
      \/ all = UnreachableRoutes(table)
      \/ all = candidates
      \/ all = <<>>
  <2> HIDE DEF candidates
  <2>1. all = CASE ob.type = "interface" /\ Reachable(ob, net) ->
                       InterfaceRoutes(table, ob, net, 0, UnreachableMetric)
                [] ob.type = "interface" /\ ~Reachable(ob, net) /\ ob.strict -> UnreachableRoutes(table)
                [] ob.type = "urltest" /\ candidates # <<>> -> candidates
                [] ob.type = "urltest" /\ candidates = <<>> -> UnreachableRoutes(table)
                [] OTHER -> <<>>
    BY Zenon DEF RoutesOf, candidates
  <2> HIDE DEF all
  <2> QED
    BY <2>1, Zenon
<1>5. <<>> \in Seq(P)
  <2> HIDE DEF P
  <2> QED
    OBVIOUS
<1> QED
  BY <1>1, <1>2, <1>3, <1>4, <1>5, Zenon

(* The tables of the plan.                                                 *)
LEMMA TableOfType ==
    ASSUME NEW ob \in Outbounds, NEW i \in Nat \ {0}
    PROVE  TableOf(ob, i) \in Tables
<1>1. i - 1 \in Nat
  OBVIOUS
<1> QED
  BY <1>1, OutboundFacts, Zenon DEF TableOf, Tables

(* The planned routes.                                                     *)
LEMMA PlannedRoutesType ==
    ASSUME NEW c \in Names, NEW sel, NEW net
    PROVE  PlannedRoutes(Configs[c], sel, net) \in Seq(Plannable)
<1> DEFINE cfg == Configs[c]
           obs == RoutableOutbounds(cfg)
           ss == [i \in DOMAIN obs |-> RoutesOf(cfg, obs[i], TableOf(obs[i], i), sel, net)]
           all == FlattenSeq(ss)
           S == {r \in ToSet(all) : cfg.ipv6 \/ r.family = 4}
           P == Plannable
           Q == Seq(P)
<1>1. PlannedRoutes(cfg, sel, net) = Keep(all, S)
  BY Zenon DEF PlannedRoutes
<1>2. obs \in Seq(Outbounds)
  BY RoutableFacts, Zenon
<1>3. Len(obs) \in Nat /\ DOMAIN obs = 1 .. Len(obs) /\ \A i \in DOMAIN obs : obs[i] \in Outbounds
  BY <1>2, SeqFacts, Zenon
<1>4. \A i \in DOMAIN obs : i \in Nat \ {0}
  BY <1>3
<1> HIDE DEF obs
<1>5. ss \in [1 .. Len(obs) -> Q]
  BY <1>3, <1>4, TableOfType, RoutesOfType, Zenon
<1> HIDE DEF ss, Q
<1>6. ss \in Seq(Q)
  BY <1>3, <1>5, SeqOf, Zenon
<1> HIDE DEF P, S
<1>7. all \in Seq(P)
  BY <1>6, FlattenFacts, Zenon DEF Q
<1> HIDE DEF all
<1>8. Keep(all, S) \in Seq(P)
  BY <1>7, KeepFacts, Zenon
<1> QED
  BY <1>1, <1>8, Zenon DEF P

-------------------------------------------------------------------------------
(* What the kernel makes of a route: it differs in the metric at most, and *)
(* is filed once.                                                          *)
LEMMA StoredFacts ==
    ASSUME NEW r \in RouteSet
    PROVE  /\ Stored(r) \in RouteSet
           /\ Stored(Stored(r)) = Stored(r)
           /\ Stored(r).table = r.table /\ Stored(r).family = r.family
           /\ Stored(r).iface = r.iface /\ Stored(r).own = r.own
<1> DEFINE m == IF r.family = 6 /\ r.metric = 0 THEN Ipv6Metric ELSE r.metric
           q == [r EXCEPT !.metric = m]
<1>1. Stored(r) = q /\ m \in Nat
  BY DEF Stored, RouteSet, Ipv6Metric
<1>2. /\ q \in RouteSet /\ q.metric = m
      /\ q.table = r.table /\ q.family = r.family /\ q.iface = r.iface /\ q.own = r.own
  <2> HIDE DEF m
  <2> QED
    BY <1>1, Zenon DEF RouteSet
<1>3. ~(q.family = 6 /\ q.metric = 0)
  BY <1>2 DEF Ipv6Metric
<1> HIDE DEF q
<1>4. Stored(q) = q
  BY <1>2, <1>3, Zenon DEF Stored, RouteSet
<1> QED
  BY <1>1, <1>2, <1>4, Zenon

-------------------------------------------------------------------------------
(* A sequence, of whatever                                                 *)
IsSeq(s) == s \in Seq(ToSet(s))

(* Sequences behind one another are a sequence.                            *)
LEMMA IsSeqConcat ==
    ASSUME NEW s, IsSeq(s), NEW t, IsSeq(t)
    PROVE  IsSeq(s \o t) /\ ToSet(s \o t) = ToSet(s) \cup ToSet(t)
<1> DEFINE A == ToSet(s)
           B == ToSet(t)
           X == A \cup B
<1>1. s \in Seq(A) /\ t \in Seq(B) /\ A \subseteq X /\ B \subseteq X
  BY Zenon DEF IsSeq
<1> HIDE DEF A, B, X
<1>2. s \in Seq(X) /\ t \in Seq(X)
  BY <1>1, SeqMonotone, Zenon
<1>3. s \o t \in Seq(X) /\ ToSet(s \o t) = ToSet(s) \cup ToSet(t)
  BY <1>2, ToSetConcat
<1>4. ToSet(s \o t) = X
  BY <1>3, Zenon DEF X, A, B
<1>5. s \o t \in Seq(ToSet(s \o t))
  BY <1>3, <1>4, Zenon
<1> QED
  BY <1>3, <1>5, Zenon DEF IsSeq

(* The concatenation of sequences is a sequence.                           *)
LEMMA IsSeqFlatten ==
    ASSUME NEW N \in Nat, NEW ss, ss = [i \in 1 .. N |-> ss[i]], \A i \in 1 .. N : IsSeq(ss[i])
    PROVE  IsSeq(FlattenSeq(ss)) /\ ToSet(FlattenSeq(ss)) = UNION {ToSet(ss[i]) : i \in 1 .. N}
<1> DEFINE X == UNION {ToSet(ss[i]) : i \in 1 .. N}
           Q == Seq(X)
<1>1. ASSUME NEW i \in 1 .. N
      PROVE  ss[i] \in Q
  <2> DEFINE A == ToSet(ss[i])
             t == ss[i]
  <2>1. A \subseteq X
    BY Zenon
  <2>2. t \in Seq(A)
    BY Zenon DEF IsSeq
  <2> HIDE DEF A, X, t
  <2>3. t \in Seq(X)
    BY <2>1, <2>2, SeqMonotone, Zenon
  <2> QED
    BY <2>3, Zenon DEF t
<1> HIDE DEF Q
<1>2. ss \in [1 .. N -> Q] /\ DOMAIN ss = 1 .. N
  BY <1>1, Zenon
<1>3. ss \in Seq(Q)
  BY <1>2, SeqOf, Zenon
<1>4. /\ FlattenSeq(ss) \in Seq(X)
      /\ ToSet(FlattenSeq(ss)) = UNION {ToSet(ss[i]) : i \in DOMAIN ss}
  <2> HIDE DEF X
  <2> QED
    BY <1>3, FlattenFacts, Zenon DEF Q
<1>5. ToSet(FlattenSeq(ss)) = X
  BY <1>2, <1>4, Zenon
<1>6. FlattenSeq(ss) \in Seq(ToSet(FlattenSeq(ss)))
  <2> HIDE DEF X
  <2> QED
    BY <1>4, <1>5, Zenon
<1> QED
  BY <1>5, <1>6, Zenon DEF IsSeq

(* The rules of a mark: a guard refuses what the lookup did not send.      *)
LEMMA LookupAndGuardFacts ==
    ASSUME NEW mark, NEW table, NEW pair, NEW guarded
    PROVE  /\ IsSeq(LookupAndGuard(mark, table, pair, guarded))
           /\ guarded => \E x \in ToSet(LookupAndGuard(mark, table, pair, guarded)) :
                             x.mark = mark /\ x.action = "reject"
<1> DEFINE lookup == [mark |-> mark, mask |-> MarkMask, table |-> table,
                      prio |-> PriorityStart + 2 * pair, action |-> "lookup"]
           guard == [lookup EXCEPT !.table = 0, !.prio = @ + 1, !.action = "reject"]
           both == LookupAndGuard(mark, table, pair, guarded)
<1>1. both = IF guarded THEN <<lookup, guard>> ELSE <<lookup>>
  BY Zenon DEF LookupAndGuard
<1>2. guard.mark = mark /\ guard.action = "reject"
  OBVIOUS
<1> HIDE DEF lookup, guard, both
<1>3. CASE guarded
  <2>1. both = <<lookup, guard>>
    BY <1>1, <1>3, Zenon
  <2>2. IsSeq(both) /\ guard \in ToSet(both)
    BY <2>1 DEF IsSeq, ToSet
  <2> QED
    BY <2>2, <1>2, Zenon DEF both
<1>4. CASE ~guarded
  <2>1. both = <<lookup>>
    BY <1>1, <1>4, Zenon
  <2>2. IsSeq(both)
    BY <2>1 DEF IsSeq, ToSet
  <2> QED
    BY <2>2, <1>4, Zenon DEF both
<1> QED
  BY <1>3, <1>4, Zenon

(* The rules of an outbound guard its mark when it is guarded, and its     *)
(* internal mark when it is a detour.                                      *)
LEMMA RulesOfFacts ==
    ASSUME NEW cfg, NEW i
    PROVE  /\ IsSeq(RulesOf(cfg, i))
           /\ Guarded(RoutableOutbounds(cfg)[i]) =>
                  \E x \in ToSet(RulesOf(cfg, i)) :
                      x.mark = MarkOf(cfg, RoutableOutbounds(cfg)[i]) /\ x.action = "reject"
           /\ RoutableOutbounds(cfg)[i].tag \in cfg.detours =>
                  \E x \in ToSet(RulesOf(cfg, i)) :
                      x.mark = InternalMarkOf(cfg, RoutableOutbounds(cfg)[i]) /\ x.action = "reject"
<1> DEFINE ob == RoutableOutbounds(cfg)[i]
           pair == PairsBefore(cfg, i)
           a == LookupAndGuard(MarkOf(cfg, ob), TableOf(ob, i), pair, Guarded(ob))
           d == LookupAndGuard(InternalMarkOf(cfg, ob), TableOf(ob, i), pair + 1, TRUE)
           b == IF ob.tag \in cfg.detours THEN d ELSE <<>>
<1>1. RulesOf(cfg, i) = a \o b
  BY Zenon DEF RulesOf
<1>2. /\ IsSeq(a)
      /\ Guarded(ob) => \E x \in ToSet(a) : x.mark = MarkOf(cfg, ob) /\ x.action = "reject"
  <2> DEFINE g == Guarded(ob)
             mark == MarkOf(cfg, ob)
             t == TableOf(ob, i)
             all == LookupAndGuard(mark, t, pair, g)
  <2>1. a = all
    OBVIOUS
  <2> HIDE DEF g, mark, t, ob, pair
  <2>2. IsSeq(all) /\ (g => \E x \in ToSet(all) : x.mark = mark /\ x.action = "reject")
    BY LookupAndGuardFacts
  <2> QED
    BY <2>1, <2>2, Zenon DEF g, mark
<1>3. IsSeq(d) /\ \E x \in ToSet(d) : x.mark = InternalMarkOf(cfg, ob) /\ x.action = "reject"
  BY LookupAndGuardFacts, Zenon
<1> HIDE DEF ob, a, d
<1>4. IsSeq(b)
  <2>1. IsSeq(<<>>)
    BY DEF IsSeq, ToSet
  <2> QED
    BY <2>1, <1>3, Zenon
<1> HIDE DEF b
<1>5. IsSeq(a \o b) /\ ToSet(a \o b) = ToSet(a) \cup ToSet(b)
  BY <1>2, <1>4, IsSeqConcat, Zenon
<1>6. ob.tag \in cfg.detours => b = d
  BY Zenon DEF b
<1>7. Guarded(ob) => \E x \in ToSet(a \o b) : x.mark = MarkOf(cfg, ob) /\ x.action = "reject"
  BY <1>2, <1>5, Zenon
<1>8. ob.tag \in cfg.detours =>
          \E x \in ToSet(a \o b) : x.mark = InternalMarkOf(cfg, ob) /\ x.action = "reject"
  BY <1>3, <1>5, <1>6, Zenon
<1> QED
  BY <1>1, <1>5, <1>7, <1>8, Zenon DEF ob

(* A guard of the plan is there in each of the plan's families.            *)
LEMMA PlannedRulesFacts ==
    ASSUME NEW c \in Names
    PROVE  /\ IsSeq(PlannedRules(Configs[c]))
           /\ \A m \in GuardedMarks[c] : \E x \in ToSet(PlannedRules(Configs[c])) :
                  x.mark = m /\ x.action = "reject"
<1> DEFINE cfg == Configs[c]
           obs == RoutableOutbounds(cfg)
           ss == [i \in DOMAIN obs |-> RulesOf(cfg, i)]
           all == FlattenSeq(ss)
           N == Len(obs)
<1>1. PlannedRules(cfg) = all
  BY Zenon DEF PlannedRules
<1>2. obs \in Seq(Outbounds) /\ ToSet(obs) = {ob \in ToSet(cfg.outbounds) : Routable(ob)}
  BY RoutableFacts, Zenon
<1>3. N \in Nat /\ DOMAIN obs = 1 .. N
  BY <1>2, SeqFacts, Zenon
<1> HIDE DEF N
<1>4. ss = [i \in 1 .. N |-> ss[i]] /\ \A i \in 1 .. N : ss[i] = RulesOf(cfg, i)
  BY <1>3, Zenon
<1> HIDE DEF ss
<1>5. \A i \in 1 .. N : IsSeq(ss[i])
  BY <1>4, RulesOfFacts, Zenon
<1>6. IsSeq(all) /\ ToSet(all) = UNION {ToSet(ss[i]) : i \in 1 .. N}
  BY <1>3, <1>4, <1>5, IsSeqFlatten, Zenon
<1> HIDE DEF all
<1>7. ASSUME NEW m \in GuardedMarks[c]
      PROVE  \E x \in ToSet(all) : x.mark = m /\ x.action = "reject"
  <2>1. \E ob \in ToSet(obs) : \/ m = MarkOf(cfg, ob) /\ Guarded(ob)
                               \/ m = InternalMarkOf(cfg, ob) /\ ob.tag \in cfg.detours
    <3> DEFINE routable == {ob \in ToSet(Configs[c].outbounds) : Routable(ob)}
    <3>1. m \in {MarkOf(Configs[c], ob) : ob \in {o \in routable : Guarded(o)}}
              \cup {InternalMarkOf(Configs[c], ob) :
                       ob \in {o \in routable : o.tag \in Configs[c].detours}}
      BY Zenon DEF GuardedMarks
    <3>2. routable = ToSet(obs)
      BY <1>2, Zenon
    <3> HIDE DEF routable, obs
    <3> QED
      BY <3>1, <3>2, Zenon
  <2>2. PICK i \in DOMAIN obs : \/ m = MarkOf(cfg, obs[i]) /\ Guarded(obs[i])
                                \/ m = InternalMarkOf(cfg, obs[i]) /\ obs[i].tag \in cfg.detours
    BY <2>1, Zenon DEF ToSet
  <2>3. \E x \in ToSet(RulesOf(cfg, i)) : x.mark = m /\ x.action = "reject"
    <3>1. CASE m = MarkOf(cfg, obs[i]) /\ Guarded(obs[i])
      BY <3>1, RulesOfFacts, Zenon
    <3>2. CASE m = InternalMarkOf(cfg, obs[i]) /\ obs[i].tag \in cfg.detours
      BY <3>2, RulesOfFacts, Zenon
    <3> QED
      BY <2>2, <3>1, <3>2, Zenon
  <2> QED
    BY <2>3, <1>3, <1>4, <1>6, Zenon
<1> QED
  BY <1>1, <1>6, <1>7, Zenon

(* The rules a reconciliation plans are those of its configuration.        *)
LEMMA RulesWantedFacts ==
    ASSUME NEW c \in Names
    PROVE  /\ IsSeq(RulesWanted[c])
           /\ \A m \in GuardedMarks[c], f \in ToSet(RuleFamilies(Configs[c])) :
                  \E x \in ToSet(RulesWanted[c]) :
                      x.rule.mark = m /\ x.rule.action = "reject" /\ x.family = f
<1> DEFINE cfg == Configs[c]
           planned == PlannedRules(cfg)
           fs == RuleFamilies(cfg)
           Each(i) == [k \in DOMAIN fs |-> [rule |-> planned[i], family |-> fs[k]]]
           ss == [i \in DOMAIN planned |-> Each(i)]
           N == Len(planned)
           F == Len(fs)
<1>1. RulesWanted[c] = FlattenSeq(ss)
  BY Zenon DEF RulesWanted
<1>2. /\ IsSeq(planned)
      /\ \A m \in GuardedMarks[c] : \E x \in ToSet(planned) : x.mark = m /\ x.action = "reject"
  BY PlannedRulesFacts, Zenon
<1>3. F \in Nat /\ DOMAIN fs = 1 .. F
  <2>1. fs = <<4, 6>> \/ fs = <<4>>
    BY Zenon DEF RuleFamilies
  <2> HIDE DEF fs
  <2> QED
    BY <2>1
<1> HIDE DEF planned, fs
<1>4. N \in Nat /\ DOMAIN planned = 1 .. N
  BY <1>2, SeqFacts, Zenon DEF IsSeq
<1> HIDE DEF N, F
<1>5. ASSUME NEW i \in 1 .. N
      PROVE  IsSeq(Each(i)) /\ \A k \in DOMAIN fs : [rule |-> planned[i], family |-> fs[k]] \in ToSet(Each(i))
  <2> DEFINE e == Each(i)
             X == ToSet(e)
  <2>1. e = [k \in 1 .. F |-> [rule |-> planned[i], family |-> fs[k]]]
    BY <1>3, Zenon
  <2>2. \A k \in 1 .. F : e[k] \in X
    BY <2>1, Zenon DEF ToSet
  <2>3. e \in [1 .. F -> X]
    BY <2>1, <2>2, Zenon
  <2>4. e \in Seq(X)
    <3> HIDE DEF e, X
    <3> QED
      BY <2>3, <1>3, SeqOf, Zenon
  <2>5. \A k \in DOMAIN fs : [rule |-> planned[i], family |-> fs[k]] \in X
    BY <2>1, <2>2, <1>3, Zenon
  <2> QED
    BY <2>4, <2>5, Zenon DEF IsSeq
<1> HIDE DEF Each
<1>6. ss = [i \in 1 .. N |-> ss[i]] /\ \A i \in 1 .. N : ss[i] = Each(i)
  BY <1>4, Zenon
<1> HIDE DEF ss
<1>7. \A i \in 1 .. N : IsSeq(ss[i])
  BY <1>5, <1>6, Zenon
<1>8. IsSeq(RulesWanted[c]) /\ ToSet(RulesWanted[c]) = UNION {ToSet(ss[i]) : i \in 1 .. N}
  BY <1>1, <1>4, <1>6, <1>7, IsSeqFlatten, Zenon
<1>9. ASSUME NEW m \in GuardedMarks[c], NEW f \in ToSet(fs)
      PROVE  \E x \in ToSet(RulesWanted[c]) :
                 x.rule.mark = m /\ x.rule.action = "reject" /\ x.family = f
  <2>1. PICK i \in 1 .. N : planned[i].mark = m /\ planned[i].action = "reject"
    <3>1. PICK y \in ToSet(planned) : y.mark = m /\ y.action = "reject"
      BY <1>2, Zenon
    <3>2. PICK i \in DOMAIN planned : y = planned[i]
      BY Zenon DEF ToSet
    <3> QED
      BY <3>1, <3>2, <1>4, Zenon
  <2>2. PICK k \in DOMAIN fs : fs[k] = f
    BY Zenon DEF ToSet
  <2> DEFINE x == [rule |-> planned[i], family |-> fs[k]]
  <2>3. x \in ToSet(ss[i])
    BY <1>5, <1>6, Zenon
  <2>4. x \in ToSet(RulesWanted[c])
    BY <2>3, <1>8, Zenon
  <2>5. x.rule = planned[i] /\ x.family = f
    BY <2>2, Zenon
  <2> HIDE DEF x
  <2> QED
    BY <2>1, <2>4, <2>5, Zenon
<1>10. ToSet(RuleFamilies(Configs[c])) = ToSet(fs)
  BY Zenon DEF fs
<1> HIDE DEF cfg
<1> QED
  BY <1>8, <1>9, <1>10, Zenon

-------------------------------------------------------------------------------
(* The rules that any of the configurations plans                          *)
RuleSet == UNION {ToSet(RulesWanted[c]) : c \in Names}

KernelRoutes == {r \in RouteSet : Stored(r) = r}

Messages == [iface : Interfaces, up : BOOLEAN]

Causes == {"startup", "apply", "switch", "refresh"}

IdleTasks == [at : {"idle"}]
PlanTasks == [at : {"plan"}, cause : Causes]
DumpTasks == [at : {"dump"}, cause : Causes, routes : Seq(Plannable)]
AddTasks == [at : {"add"}, cause : Causes, routes : Seq(Plannable), next : Nat \ {0},
             seen : SUBSET RouteSet]
RuleTasks == [at : {"rules"}, cause : Causes, routes : Seq(Plannable), next : Nat \ {0},
              seen : SUBSET RuleSet]
FirewallTasks == [at : {"firewall"}, cause : Causes, routes : Seq(Plannable)]

TypeInv ==
    /\ config \in Names
    /\ up \subseteq Interfaces
    /\ routes \subseteq KernelRoutes
    /\ rules \subseteq RuleSet
    /\ messages \in Seq(Messages)
    /\ \/ task \in IdleTasks
       \/ task \in PlanTasks
       \/ task \in DumpTasks
       \/ task \in AddTasks
       \/ task \in RuleTasks
       \/ task \in FirewallTasks

(* A route is in the kernel, or its interface has changed since            *)
Arrived(r) == Stored(r) \in routes \/ \E k \in DOMAIN messages : messages[k].iface = r.iface

(* While routes are added, those passed have arrived and the pruning will  *)
(* not take them; those believed to be there are there, and are either the *)
(* kernel's or were passed.                                                *)
AddInv ==
    task.at = "add" =>
        /\ \A j \in DOMAIN task.routes :
               j < task.next => /\ Arrived(task.routes[j])
                                /\ Stored(task.routes[j]) \in Wanted \/ Stored(task.routes[j]) \notin task.seen
        /\ \A s \in task.seen :
               /\ Arrived(s)
               /\ Stored(s) = s \/ \E j \in DOMAIN task.routes : j < task.next /\ task.routes[j] = s

(* While rules are added, those passed are there, and stay.                *)
RuleInv ==
    task.at = "rules" =>
        \A j \in DOMAIN WantedRules : j < task.next => WantedRules[j] \in rules

RoutingInv == TypeInv /\ AddInv /\ RuleInv /\ RoutesBeforeRules

-------------------------------------------------------------------------------
(* The task at each of its stages.                                         *)
LEMMA TaskAt ==
    ASSUME TypeInv
    PROVE  /\ task.at = "plan" => task \in PlanTasks
           /\ task.at = "dump" => task \in DumpTasks
           /\ task.at = "add" => task \in AddTasks
           /\ task.at = "rules" => task \in RuleTasks
           /\ task.at = "firewall" => task \in FirewallTasks
<1> DEFINE P == Seq(Plannable)
           K == SUBSET RouteSet
           L == SUBSET RuleSet
<1>1. /\ DumpTasks = [at : {"dump"}, cause : Causes, routes : P]
      /\ AddTasks = [at : {"add"}, cause : Causes, routes : P, next : Nat \ {0}, seen : K]
      /\ RuleTasks = [at : {"rules"}, cause : Causes, routes : P, next : Nat \ {0}, seen : L]
      /\ FirewallTasks = [at : {"firewall"}, cause : Causes, routes : P]
  BY Zenon DEF DumpTasks, AddTasks, RuleTasks, FirewallTasks
<1>2. \/ task \in IdleTasks \/ task \in PlanTasks \/ task \in DumpTasks
      \/ task \in AddTasks \/ task \in RuleTasks \/ task \in FirewallTasks
  BY Zenon DEF TypeInv
<1> HIDE DEF P, K, L
<1> QED
  BY <1>1, <1>2, Zenon DEF IdleTasks, PlanTasks

(* A reconciliation that is over, or has not begun to add, owes nothing.   *)
LEMMA NothingOwed ==
    task.at \notin {"add", "rules", "firewall"} => AddInv /\ RuleInv /\ RoutesBeforeRules
  BY Zenon DEF AddInv, RuleInv, RoutesBeforeRules

(* An exception.                                                           *)
LEMMA ThrowKeeps ==
    ASSUME RoutingInv, Throw
    PROVE  RoutingInv'
<1>1. task' = Idle /\ UNCHANGED <<config, up, routes, rules, messages>>
  BY Zenon DEF Throw, unchangedByTask
<1>2. (task.at \notin {"add", "rules", "firewall"})' /\ task' \in IdleTasks
  BY <1>1, Zenon DEF Idle, IdleTasks
<1>3. AddInv' /\ RuleInv' /\ RoutesBeforeRules'
  BY <1>2, NothingOwed, PTL
<1> QED
  BY <1>1, <1>2, <1>3, Zenon DEF RoutingInv, TypeInv

(* The initial states: the routes of a user are all there is.              *)
LEMMA RoutingInit == Init => RoutingInv
<1> SUFFICES ASSUME Init PROVE RoutingInv
  OBVIOUS
<1>1. task \in PlanTasks /\ task.at \notin {"add", "rules", "firewall"}
  <2>1. task = [at |-> "plan", cause |-> "startup"]
    BY Zenon DEF Init
  <2> QED
    BY <2>1, Zenon DEF PlanTasks, Causes
<1>2. AddInv /\ RuleInv /\ RoutesBeforeRules
  BY <1>1, NothingOwed, Zenon
<1>3. ASSUME NEW r \in routes
      PROVE  r \in KernelRoutes
  <2>1. r \in ForeignRoutes
    BY Zenon DEF Init
  <2>2. /\ r \in [table : Nat, family : Families, iface : Interfaces, gw : Gateways \cup {None},
                  metric : Nat, own : {FALSE}]
        /\ Stored(r) = r
    BY <2>1, RoutingAssumption, Zenon
  <2>3. r \in RouteSet
    BY <2>2, Zenon DEF RouteSet, Tables
  <2> QED
    BY <2>2, <2>3, Zenon DEF KernelRoutes
<1>4. messages \in Seq(Messages)
  BY DEF Init
<1>5. config \in Names /\ up \subseteq Interfaces /\ rules \subseteq RuleSet
  BY Zenon DEF Init
<1> QED
  BY <1>1, <1>2, <1>3, <1>4, <1>5, Zenon DEF RoutingInv, TypeInv

-------------------------------------------------------------------------------
(* What is in the kernel, or was reported, stays so when a link changes.   *)
LEMMA LinkKeeps ==
    ASSUME RoutingInv, NEW i \in Interfaces, LinkDown(i) \/ LinkUp(i)
    PROVE  RoutingInv'
<1>1. PICK b \in BOOLEAN : messages' = Append(messages, [iface |-> i, up |-> b])
  BY Zenon DEF LinkDown, LinkUp
<1>2. UNCHANGED <<config, task, rules>>
  BY Zenon DEF LinkDown, LinkUp
<1>3. up' \subseteq Interfaces
  BY Zenon DEF LinkDown, LinkUp, RoutingInv, TypeInv
<1>4. routes' \subseteq routes /\ \A r \in routes : r.iface # i => r \in routes'
  BY Zenon DEF LinkDown, LinkUp
<1> DEFINE m == [iface |-> i, up |-> b]
           M == Messages
<1>5. m \in M /\ m.iface = i
  BY Zenon DEF Messages
<1>6. messages \in Seq(M)
  BY Zenon DEF RoutingInv, TypeInv
<1> HIDE DEF m, M
<1>7. /\ messages' \in Seq(M)
      /\ \A k \in DOMAIN messages : k \in DOMAIN messages' /\ messages'[k] = messages[k]
      /\ \E k \in DOMAIN messages' : messages'[k] = m
  <2>1. messages' = Append(messages, m)
    BY <1>1, Zenon DEF m
  <2>2. Len(messages) + 1 \in DOMAIN messages' /\ messages'[Len(messages) + 1] = m
    BY <2>1, <1>5, <1>6
  <2> QED
    BY <2>1, <2>2, <1>5, <1>6
<1>8. TypeInv'
  BY <1>2, <1>3, <1>4, <1>7, Zenon DEF TypeInv, RoutingInv, M
<1>9. ASSUME NEW r \in RouteSet, Arrived(r)
      PROVE  Arrived(r)'
  <2>1. CASE r.iface = i
    BY <2>1, <1>5, <1>7, Zenon DEF Arrived
  <2>2. CASE r.iface # i
    <3>1. Stored(r).iface # i
      BY <2>2, StoredFacts, Zenon
    <3> QED
      BY <3>1, <1>4, <1>7, <1>9, Zenon DEF Arrived
  <2> QED
    BY <2>1, <2>2, Zenon
<1>10. AddInv'
  <2> SUFFICES ASSUME task.at = "add" PROVE AddInv'
    BY <1>2, Zenon DEF AddInv
  <2>1. task \in AddTasks
    BY TaskAt, Zenon DEF RoutingInv
  <2>2. task.seen \subseteq RouteSet /\ \A j \in DOMAIN task.routes : task.routes[j] \in RouteSet
    <3> DEFINE P == Plannable
    <3>1. task.routes \in Seq(P) /\ task.seen \subseteq RouteSet
      BY <2>1, Zenon DEF AddTasks
    <3>2. \A j \in DOMAIN task.routes : task.routes[j] \in P
      BY <3>1, SeqFacts, Zenon
    <3> QED
      BY <3>1, <3>2, Zenon DEF Plannable
  <2> QED
    BY <2>2, <1>2, <1>9, Zenon DEF AddInv, RoutingInv, Wanted
<1>11. RuleInv'
  BY <1>2, Zenon DEF RuleInv, RoutingInv, WantedRules
<1>12. RoutesBeforeRules'
  <2> SUFFICES ASSUME task.at \in {"rules", "firewall"}, NEW r \in Wanted
               PROVE  Arrived(r)'
    BY <1>2, Zenon DEF RoutesBeforeRules, Arrived, Wanted
  <2>1. Arrived(r)
    BY Zenon DEF RoutesBeforeRules, Arrived, RoutingInv
  <2>2. r \in RouteSet
    <3> DEFINE P == Plannable
    <3>1. task.routes \in Seq(P)
      BY TaskAt, Zenon DEF RoutingInv, RuleTasks, FirewallTasks
    <3>2. r \in P
      <4>1. PICK j \in DOMAIN task.routes : r = task.routes[j]
        BY Zenon DEF Wanted, ToSet
      <4> QED
        BY <3>1, <4>1, SeqFacts, Zenon
    <3> QED
      BY <3>2, Zenon DEF Plannable
  <2> QED
    BY <2>1, <2>2, <1>9, Zenon
<1> QED
  BY <1>8, <1>10, <1>11, <1>12, Zenon DEF RoutingInv

(* The routes of a task that adds routes.                                  *)
LEMMA AddFacts ==
    ASSUME TypeInv, task.at = "add"
    PROVE  /\ task \in AddTasks /\ task.next \in Nat \ {0}
           /\ Len(task.routes) \in Nat /\ DOMAIN task.routes = 1 .. Len(task.routes)
           /\ \A j \in DOMAIN task.routes : task.routes[j] \in Plannable /\ task.routes[j] \in RouteSet
           /\ Wanted = {task.routes[j] : j \in DOMAIN task.routes}
           /\ task.seen \subseteq RouteSet
<1> DEFINE P == Plannable
<1>1. task \in AddTasks
  BY TaskAt, Zenon
<1>2. task.routes \in Seq(P) /\ task.next \in Nat \ {0} /\ task.seen \subseteq RouteSet
  BY <1>1, Zenon DEF AddTasks
<1>3. /\ Len(task.routes) \in Nat /\ DOMAIN task.routes = 1 .. Len(task.routes)
      /\ \A j \in DOMAIN task.routes : task.routes[j] \in P
  BY <1>2, SeqFacts, Zenon
<1>4. \A r \in P : r \in RouteSet
  BY Zenon DEF Plannable
<1>5. Wanted = {task.routes[j] : j \in DOMAIN task.routes}
  BY Zenon DEF Wanted, ToSet
<1> QED
  BY <1>1, <1>2, <1>3, <1>4, <1>5, Zenon

(* A route that was read and is not planned is deleted: no planned one     *)
(* goes with it.                                                           *)
LEMMA DeleteKeeps ==
    ASSUME RoutingInv, task.at = "add", NEW d \in task.seen, d \notin Wanted, DeleteRoute(d)
    PROVE  RoutingInv'
<1>1. CASE d \notin routes
  BY <1>1, ThrowKeeps, Zenon DEF DeleteRoute
<1>2. CASE d \in routes
  <2>1. /\ routes' = routes \ {d} /\ task' = [task EXCEPT !.seen = @ \ {d}]
        /\ UNCHANGED <<config, up, rules, messages>>
    BY <1>2, Zenon DEF DeleteRoute, unchangedByTask
  <2>2. /\ task \in AddTasks /\ task.next \in Nat \ {0}
        /\ \A j \in DOMAIN task.routes : task.routes[j] \in RouteSet
        /\ Wanted = {task.routes[j] : j \in DOMAIN task.routes}
        /\ task.seen \subseteq RouteSet
    BY AddFacts, Zenon DEF RoutingInv
  <2>3. /\ task' \in AddTasks /\ task'.at = "add" /\ task'.routes = task.routes
        /\ task'.next = task.next /\ task'.seen = task.seen \ {d}
    <3> DEFINE P == Seq(Plannable)
               K == SUBSET RouteSet
               T == [at : {"add"}, cause : Causes, routes : P, next : Nat \ {0}, seen : K]
    <3>1. task \in T /\ \A q \in K : q \ {d} \in K
      BY <2>2, Zenon DEF AddTasks
    <3> HIDE DEF P, K
    <3>2. /\ task' \in T /\ task'.at = "add" /\ task'.routes = task.routes
          /\ task'.next = task.next /\ task'.seen = task.seen \ {d}
      BY <2>1, <3>1, Zenon
    <3> QED
      BY <3>2, Zenon DEF AddTasks, P, K
  <2>4. TypeInv'
    BY <2>1, <2>3, Zenon DEF TypeInv, RoutingInv
  <2>5. RuleInv' /\ RoutesBeforeRules'
    BY <2>3, Zenon DEF RuleInv, RoutesBeforeRules
  <2>6. Wanted' = Wanted
    BY <2>3, Zenon DEF Wanted
  <2>7. ASSUME NEW j \in DOMAIN task.routes, j < task.next
        PROVE  Arrived(task.routes[j])' /\ Stored(task.routes[j]) # d
    <3>1. task.routes[j] \in Wanted
      BY <2>2, Zenon
    <3>2. /\ Arrived(task.routes[j])
          /\ Stored(task.routes[j]) \in Wanted \/ Stored(task.routes[j]) \notin task.seen
      BY <2>7, Zenon DEF AddInv, RoutingInv
    <3>3. Stored(task.routes[j]) # d
      BY <3>2, Zenon
    <3> QED
      BY <3>2, <3>3, <2>1, <2>3 DEF Arrived
  <2>8. ASSUME NEW s \in task'.seen
        PROVE  Arrived(s)' /\ (Stored(s) = s \/ \E j \in DOMAIN task.routes : j < task.next /\ task.routes[j] = s)
    <3>1. s \in task.seen /\ s # d
      BY <2>3, Zenon
    <3>2. Arrived(s) /\ (Stored(s) = s \/ \E j \in DOMAIN task.routes : j < task.next /\ task.routes[j] = s)
      BY <3>1, Zenon DEF AddInv, RoutingInv
    <3>3. Stored(s) # d
      BY <3>1, <3>2, <2>7, Zenon
    <3>4. Arrived(s)'
      BY <3>2, <3>3, <2>1, Zenon DEF Arrived
    <3> QED
      BY <3>2, <3>4, Zenon
  <2>9. AddInv'
    BY <2>3, <2>6, <2>7, <2>8, Zenon DEF AddInv, RoutingInv
  <2> QED
    BY <2>4, <2>5, <2>9, Zenon DEF RoutingInv
<1> QED
  BY <1>1, <1>2, Zenon

(* A planned route is inserted: nothing read with its table and family is  *)
(* left to be pruned.                                                      *)
LEMMA InsertKeeps ==
    ASSUME RoutingInv, task.at = "add", task.next <= Len(task.routes),
           task.routes[task.next] \notin task.seen,
           \A s \in task.seen : s.own /\ SameKey(task.routes[task.next], s) => s \in Wanted,
           InsertRoute(task.routes[task.next])
    PROVE  RoutingInv'
<1>0. PICK r : r = task.routes[task.next]
  OBVIOUS
<1> DEFINE seen == IF r \in routes THEN task.seen ELSE task.seen \cup {r}
           Refused == \/ r.iface # None /\ r.iface \notin up
                      \/ r.gw # None /\ <<r.iface, r.gw>> \notin onlink
                      \/ \E s \in routes : SameKey(r, s) /\ s.metric = Stored(r).metric /\ s # r
<1>1. CASE Refused
  BY <1>0, <1>1, ThrowKeeps, Zenon DEF InsertRoute
<1>2. CASE ~Refused
  <2>1. /\ routes' = routes \cup {Stored(r)}
        /\ task' = [task EXCEPT !.next = @ + 1, !.seen = seen]
        /\ UNCHANGED <<config, up, rules, messages>>
    <3>1. /\ routes' = routes \cup {Stored(r)}
          /\ task' = [task EXCEPT !.next = @ + 1, !.seen = IF r \in routes THEN @ ELSE @ \cup {r}]
          /\ UNCHANGED unchangedByTask /\ UNCHANGED rules
      BY <1>0, <1>2, Zenon DEF InsertRoute
    <3> QED
      BY <3>1, Zenon DEF unchangedByTask
  <2>2. /\ task \in AddTasks /\ task.next \in Nat \ {0}
        /\ Len(task.routes) \in Nat /\ DOMAIN task.routes = 1 .. Len(task.routes)
        /\ \A j \in DOMAIN task.routes : task.routes[j] \in Plannable /\ task.routes[j] \in RouteSet
        /\ Wanted = {task.routes[j] : j \in DOMAIN task.routes}
        /\ task.seen \subseteq RouteSet
    BY AddFacts, Zenon DEF RoutingInv
  <2>3. task.next \in DOMAIN task.routes /\ task.next + 1 \in Nat \ {0}
    BY <2>2
  <2>4. r \in Plannable /\ r \in RouteSet /\ r \in Wanted /\ r.own
    BY <1>0, <2>2, <2>3, Zenon DEF Plannable
  <2>5. /\ Stored(r) \in RouteSet /\ Stored(Stored(r)) = Stored(r) /\ Stored(r).own
        /\ SameKey(r, Stored(r))
    BY <2>4, StoredFacts, Zenon DEF SameKey
  <2>6. task.seen \subseteq seen /\ seen \subseteq task.seen \cup {r} /\ seen \subseteq RouteSet
    BY <2>2, <2>4, Zenon
  <2> HIDE DEF seen
  <2>7. /\ task' \in AddTasks /\ task'.at = "add" /\ task'.routes = task.routes
        /\ task'.next = task.next + 1 /\ task'.seen = seen
    <3> DEFINE P == Seq(Plannable)
               K == SUBSET RouteSet
               T == [at : {"add"}, cause : Causes, routes : P, next : Nat \ {0}, seen : K]
    <3>1. task \in T /\ seen \in K
      BY <2>2, <2>6, Zenon DEF AddTasks
    <3> HIDE DEF P, K
    <3>2. /\ task' \in T /\ task'.at = "add" /\ task'.routes = task.routes
          /\ task'.next = task.next + 1 /\ task'.seen = seen
      BY <2>1, <2>3, <3>1, Zenon
    <3> QED
      BY <3>2, Zenon DEF AddTasks, P, K
  <2>8. TypeInv'
    <3>1. routes' \subseteq KernelRoutes
      BY <2>1, <2>5, Zenon DEF TypeInv, RoutingInv, KernelRoutes
    <3> QED
      BY <3>1, <2>1, <2>7, Zenon DEF TypeInv, RoutingInv
  <2>9. RuleInv' /\ RoutesBeforeRules'
    BY <2>7, Zenon DEF RuleInv, RoutesBeforeRules
  <2>10. Wanted' = Wanted
    BY <2>7, Zenon DEF Wanted
  <2>11. \A q : Arrived(q) => Arrived(q)'
    BY <2>1, Zenon DEF Arrived
  <2>12. ASSUME NEW j \in DOMAIN task.routes, j < task.next + 1, NEW q, q = task.routes[j]
         PROVE  Arrived(q)' /\ (Stored(q) \in Wanted \/ Stored(q) \notin seen)
    <3>1. CASE j = task.next
      <4>1. q = r
        BY <1>0, <2>12, <3>1, Zenon
      <4>2. Arrived(r)'
        BY <2>1, Zenon DEF Arrived
      <4>3. Stored(r) \in task.seen => Stored(r) \in Wanted
        BY <1>0, <2>5, Zenon
      <4>4. Stored(r) \in Wanted \/ Stored(r) \notin seen
        BY <4>3, <2>4, <2>6, Zenon
      <4> QED
        BY <4>1, <4>2, <4>4, Zenon
    <3>2. CASE j # task.next
      <4>1. j < task.next
        BY <3>2, <2>2, <2>12
      <4>2. Arrived(q) /\ (Stored(q) \in Wanted \/ Stored(q) \notin task.seen)
        BY <2>12, <4>1, Zenon DEF AddInv, RoutingInv
      <4> QED
        BY <4>2, <2>4, <2>6, <2>11, Zenon
    <3> QED
      BY <3>1, <3>2, Zenon
  <2>13. ASSUME NEW s \in seen
         PROVE  /\ Arrived(s)'
                /\ Stored(s) = s \/ \E j \in DOMAIN task.routes : j < task.next + 1 /\ task.routes[j] = s
    <3>1. CASE s = r
      <4>1. task.next < task.next + 1
        BY <2>2
      <4> QED
        BY <3>1, <4>1, <1>0, <2>3, <2>12, Zenon
    <3>2. CASE s # r
      <4>1. s \in task.seen
        BY <3>2, <2>6, Zenon
      <4>2. /\ Arrived(s)
            /\ Stored(s) = s \/ \E j \in DOMAIN task.routes : j < task.next /\ task.routes[j] = s
        BY <4>1, Zenon DEF AddInv, RoutingInv
      <4>3. \A j \in DOMAIN task.routes : j < task.next => j < task.next + 1
        BY <2>2
      <4> QED
        BY <4>2, <4>3, <2>11, Zenon
    <3> QED
      BY <3>1, <3>2, Zenon
  <2>14. AddInv'
    BY <2>7, <2>10, <2>12, <2>13 DEF AddInv
  <2> QED
    BY <2>8, <2>9, <2>14, Zenon DEF RoutingInv
<1> QED
  BY <1>1, <1>2, Zenon

(* The steps of a reconciliation.                                          *)
LEMMA PlanKeeps ==
    ASSUME RoutingInv, Plan
    PROVE  RoutingInv'
<1>1. config \in Names /\ task \in PlanTasks
  BY TaskAt, Zenon DEF RoutingInv, TypeInv, Plan
<1> DEFINE P == Seq(Plannable)
<1>2. PICK rs : rs = PlannedRoutes(Current, selections, Net)
  OBVIOUS
<1>3. rs \in P
  BY <1>1, <1>2, PlannedRoutesType, Zenon DEF Current
<1>4. /\ task' = [at |-> "dump", cause |-> task.cause, routes |-> rs]
      /\ UNCHANGED <<config, up, routes, rules, messages>>
  BY <1>2, Zenon DEF Plan, unchangedByTask
<1> HIDE DEF P
<1>5. task' \in [at : {"dump"}, cause : Causes, routes : P] /\ (task.at \notin {"add", "rules", "firewall"})'
  BY <1>1, <1>3, <1>4, Zenon DEF PlanTasks
<1>6. task' \in DumpTasks
  BY <1>5, Zenon DEF DumpTasks, P
<1>7. AddInv' /\ RuleInv' /\ RoutesBeforeRules'
  BY <1>5, NothingOwed, PTL
<1> QED
  BY <1>4, <1>6, <1>7, Zenon DEF RoutingInv, TypeInv

(* Reading the tables and rules of the kernel changes none of them.        *)
LEMMA DumpKeeps ==
    ASSUME RoutingInv, Dump
    PROVE  RoutingInv'
<1>1. task \in DumpTasks
  BY TaskAt, Zenon DEF RoutingInv, Dump
<1>2. PICK seen : seen = {r \in routes : \E w \in Wanted : r.table = w.table}
  BY Zenon
<1>3. \/ Throw
      \/ /\ task' = [at |-> "add", cause |-> task.cause, routes |-> task.routes,
                     next |-> 1, seen |-> seen]
         /\ UNCHANGED <<marking, ok, tracked, routes, rules, watching, unchangedByTask>>
  BY <1>2, Zenon DEF Dump
<1>4. CASE Throw
  BY <1>4, ThrowKeeps, Zenon
<1>5. CASE /\ task' = [at |-> "add", cause |-> task.cause, routes |-> task.routes,
                       next |-> 1, seen |-> seen]
           /\ UNCHANGED <<marking, ok, tracked, routes, rules, watching, unchangedByTask>>
  <2>1. UNCHANGED <<config, up, routes, rules, messages>>
    BY <1>5, Zenon DEF unchangedByTask
  <2>2. seen \subseteq routes /\ \A s \in seen : s \in RouteSet /\ Stored(s) = s
    BY <1>2, Zenon DEF RoutingInv, TypeInv, KernelRoutes
  <2>3. /\ task' \in AddTasks /\ task'.at = "add" /\ task'.routes = task.routes
        /\ task'.next = 1 /\ task'.seen = seen
    <3> DEFINE P == Seq(Plannable)
               K == SUBSET RouteSet
               T == [at : {"add"}, cause : Causes, routes : P, next : Nat \ {0}, seen : K]
    <3>1. task.cause \in Causes /\ task.routes \in P /\ seen \in K
      BY <1>1, <2>2, Zenon DEF DumpTasks
    <3> HIDE DEF P, K
    <3>2. /\ task' \in T /\ task'.at = "add" /\ task'.routes = task.routes
          /\ task'.next = 1 /\ task'.seen = seen
      BY <1>5, <3>1
    <3> QED
      BY <3>2, Zenon DEF AddTasks, P, K
  <2>4. TypeInv'
    BY <2>1, <2>3, Zenon DEF TypeInv, RoutingInv
  <2>5. RuleInv' /\ RoutesBeforeRules'
    BY <2>3, Zenon DEF RuleInv, RoutesBeforeRules
  <2>6. AddInv'
    <3>1. \A j \in DOMAIN task.routes : ~(j < 1)
      <4> DEFINE P == Plannable
      <4>1. task.routes \in Seq(P)
        BY <1>1, Zenon DEF DumpTasks
      <4> HIDE DEF P
      <4> QED
        BY <4>1
    <3>2. \A s \in seen : Arrived(s)' /\ Stored(s) = s
      BY <2>1, <2>2, Zenon DEF Arrived
    <3> QED
      BY <3>1, <3>2, <2>3, Zenon DEF AddInv
  <2> QED
    BY <2>4, <2>5, <2>6, Zenon DEF RoutingInv
<1> QED
  BY <1>3, <1>4, <1>5, Zenon

(* The call that adds a planned route, whatever the kernel answers.        *)
LEMMA AddRouteKeeps ==
    ASSUME RoutingInv, AddRoute
    PROVE  RoutingInv'
<1>1. task.at = "add" /\ task.next <= Len(task.routes)
  BY Zenon DEF AddRoute
<1>2. PICK r : r = task.routes[task.next]
  OBVIOUS
<1> DEFINE inTheWay == {s \in task.seen : s.own /\ s \notin Wanted /\ SameKey(r, s)}
<1>3. IF r \in task.seen
      THEN /\ task' = [task EXCEPT !.next = @ + 1]
           /\ UNCHANGED <<marking, ok, tracked, routes, rules, watching, unchangedByTask>>
      ELSE IF inTheWay # {} THEN \E s \in inTheWay : DeleteRoute(s)
      ELSE InsertRoute(r)
  BY <1>2 DEF AddRoute
<1>4. CASE r \in task.seen
  <2>1. /\ task' = [task EXCEPT !.next = @ + 1]
        /\ UNCHANGED <<config, up, routes, rules, messages>>
    BY <1>3, <1>4, Zenon DEF unchangedByTask
  <2>2. /\ task \in AddTasks /\ task.next \in Nat \ {0}
        /\ Len(task.routes) \in Nat /\ DOMAIN task.routes = 1 .. Len(task.routes)
        /\ \A j \in DOMAIN task.routes : task.routes[j] \in Plannable /\ task.routes[j] \in RouteSet
        /\ Wanted = {task.routes[j] : j \in DOMAIN task.routes}
        /\ task.seen \subseteq RouteSet
    BY <1>1, AddFacts, Zenon DEF RoutingInv
  <2>3. /\ task' \in AddTasks /\ task'.at = "add" /\ task'.routes = task.routes
        /\ task'.next = task.next + 1 /\ task'.seen = task.seen
    <3> DEFINE P == Seq(Plannable)
               K == SUBSET RouteSet
               T == [at : {"add"}, cause : Causes, routes : P, next : Nat \ {0}, seen : K]
    <3>1. task \in T
      BY <2>2, Zenon DEF AddTasks
    <3> HIDE DEF P, K
    <3>2. /\ task' \in T /\ task'.at = "add" /\ task'.routes = task.routes
          /\ task'.next = task.next + 1 /\ task'.seen = task.seen
      BY <2>1, <3>1
    <3> QED
      BY <3>2, Zenon DEF AddTasks, P, K
  <2>4. TypeInv'
    BY <2>1, <2>3, Zenon DEF TypeInv, RoutingInv
  <2>5. RuleInv' /\ RoutesBeforeRules'
    BY <2>3, Zenon DEF RuleInv, RoutesBeforeRules
  <2>6. Wanted' = Wanted /\ \A q : Arrived(q)' <=> Arrived(q)
    BY <2>1, <2>3, Zenon DEF Wanted, Arrived
  <2>7. ASSUME NEW q \in task.seen
        PROVE  Arrived(q) /\ (Stored(q) = q \/ \E j \in DOMAIN task.routes : j < task.next /\ task.routes[j] = q)
    BY <1>1, Zenon DEF AddInv, RoutingInv
  <2>8. ASSUME NEW j \in DOMAIN task.routes, j < task.next, NEW q, q = task.routes[j]
        PROVE  Arrived(q) /\ (Stored(q) \in Wanted \/ Stored(q) \notin task.seen)
    BY <1>1, <2>8, Zenon DEF AddInv, RoutingInv
  <2>9. ASSUME NEW j \in DOMAIN task.routes, j < task.next + 1, NEW q, q = task.routes[j]
        PROVE  Arrived(q) /\ (Stored(q) \in Wanted \/ Stored(q) \notin task.seen)
    <3>1. CASE j = task.next
      <4>1. q = r /\ r \in Wanted
        BY <1>2, <2>2, <2>9, <3>1, Zenon
      <4>2. Arrived(r) /\ (Stored(r) = r \/ \E k \in DOMAIN task.routes : k < task.next /\ task.routes[k] = r)
        BY <1>4, <2>7, Zenon
      <4> QED
        BY <4>1, <4>2, <2>8, Zenon
    <3>2. CASE j # task.next
      <4>1. j < task.next
        BY <2>2, <2>9, <3>2
      <4> QED
        BY <4>1, <2>8, <2>9, Zenon
    <3> QED
      BY <3>1, <3>2, Zenon
  <2>10. \A j \in DOMAIN task.routes : j < task.next => j < task.next + 1
    BY <2>2
  <2>11. AddInv'
    BY <2>3, <2>6, <2>7, <2>9, <2>10 DEF AddInv
  <2> QED
    BY <2>4, <2>5, <2>11, Zenon DEF RoutingInv
<1>5. CASE r \notin task.seen /\ inTheWay # {}
  <2>1. PICK d \in inTheWay : DeleteRoute(d)
    BY <1>3, <1>5, Zenon
  <2> QED
    BY <1>1, <2>1, DeleteKeeps, Zenon
<1>6. CASE r \notin task.seen /\ inTheWay = {}
  <2>1. InsertRoute(r) /\ \A s \in task.seen : s.own /\ SameKey(r, s) => s \in Wanted
    BY <1>3, <1>6, Zenon
  <2> QED
    BY <1>1, <1>2, <1>6, <2>1, InsertKeeps
<1> QED
  BY <1>4, <1>5, <1>6, Zenon

(* The call that deletes a route the plan does not have.                   *)
LEMMA PruneRouteKeeps ==
    ASSUME RoutingInv, PruneRoute
    PROVE  RoutingInv'
<1>1. task.at = "add" /\ task.next > Len(task.routes)
  BY Zenon DEF PruneRoute
<1> DEFINE obsolete == {r \in task.seen : r.own /\ r \notin Wanted}
<1>2. IF obsolete # {}
      THEN \E r \in obsolete : DeleteRoute(r)
      ELSE /\ task' = [at |-> "rules", cause |-> task.cause, routes |-> task.routes,
                       next |-> 1, seen |-> rules]
           /\ UNCHANGED <<marking, ok, tracked, routes, rules, watching, unchangedByTask>>
  BY Zenon DEF PruneRoute
<1>3. CASE obsolete # {}
  <2>1. PICK d \in obsolete : DeleteRoute(d)
    BY <1>2, <1>3, Zenon
  <2> QED
    BY <1>1, <2>1, DeleteKeeps, Zenon
<1>4. CASE obsolete = {}
  <2>1. /\ task' = [at |-> "rules", cause |-> task.cause, routes |-> task.routes,
                    next |-> 1, seen |-> rules]
        /\ UNCHANGED <<config, up, routes, rules, messages>>
    BY <1>2, <1>4, Zenon DEF unchangedByTask
  <2>2. /\ task \in AddTasks /\ task.next \in Nat \ {0}
        /\ Len(task.routes) \in Nat /\ DOMAIN task.routes = 1 .. Len(task.routes)
        /\ Wanted = {task.routes[j] : j \in DOMAIN task.routes}
    BY <1>1, AddFacts, Zenon DEF RoutingInv
  <2>3. /\ task' \in RuleTasks /\ task'.at = "rules" /\ task'.routes = task.routes /\ task'.next = 1
    <3> DEFINE P == Seq(Plannable)
               L == SUBSET RuleSet
               T == [at : {"rules"}, cause : Causes, routes : P, next : Nat \ {0}, seen : L]
    <3>1. task.cause \in Causes /\ task.routes \in P /\ rules \in L
      BY <2>2, Zenon DEF AddTasks, RoutingInv, TypeInv
    <3> HIDE DEF P, L
    <3>2. task' \in T /\ task'.at = "rules" /\ task'.routes = task.routes /\ task'.next = 1
      BY <2>1, <3>1
    <3> QED
      BY <3>2, Zenon DEF RuleTasks, P, L
  <2>4. TypeInv'
    BY <2>1, <2>3, Zenon DEF TypeInv, RoutingInv
  <2>5. AddInv'
    BY <2>3, Zenon DEF AddInv
  <2>6. RuleInv'
    <3>1. ASSUME NEW j \in DOMAIN WantedRules
          PROVE  ~(j < 1)
      <4> DEFINE w == RulesWanted[config]
                 X == ToSet(w)
      <4>1. w \in Seq(X)
        BY RulesWantedFacts, Zenon DEF RoutingInv, TypeInv, IsSeq
      <4>2. j \in DOMAIN w
        BY Zenon DEF WantedRules
      <4> HIDE DEF w, X
      <4> QED
        BY <4>1, <4>2
    <3>2. WantedRules' = WantedRules
      BY <2>1, Zenon DEF WantedRules
    <3> QED
      BY <3>1, <3>2, <2>3, Zenon DEF RuleInv
  <2>7. RoutesBeforeRules'
    <3>1. ASSUME NEW r \in Wanted
          PROVE  Arrived(r)'
      <4>1. PICK j \in DOMAIN task.routes : r = task.routes[j]
        BY <2>2, Zenon
      <4>2. j < task.next
        BY <1>1, <2>2
      <4>3. Arrived(r)
        BY <1>1, <4>1, <4>2, Zenon DEF AddInv, RoutingInv
      <4> QED
        BY <4>3, <2>1, Zenon DEF Arrived
    <3>2. Wanted' = Wanted
      BY <2>3, Zenon DEF Wanted
    <3> QED
      BY <3>1, <3>2, Zenon DEF RoutesBeforeRules, Arrived
  <2> QED
    BY <2>4, <2>5, <2>6, <2>7, Zenon DEF RoutingInv
<1> QED
  BY <1>3, <1>4, Zenon

(* The rules of a task that adds rules.                                    *)
LEMMA RuleFacts ==
    ASSUME TypeInv, task.at = "rules"
    PROVE  /\ task \in RuleTasks /\ task.next \in Nat \ {0} /\ task.seen \subseteq RuleSet
           /\ Len(WantedRules) \in Nat /\ DOMAIN WantedRules = 1 .. Len(WantedRules)
           /\ ToSet(WantedRules) = {WantedRules[j] : j \in DOMAIN WantedRules}
           /\ ToSet(WantedRules) \subseteq RuleSet
<1>1. task \in RuleTasks
  BY TaskAt, Zenon
<1>2. task.next \in Nat \ {0} /\ task.seen \subseteq RuleSet
  BY <1>1, Zenon DEF RuleTasks
<1>3. config \in Names
  BY Zenon DEF TypeInv
<1> DEFINE w == RulesWanted[config]
           X == ToSet(w)
<1>4. w \in Seq(X)
  BY <1>3, RulesWantedFacts, Zenon DEF IsSeq
<1>5. X \subseteq RuleSet
  BY <1>3, Zenon DEF RuleSet
<1>6. Len(w) \in Nat /\ DOMAIN w = 1 .. Len(w)
  BY <1>4, SeqFacts, Zenon
<1> QED
  BY <1>1, <1>2, <1>5, <1>6, Zenon DEF WantedRules, ToSet

(* The call that adds a planned rule: every route has arrived before.      *)
LEMMA AddRuleKeeps ==
    ASSUME RoutingInv, AddRule
    PROVE  RoutingInv' /\ rules \subseteq rules'
<1>1. task.at = "rules" /\ task.next <= Len(WantedRules)
  BY Zenon DEF AddRule
<1>2. PICK x : x = WantedRules[task.next]
  OBVIOUS
<1>3. /\ rules' = rules \cup {x} /\ task' = [task EXCEPT !.next = @ + 1]
      /\ UNCHANGED <<config, up, routes, messages>>
  BY <1>2, Zenon DEF AddRule, unchangedByTask
<1>4. /\ task \in RuleTasks /\ task.next \in Nat \ {0}
      /\ Len(WantedRules) \in Nat /\ DOMAIN WantedRules = 1 .. Len(WantedRules)
      /\ ToSet(WantedRules) = {WantedRules[j] : j \in DOMAIN WantedRules}
      /\ ToSet(WantedRules) \subseteq RuleSet
  BY <1>1, RuleFacts, Zenon DEF RoutingInv
<1>5. x \in RuleSet
  BY <1>1, <1>2, <1>4
<1>6. /\ task' \in RuleTasks /\ task'.at = "rules" /\ task'.routes = task.routes
      /\ task'.next = task.next + 1
  <2> DEFINE P == Seq(Plannable)
             L == SUBSET RuleSet
             T == [at : {"rules"}, cause : Causes, routes : P, next : Nat \ {0}, seen : L]
  <2>1. task \in T
    BY <1>4, Zenon DEF RuleTasks
  <2> HIDE DEF P, L
  <2>2. /\ task' \in T /\ task'.at = "rules" /\ task'.routes = task.routes
        /\ task'.next = task.next + 1
    BY <1>3, <2>1
  <2> QED
    BY <2>2, Zenon DEF RuleTasks, P, L
<1>7. TypeInv'
  <2>1. rules' \subseteq RuleSet
    BY <1>3, <1>5, Zenon DEF TypeInv, RoutingInv
  <2> QED
    BY <2>1, <1>3, <1>6, Zenon DEF TypeInv, RoutingInv
<1>8. AddInv'
  BY <1>6, Zenon DEF AddInv
<1>9. RuleInv'
  <2>1. WantedRules' = WantedRules
    BY <1>3, Zenon DEF WantedRules
  <2>2. ASSUME NEW j \in DOMAIN WantedRules, j < task.next + 1
        PROVE  WantedRules[j] \in rules'
    <3>1. CASE j = task.next
      BY <3>1, <1>2, <1>3, Zenon
    <3>2. CASE j # task.next
      <4>1. j < task.next
        BY <3>2, <2>2, <1>4
      <4> QED
        BY <4>1, <1>1, <1>3, Zenon DEF RuleInv, RoutingInv
    <3> QED
      BY <3>1, <3>2, Zenon
  <2> QED
    BY <2>1, <2>2, <1>6, Zenon DEF RuleInv
<1>10. RoutesBeforeRules'
  BY <1>1, <1>3, <1>6, Zenon DEF RoutesBeforeRules, RoutingInv, Wanted
<1> QED
  BY <1>3, <1>7, <1>8, <1>9, <1>10 DEF RoutingInv

(* A rule that is pruned is not a planned one, and the planned ones are    *)
(* all there.                                                              *)
LEMMA PruneRuleKeeps ==
    ASSUME RoutingInv, PruneRule
    PROVE  /\ RoutingInv'
           /\ UNCHANGED config
           /\ rules' = rules \/ ToSet(WantedRules) \subseteq rules'
<1>1. task.at = "rules" /\ task.next > Len(WantedRules)
  BY Zenon DEF PruneRule
<1> DEFINE planned == ToSet(WantedRules)
           obsolete == {r \in task.seen : /\ r \notin planned
                                          /\ \E w \in planned : w.rule.mark = r.rule.mark
                                                             /\ w.rule.mask = r.rule.mask}
<1>2. /\ IF obsolete # {}
         THEN \E r \in obsolete : rules' = rules \ {r} /\ task' = [task EXCEPT !.seen = @ \ {r}]
         ELSE /\ task' = [at |-> "firewall", cause |-> task.cause, routes |-> task.routes]
              /\ UNCHANGED rules
      /\ UNCHANGED <<config, up, routes, messages>>
  BY Zenon DEF PruneRule, unchangedByTask
<1>3. /\ task \in RuleTasks /\ task.next \in Nat \ {0} /\ task.seen \subseteq RuleSet
      /\ Len(WantedRules) \in Nat /\ DOMAIN WantedRules = 1 .. Len(WantedRules)
      /\ planned = {WantedRules[j] : j \in DOMAIN WantedRules}
  BY <1>1, RuleFacts, Zenon DEF RoutingInv
<1>4. planned \subseteq rules
  <2> SUFFICES ASSUME NEW j \in DOMAIN WantedRules PROVE WantedRules[j] \in rules
    BY <1>3, Zenon
  <2>1. j < task.next
    BY <1>1, <1>3
  <2> QED
    BY <2>1, <1>1, Zenon DEF RuleInv, RoutingInv
<1> HIDE DEF planned
<1>5. CASE obsolete # {}
  <2>1. PICK d \in obsolete : rules' = rules \ {d} /\ task' = [task EXCEPT !.seen = @ \ {d}]
    BY <1>2, <1>5, Zenon
  <2>2. planned \subseteq rules'
    BY <2>1, <1>4, Zenon
  <2>3. /\ task' \in RuleTasks /\ task'.at = "rules" /\ task'.routes = task.routes
        /\ task'.next = task.next
    <3> DEFINE P == Seq(Plannable)
               L == SUBSET RuleSet
               T == [at : {"rules"}, cause : Causes, routes : P, next : Nat \ {0}, seen : L]
    <3>1. task \in T /\ \A q \in L : q \ {d} \in L
      BY <1>3, Zenon DEF RuleTasks
    <3> HIDE DEF P, L
    <3>2. /\ task' \in T /\ task'.at = "rules" /\ task'.routes = task.routes
          /\ task'.next = task.next
      BY <2>1, <3>1, Zenon
    <3> QED
      BY <3>2, Zenon DEF RuleTasks, P, L
  <2>4. TypeInv'
    <3>1. rules' \subseteq RuleSet
      BY <2>1, Zenon DEF TypeInv, RoutingInv
    <3> QED
      BY <3>1, <2>3, <1>2, Zenon DEF TypeInv, RoutingInv
  <2>5. AddInv'
    BY <2>3, Zenon DEF AddInv
  <2>6. RuleInv'
    <3>1. WantedRules' = WantedRules
      BY <1>2, Zenon DEF WantedRules
    <3> QED
      BY <3>1, <2>2, <1>3, Zenon DEF RuleInv
  <2>7. RoutesBeforeRules'
    BY <1>1, <1>2, <2>3, Zenon DEF RoutesBeforeRules, RoutingInv, Wanted
  <2> QED
    BY <1>2, <2>2, <2>4, <2>5, <2>6, <2>7, Zenon DEF RoutingInv, planned
<1>6. CASE obsolete = {}
  <2>1. /\ task' = [at |-> "firewall", cause |-> task.cause, routes |-> task.routes]
        /\ UNCHANGED rules
    BY <1>2, <1>6, Zenon
  <2>2. task' \in FirewallTasks /\ task'.at = "firewall" /\ task'.routes = task.routes
    <3> DEFINE P == Seq(Plannable)
    <3>1. task.cause \in Causes /\ task.routes \in P
      BY <1>3, Zenon DEF RuleTasks
    <3> HIDE DEF P
    <3>2. /\ task' \in [at : {"firewall"}, cause : Causes, routes : P]
          /\ task'.at = "firewall" /\ task'.routes = task.routes
      BY <2>1, <3>1, Zenon
    <3> QED
      BY <3>2, Zenon DEF FirewallTasks, P
  <2>3. TypeInv'
    BY <2>1, <2>2, <1>2, Zenon DEF TypeInv, RoutingInv
  <2>4. AddInv' /\ RuleInv'
    BY <2>2, Zenon DEF AddInv, RuleInv
  <2>5. RoutesBeforeRules'
    BY <1>1, <1>2, <2>2, Zenon DEF RoutesBeforeRules, RoutingInv, Wanted
  <2> QED
    BY <1>2, <2>1, <2>3, <2>4, <2>5 DEF RoutingInv
<1> QED
  BY <1>5, <1>6, Zenon

(* The steps that end a reconciliation or begin one.                       *)
LEMMA OthersKeep ==
    ASSUME RoutingInv,
           \/ \E c \in Names : Apply(c) \/ Crash(c)
           \/ \E tag, child \in AllTags : SelectionChange(tag, child)
           \/ HandleMessage
           \/ Reconnect
           \/ ApplyFirewall
    PROVE  RoutingInv' /\ rules' = rules
<1> DEFINE Begun == \E cause \in Causes : task' = [at |-> "plan", cause |-> cause]
<1>1. /\ config' \in Names /\ routes' = routes /\ rules' = rules /\ up' = up
      /\ messages' = messages \/ messages' = <<>> \/ (messages # <<>> /\ messages' = Tail(messages))
      /\ Begun \/ task' = Idle \/ (task' = task /\ task.at = "idle")
  <2>0. config \in Names
    BY Zenon DEF RoutingInv, TypeInv
  <2>1. CASE \E c \in Names : Apply(c)
    BY <2>1, Zenon DEF Apply, Begin, kernel, Causes
  <2>2. CASE \E c \in Names : Crash(c)
    BY <2>2, Zenon DEF Crash, kernel, Causes
  <2>3. CASE \E tag, child \in AllTags : SelectionChange(tag, child)
    BY <2>0, <2>3, Zenon DEF SelectionChange, Begin, kernel, Causes
  <2>4. CASE HandleMessage
    BY <2>0, <2>4, Zenon DEF HandleMessage, Begin, kernel, Causes
  <2>5. CASE Reconnect
    BY <2>0, <2>5, Zenon DEF Reconnect, kernel
  <2>6. CASE ApplyFirewall
    BY <2>0, <2>6, Zenon DEF ApplyFirewall, unchangedByTask
  <2> QED
    BY <2>1, <2>2, <2>3, <2>4, <2>5, <2>6
<1>2. /\ task' \in IdleTasks \/ task' \in PlanTasks
      /\ (task.at \notin {"add", "rules", "firewall"})'
  <2>1. CASE Begun
    BY <2>1 DEF PlanTasks
  <2>2. CASE task' = Idle
    BY <2>2, Zenon DEF Idle, IdleTasks
  <2>3. CASE task' = task /\ task.at = "idle"
    <3>1. task \in IdleTasks
      <4>1. \/ task \in IdleTasks \/ task \in PlanTasks \/ task \in DumpTasks
            \/ task \in AddTasks \/ task \in RuleTasks \/ task \in FirewallTasks
        BY Zenon DEF RoutingInv, TypeInv
      <4> QED
        BY <2>3, <4>1, Zenon DEF PlanTasks, DumpTasks, AddTasks, RuleTasks, FirewallTasks
    <3> QED
      BY <2>3, <3>1, Zenon
  <2> QED
    BY <1>1, <2>1, <2>2, <2>3, Zenon
<1>3. AddInv' /\ RuleInv' /\ RoutesBeforeRules'
  BY <1>2, NothingOwed, PTL
<1>4. messages' \in Seq(Messages)
  <2> DEFINE M == Messages
  <2>1. messages \in Seq(M)
    BY Zenon DEF RoutingInv, TypeInv
  <2> HIDE DEF M
  <2>2. messages # <<>> => Tail(messages) \in Seq(M)
    BY <2>1
  <2>3. <<>> \in Seq(M)
    OBVIOUS
  <2>4. messages' \in Seq(M)
    BY <1>1, <2>1, <2>2, <2>3, Zenon
  <2> QED
    BY <2>4, Zenon DEF M
<1> QED
  BY <1>1, <1>2, <1>3, <1>4, Zenon DEF RoutingInv, TypeInv

(* Every step keeps the invariant.                                         *)
LEMMA RoutingStep == RoutingInv /\ [Next]_vars => RoutingInv'
<1> SUFFICES ASSUME RoutingInv, [Next]_vars PROVE RoutingInv'
  OBVIOUS
<1>1. CASE \/ \E c \in Names : Apply(c) \/ Crash(c)
           \/ \E tag, child \in AllTags : SelectionChange(tag, child)
           \/ HandleMessage
           \/ Reconnect
           \/ ApplyFirewall
  BY <1>1, OthersKeep, Zenon
<1>2. CASE Plan
  BY <1>2, PlanKeeps, Zenon
<1>3. CASE Dump
  BY <1>3, DumpKeeps
<1>4. CASE AddRoute
  BY <1>4, AddRouteKeeps, Zenon
<1>5. CASE PruneRoute
  BY <1>5, PruneRouteKeeps, Zenon
<1>6. CASE AddRule
  BY <1>6, AddRuleKeeps, Zenon
<1>7. CASE PruneRule
  BY <1>7, PruneRuleKeeps, Zenon
<1>8. CASE Fault
  BY <1>8, ThrowKeeps, Zenon DEF Fault
<1>9. CASE \E i \in Interfaces : LinkDown(i) \/ LinkUp(i)
  BY <1>9, LinkKeeps, Zenon
<1>11. CASE AddressesChange
  <2>1. UNCHANGED <<config, task, up, routes, rules, messages>>
    BY <1>11, Zenon DEF AddressesChange
  <2> QED
    BY <2>1 DEF RoutingInv, TypeInv, AddInv, RuleInv, RoutesBeforeRules, Arrived, Wanted,
                WantedRules
<1>10. CASE UNCHANGED vars
  BY <1>10 DEF vars, kernel, monitor, RoutingInv, TypeInv, AddInv, RuleInv, RoutesBeforeRules,
               Arrived, Wanted, WantedRules
<1> QED
  BY <1>1, <1>2, <1>3, <1>4, <1>5, <1>6, <1>7, <1>8, <1>9, <1>10, <1>11 DEF Next

(* "A policy rule must never become visible before every route it can      *)
(* select has been installed" (populate_routing_state() in                 *)
(* routing_state.cpp): for any configurations, interfaces and routes of a  *)
(* user, and any number of link changes, faults and crashes.               *)
THEOREM RoutesFirst == Spec => []RoutesBeforeRules
<1>1. Init => RoutingInv
  BY RoutingInit, Zenon
<1>2. RoutingInv /\ [Next]_vars => RoutingInv'
  BY RoutingStep, Zenon
<1>3. RoutingInv => RoutesBeforeRules
  BY Zenon DEF RoutingInv
<1> QED
  BY <1>1, <1>2, <1>3, PTL DEF Spec

-------------------------------------------------------------------------------
(* A guard goes only when the plan has another for its mark and family, or *)
(* none for it.                                                            *)
LEMMA GuardStep ==
    ASSUME RoutingInv, [Next]_vars, NEW g \in Guards, g[1] \in GuardedMarks[config'],
           g[2] \in ToSet(RuleFamilies(Current'))
    PROVE  g \in Guards'
<1>1. CASE rules \subseteq rules'
  BY <1>1, Zenon DEF Guards
<1>2. CASE UNCHANGED config /\ ToSet(WantedRules) \subseteq rules'
  <2>1. config \in Names
    BY Zenon DEF RoutingInv, TypeInv
  <2>2. g[1] \in GuardedMarks[config] /\ g[2] \in ToSet(RuleFamilies(Configs[config]))
    BY <1>2, Zenon DEF Current
  <2>3. PICK x \in ToSet(RulesWanted[config]) :
            x.rule.mark = g[1] /\ x.rule.action = "reject" /\ x.family = g[2]
    BY <2>1, <2>2, RulesWantedFacts
  <2>4. x \in rules'
    BY <1>2, <2>3, Zenon DEF WantedRules
  <2>5. g = <<g[1], g[2]>>
    BY DEF Guards
  <2>6. g = <<x.rule.mark, x.family>>
    BY <2>3, <2>5, Zenon
  <2> QED
    BY <2>3, <2>4, <2>6, Zenon DEF Guards
<1>3. rules \subseteq rules' \/ (UNCHANGED config /\ ToSet(WantedRules) \subseteq rules')
  <2>1. CASE \/ \E c \in Names : Apply(c) \/ Crash(c)
             \/ \E tag, child \in AllTags : SelectionChange(tag, child)
             \/ HandleMessage
             \/ Reconnect
             \/ ApplyFirewall
    BY <2>1, OthersKeep, Zenon
  <2>2. CASE Plan
    BY <2>2, Zenon DEF Plan
  <2>3. CASE Dump
    BY <2>3, Zenon DEF Dump, Throw
  <2>4. CASE AddRoute
    BY <2>4, Zenon DEF AddRoute, DeleteRoute, InsertRoute, Throw
  <2>5. CASE PruneRoute
    BY <2>5, Zenon DEF PruneRoute, DeleteRoute, Throw
  <2>6. CASE AddRule
    BY <2>6, AddRuleKeeps, Zenon
  <2>7. CASE PruneRule
    BY <2>7, PruneRuleKeeps, Zenon
  <2>8. CASE Fault
    BY <2>8, Zenon DEF Fault, Throw
  <2>9. CASE \E i \in Interfaces : LinkDown(i) \/ LinkUp(i)
    BY <2>9, Zenon DEF LinkDown, LinkUp
  <2>11. CASE AddressesChange
    BY <2>11, Zenon DEF AddressesChange
  <2>10. CASE UNCHANGED vars
    BY <2>10, Zenon DEF vars, kernel
  <2> QED
    BY <2>1, <2>2, <2>3, <2>4, <2>5, <2>6, <2>7, <2>8, <2>9, <2>10, <2>11, Zenon DEF Next
<1> QED
  BY <1>1, <1>2, <1>3, Zenon

(* The kill switch has no gap: reconcile() adds the rules of the plan      *)
(* before it deletes others (routing_reconciler.cpp), so a mark that is    *)
(* guarded, and guarded in the configuration being applied, is guarded at  *)
(* every step, whatever fails or crashes on the way.                       *)
THEOREM GuardsHold == Spec => GuardsStay
<1>1. Init => RoutingInv
  BY RoutingInit, Zenon
<1>2. RoutingInv /\ [Next]_vars => RoutingInv'
  BY RoutingStep, Zenon
<1>3. RoutingInv /\ [Next]_vars =>
          [\A g \in Guards : /\ g[1] \in GuardedMarks[config']
                             /\ g[2] \in ToSet(RuleFamilies(Current'))
                             => g \in Guards']_vars
  BY GuardStep, Zenon
<1> QED
  BY <1>1, <1>2, <1>3, PTL DEF Spec, GuardsStay
==============================================================================
