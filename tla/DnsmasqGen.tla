----------------------------- MODULE DnsmasqGen -----------------------------
(***************************************************************************)
(* The configuration that dnsmasq is given: the snapshot that is read from *)
(* the router's DNS proxy (dns/keenetic_dns.cpp), and DnsmasqGenerator's   *)
(* one walk over servers, rules and lists, which writes the directives and *)
(* the records that are hashed (dns/dnsmasq_gen.cpp).                      *)
(***************************************************************************)
EXTENDS Sequencing

CONSTANTS
    BatchSize,      \* kBatchSize: domains in a row
    RowLength,      \* kMaxDnsmasqRowLength
    MaxName,        \* kMaxDomainNameLength
    ListOrder,      \* the names of lists in their order
    Inputs          \* what a generator may be given

VARIABLE given      \* the input of the generator that is at work, if one is

(* A domain: wild says that "*." stands before it.                         *)
DomainSet == [name : STRING, len : Nat, wild : BOOLEAN]

(* The limits and the domains of the lists are what they are in the code.  *)
ASSUME GeneratorAssumption ==
    /\ BatchSize \in Nat \ {0} /\ RowLength \in Nat /\ MaxName \in Nat
    /\ \A x \in Inputs : \A l \in DOMAIN x.lists : x.lists[l] \in Seq(DomainSet)

StripWildcard(d) == [d EXCEPT !.wild = FALSE]

-----------------------------------------------------------------------------
(* A line of the System policy's proxy-config: [is, addr, valid, v6,       *)
(* scoped, secure, domain].                                                *)

(* parse_static_dns_line() and is_supported_static_dns_domain()            *)
StaticLines(lines) ==
    LET size(d) == d.len + (IF d.wild THEN 2 ELSE 0)
    IN Keep(lines, {l \in ToSet(lines) :
                       l.is = "static" /\ l.domain.len > 0 /\ size(l.domain) <= MaxName})

(* parse_dns_server_line(); IPv6 servers are passed over before they are   *)
(* parsed, the ones of certain domains after.                              *)
ServerLines(lines) == Keep(lines, {l \in ToSet(lines) : l.is = "server" /\ ~l.v6})
Unscoped(lines, secure) ==
    Keep(ServerLines(lines), {l \in ToSet(lines) : ~l.scoped /\ l.secure = secure})

(* collect_selected_keenetic_dns_servers()                                 *)
SelectedServers(lines) ==
    IF Unscoped(lines, TRUE) # <<>> THEN Unscoped(lines, TRUE) ELSE Unscoped(lines, FALSE)

(* extract_keenetic_dns_snapshot_from_rci() throws, and the cache stays    *)
ProxyUsable(lines) ==
    /\ \A l \in ToSet(StaticLines(lines)) \cup ToSet(ServerLines(lines)) : l.valid
    /\ SelectedServers(lines) # <<>>

(* build_keenetic_dns_snapshot()                                           *)
KeeneticSnapshot(lines) ==
    [addresses |-> [i \in DOMAIN SelectedServers(lines) |-> SelectedServers(lines)[i].addr],
     static |-> [i \in DOMAIN StaticLines(lines) |->
                    [domain |-> StaticLines(lines)[i].domain, addr |-> StaticLines(lines)[i].addr]]]

-----------------------------------------------------------------------------
(* What the generator works on.  The cache is locked once for the          *)
(* addresses, when the registry is made, and again for the static entries, *)
(* so the two may come from two snapshots.                                 *)
UsesKeenetic(x) == \E s \in DOMAIN x.servers : x.servers[s] = "keenetic"

(* get_servers(): the addresses behind a tag                               *)
AddressesOf(x, tag) ==
    IF x.servers[tag] = "keenetic" THEN KeeneticSnapshot(x.proxy).addresses
    ELSE <<x.servers[tag]>>

(* The static entries, each pair of pattern and address once               *)
StaticEntries(x) ==
    IF ~UsesKeenetic(x) THEN <<>>
    ELSE LET static == KeeneticSnapshot(x.later).static
             pairs == [i \in DOMAIN static |-> [static[i] EXCEPT !.domain = StripWildcard(@)]]
             first == {i \in DOMAIN pairs : \A j \in 1 .. i - 1 : pairs[j] # pairs[i]}
             kept == Keep([i \in DOMAIN pairs |-> i], first)
         IN [k \in DOMAIN kept |-> pairs[kept[k]]]

Fallback(x) == FlattenSeq([i \in DOMAIN x.fallback |-> AddressesOf(x, x.fallback[i])])

(* ipset_lists and dns_list_servers: the lists of enabled route rules, and *)
(* for every list the first enabled DNS rule that names it.                *)
Routed(x) == UNION {x.routes[i].lists : i \in {j \in DOMAIN x.routes : x.routes[j].enabled}}
RulesFor(x, l) == Keep(x.rules, {r \in ToSet(x.rules) : r.enabled /\ l \in r.lists})
AllLists(x) ==
    Keep(ListOrder, {l \in DOMAIN x.lists : l \in Routed(x) \/ RulesFor(x, l) # <<>>})
Rebinds(x, l) == RulesFor(x, l) # <<>> /\ Head(RulesFor(x, l)).rebind
ServersFor(x, l) ==
    IF RulesFor(x, l) = <<>> THEN <<>> ELSE AddressesOf(x, Head(RulesFor(x, l)).server)

(* The domains of a list, as the collector takes them from the streamer    *)
Domains(x, l) ==
    LET bare == [i \in DOMAIN x.lists[l] |-> StripWildcard(x.lists[l][i])]
    IN Keep(bare, {d \in ToSet(bare) : d.len \in 1 .. MaxName})

-----------------------------------------------------------------------------
(* Rows: prefix and suffix of a directive, and the domains between them    *)
Room(kind, resolver, x) ==
    RowLength - (CASE kind = "set" -> (IF resolver = "nftset" THEN 2 ELSE 1) * (IF x.ipv6 THEN 2 ELSE 1)
                   [] kind = "rebind" -> 1
                   [] kind = "server" -> 2)
PathLen(row) ==
    LET upTo[k \in 0 .. Len(row)] == IF k = 0 THEN 0 ELSE upTo[k - 1] + 1 + row[k].len
    IN upTo[Len(row)]

FlushBatch(b) == IF b.path = <<>> THEN b ELSE [rows |-> Append(b.rows, b.path), path |-> <<>>]

(* Mutant: the domain that does not fit behind the others is dropped when  *)
(* the row is flushed.                                                     *)
PushBatchDrops(b, d, room) ==
    IF Len(b.path) < BatchSize /\ PathLen(Append(b.path, d)) <= room
    THEN [b EXCEPT !.path = Append(@, d)]
    ELSE FlushBatch(b)

(* push_batch(): a domain that fits no row is skipped                      *)
PushBatch(b, d, room) ==
    IF Len(b.path) < BatchSize /\ PathLen(Append(b.path, d)) <= room
    THEN [b EXCEPT !.path = Append(@, d)]
    ELSE IF PathLen(<<d>>) <= room THEN [FlushBatch(b) EXCEPT !.path = <<d>>]
    ELSE FlushBatch(b)

Rows(domains, room) ==
    LET after[k \in 0 .. Len(domains)] ==
            IF k = 0 THEN [rows |-> <<>>, path |-> <<>>]
            ELSE PushBatch(after[k - 1], domains[k], room)
    IN FlushBatch(after[Len(domains)]).rows

(* The directives of a list: ipset= or nftset=, rebind-domain-ok=, server= *)
ListDirectives(x, l, resolver) ==
    [list |-> l, v6 |-> x.ipv6,
     set |-> IF l \in Routed(x) THEN Rows(Domains(x, l), Room("set", resolver, x)) ELSE <<>>,
     rebind |-> IF Rebinds(x, l) THEN Rows(Domains(x, l), Room("rebind", resolver, x)) ELSE <<>>,
     servers |-> [i \in DOMAIN ServersFor(x, l) |->
                    [to |-> ServersFor(x, l)[i],
                     rows |-> Rows(Domains(x, l), Room("server", resolver, x))]]]

(* generate_directives() with a stream; comments and a list without rows   *)
(* are nothing to dnsmasq.                                                 *)
HasRows(d) == d.set # <<>> \/ d.rebind # <<>> \/ \E i \in DOMAIN d.servers : d.servers[i].rows # <<>>
Directives(x, resolver) ==
    LET all == [i \in DOMAIN AllLists(x) |-> ListDirectives(x, AllLists(x)[i], resolver)]
    IN [probe |-> x.probe, static |-> StaticEntries(x), fallback |-> Fallback(x),
        lists |-> Keep(all, {d \in ToSet(all) : HasRows(d)})]

(* generate_directives() with hash_record_callback                         *)
Record(what, list, name, at, to) == [what |-> what, list |-> list, name |-> name, at |-> at, to |-> to]
NoDomain == [name |-> "", len |-> 0, wild |-> FALSE]

(* Mutant: the index of the server is hashed, its address is not.          *)
DomainRecordsNoAddress(x, l, d) ==
    (IF l \in Routed(x) THEN <<Record("domain-route", l, d, 0, "")>> ELSE <<>>)
    \o (IF Rebinds(x, l) THEN <<Record("domain-rebind", l, d, 0, "")>> ELSE <<>>)
    \o [i \in DOMAIN ServersFor(x, l) |-> Record("domain-server", l, d, i, "")]

DomainRecords(x, l, d) ==
    (IF l \in Routed(x) THEN <<Record("domain-route", l, d, 0, "")>> ELSE <<>>)
    \o (IF Rebinds(x, l) THEN <<Record("domain-rebind", l, d, 0, "")>> ELSE <<>>)
    \o [i \in DOMAIN ServersFor(x, l) |-> Record("domain-server", l, d, i, ServersFor(x, l)[i])]
ListRecords(x, l) ==
    FlattenSeq([i \in DOMAIN Domains(x, l) |-> DomainRecords(x, l, Domains(x, l)[i])])
HashRecords(x) ==
    <<Record("ipv6-enabled", "", NoDomain, IF x.ipv6 THEN 1 ELSE 0, "")>>
    \o (IF x.probe = "" THEN <<>> ELSE <<Record("probe-server", "", NoDomain, 0, x.probe)>>)
    \o [i \in DOMAIN StaticEntries(x) |->
            Record("keenetic-static", "", StaticEntries(x)[i].domain, 0, StaticEntries(x)[i].addr)]
    \o [i \in DOMAIN Fallback(x) |-> Record("fallback-server", "", NoDomain, i, Fallback(x)[i])]
    \o FlattenSeq([i \in DOMAIN AllLists(x) |-> ListRecords(x, AllLists(x)[i])])

(* The registry is made before the generator.                              *)
Generates(x) == UsesKeenetic(x) => ProxyUsable(x.proxy) /\ ProxyUsable(x.later)

-----------------------------------------------------------------------------
(* What the two walks over an input give                                   *)
Walk(x) ==
    [hash |-> HashRecords(x),
     files |-> [resolver \in {"ipset", "nftset"} |-> Directives(x, resolver)]]
Walks == {Walk(x) : x \in {y \in Inputs : Generates(y)}}

(* The hash tells configurations apart: of two inputs with the same hash   *)
(* records, dnsmasq gets the same directives, whatever resolver type it    *)
(* asks for and however they are cut into rows.  The TXT record and the    *)
(* expected hash, which are computed in separate walks (generate() and     *)
(* compute_config_hash()), rely on it.                                     *)
HashTellsConfiguration ==
    \A x \in given : Generates(x) =>
        LET own == Walk(x)
        IN \A other \in Walks : other.hash = own.hash => other.files = own.files

(* Every domain of a list that fits a row by itself is in the rows, in     *)
(* order and once, and no row has more domains or characters than dnsmasq  *)
(* takes: push_batch() and flush_batch() at and around both limits.        *)
RowsCarryTheList ==
    \A x \in given : \A l \in DOMAIN x.lists, room \in 1 .. RowLength :
        LET rows == Rows(Domains(x, l), room)
        IN /\ FlattenSeq(rows) = Keep(Domains(x, l), {d \in ToSet(Domains(x, l)) : PathLen(<<d>>) <= room})
           /\ \A i \in DOMAIN rows : Len(rows[i]) \in 1 .. BatchSize /\ PathLen(rows[i]) <= room
=============================================================================
