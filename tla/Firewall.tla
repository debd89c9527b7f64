------------------------------ MODULE Firewall ------------------------------
(***************************************************************************)
(* The firewall of keen-pbr over the life of the daemon: the calls of      *)
(* apply_firewall() and cleanup(), dnsmasq filling the dynamic sets, other *)
(* programs flushing the tables, and crashes of the daemon.                *)
(***************************************************************************)
EXTENDS Iptables, Nftables

(* The inputs an apply may find: a start takes what is configured, a       *)
(* refresh of the lists has only their contents changed, every other apply *)
(* may have a new configuration, selection or contents.                    *)
InputsFor(mode) ==
    IF mode = "StaticSetsOnly"
    THEN {p \in Plans : p.cfg = plan.cfg /\ p.sel = plan.sel}
    ELSE Plans

(* apply_runtime_firewall() up to the first command.  Destructive: the     *)
(* runtime starts.  StaticSetsOnly: it must be active.  PreserveSets:      *)
(* configuration applies, SIGUSR1, link events and urltest selections,     *)
(* which come in every state.                                              *)
Begin(mode, p) ==
    /\ task.at = "idle"
    /\ applies < MaxApplies /\ applies' = applies + 1
    /\ mode = "Destructive" => runtime = "down"
    /\ mode = "StaticSetsOnly" => runtime = "up"
    /\ p \in InputsFor(mode)
    /\ plan' = p
    /\ IF backend = "iptables" THEN IptPrepare(mode, p) ELSE NftPrepare(mode, p)
    /\ UNCHANGED <<backend, runtime, sets, ipt, nft, served, trouble>>

Apply == UNCHANGED applies /\ IF backend = "iptables" THEN IptApply ELSE NftApply

(* The runtime stops.  (A daemon that ends leaves the same behind.)        *)
Cleanup ==
    /\ task.at = "idle"
    /\ IF backend = "iptables" THEN IptCleanup ELSE NftCleanup
    /\ fw' = [Fresh EXCEPT !.states = fw.states]
    /\ runtime' = "down"
    /\ served' = NotServed
    /\ UNCHANGED <<backend, plan, task, known, applies, trouble>>

(* The daemon dies anywhere; the kernel keeps what it has.                 *)
Crash ==
    /\ Trouble
    /\ fw' = Fresh
    /\ task' = Idle
    /\ runtime' = "down"
    /\ known' = IF known = "blind" THEN "blind" ELSE "unswept"
    /\ UNCHANGED <<backend, plan, sets, ipt, nft, served, applies>>

(* iptables -F: the chains stay, and are empty.                            *)
Flushed(chains) ==
    [jumps |-> 0,
     disp  |-> IF chains.disp = None THEN None ELSE [to |-> None, also |-> <<>>],
     chain |-> [g \in Generations |-> IF chains.chain[g] = None THEN None ELSE <<>>]]

(* Another program flushes a family of iptables, with -F alone or with -F  *)
(* and -X, or the nftables ruleset.                                        *)
ExternalFlush(f) ==
    /\ Trouble
    /\ IF backend = "iptables"
       THEN /\ \E chains \in {NoChains, Flushed(ipt[f])} : ipt' = [ipt EXCEPT ![f] = chains]
            /\ UNCHANGED <<sets, nft>>
       ELSE nft' = None /\ sets' = [n \in SetNames |-> None] /\ UNCHANGED ipt
    /\ served' = [g \in Families |-> IF backend = "iptables" /\ g # f THEN served[g] ELSE None]
    /\ UNCHANGED <<backend, plan, runtime, fw, task, known, applies>>

(* dnsmasq resolves a name of a list and adds the address to its set.      *)
DnsLearns(n, addr) ==
    /\ Dynamic(n) /\ sets[n] # None /\ addr \in Addresses(n.fam) \ sets[n]
    /\ sets' = [sets EXCEPT ![n] = @ \cup {addr}]
    /\ UNCHANGED <<backend, plan, runtime, fw, task, ipt, nft, served, known, applies,
                   trouble>>

Next ==
    \/ \E mode \in Modes, p \in Plans : Begin(mode, p)
    \/ Apply
    \/ Cleanup
    \/ Crash
    \/ \E f \in Families : ExternalFlush(f)
    \/ \E n \in SetNames, addr \in Resolved : DnsLearns(n, addr)

Spec == Init /\ [][Next]_vars

-------------------------------------------------------------------------------
Verdict(p) == IF backend = "iptables" THEN IptVerdict(p) ELSE NftVerdict(p)

(* What the kernel does with a packet is what the documentation says of    *)
(* the plan committed last for the packet's family.                        *)
Follows(p) ==
    LET f == FamilyOf(p.addr)
        s == served[f].plan
        learned == [l \in DOMAIN Contents[s.content] |->
                       Members[[fam |-> f, list |-> l, slot |-> "d"]]]
    IN  Verdict(p) = Documented(ConfigOf(s), s.sel, Contents[s.content], p, learned)

(* Between two commits, whatever fails, crashes or is half done in an      *)
(* apply that is under way, every packet of a family is classified by the  *)
(* plan last committed for that family, as the documentation explains its  *)
(* rules (iptables.cpp:630, nftables.cpp:734).  A commit that could not be *)
(* right is not regular: behind a table nft did not show, under a jump     *)
(* that iptables -F took away, with rules of an attempt that failed before *)
(* it, with a rule that has lost its lists, or with lists that drop or     *)
(* pass under iptables.  The next regular commit ends that.                *)
Enforced ==
    known # "blind" => \A p \in Packets :
        LET s == served[FamilyOf(p.addr)] IN s # None /\ s.regular => Follows(p)

(* Addresses dnsmasq has put into a set are lost only when the set is made *)
(* anew on purpose, by a start with clear_dynamic_sets_on_apply, by        *)
(* cleanup() or by another program (iptables.cpp:641, nftables.cpp:676).   *)
(* An apply of a configuration keeps them, whatever that option says       *)
(* (daemon_runtime.cpp:743); the documentation has it clear them.          *)
LearnedKept ==
    [][ \/ \A n \in SetNames : Dynamic(n) /\ sets[n] # None => sets[n] \subseteq Members'[n]
        \/ task.mode = "Destructive" /\ ConfigOf(plan).clear
        \/ Cleanup
        \/ \E f \in Families : ExternalFlush(f) ]_vars

(* cleanup() leaves no chain, no jump and no set of keen-pbr, whatever     *)
(* failed or was flushed before, other than dynamic sets that a start      *)
(* after a crash preserved (iptables.cpp:915, nftables.cpp:768).           *)
CleanupLeavesNothing ==
    [][ Cleanup /\ known \in {"yes", "kept"} =>
            /\ ipt' = [f \in Families |-> NoChains]
            /\ nft' = None
            /\ \A n \in SetNames : sets'[n] = None \/ (Dynamic(n) /\ known = "kept") ]_vars

(* "Rules are checked from top to bottom. The first match wins."           *)
(* (docs/content/docs/configuration/route-rules.md:23)                     *)
FirstMatchWins ==
    \A p \in Packets : served[FamilyOf(p.addr)] # None => Follows(p)
==============================================================================
