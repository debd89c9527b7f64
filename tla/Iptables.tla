------------------------------ MODULE Iptables ------------------------------
(***************************************************************************)
(* IptablesFirewall (firewall/iptables.cpp): apply() fills the sets of the *)
(* generation not in use and then switches each family to it with one      *)
(* iptables-restore.  One action per external command that changes the     *)
(* kernel; the deletions of a cleanup, which never fail it, are one.       *)
(***************************************************************************)
EXTENDS FirewallState

Opposite(g) == IF g = "A" THEN "B" ELSE "A"

(* Mutant: always the same generation.                                     *)
TargetGenerationSame(mode, active) == IF active = None THEN "A" ELSE active

(* prepare_apply() for one family                                          *)
TargetGeneration(mode, active) ==
    IF mode = "Destructive" \/ active = None THEN "A" ELSE Opposite(active)

(* Mutant: the sets of earlier attempts are forgotten.                     *)
IptPrepareForgets(mode, p) ==
    LET target == [f \in Families |-> TargetGeneration(mode, fw.active[f])]
    IN  /\ fw' = [fw EXCEPT !.pending = <<p>>, !.created = SetsIn(p, target)]
        /\ task' = [at |-> IF mode = "Destructive" THEN "sweep" ELSE "sets", mode |-> mode,
                    target |-> target, seen |-> FALSE]
        /\ known' = IF known = "unswept" /\ mode # "Destructive" THEN "blind" ELSE known

IptPrepare(mode, p) ==
    LET target == [f \in Families |-> TargetGeneration(mode, fw.active[f])]
    IN  /\ fw' = [fw EXCEPT !.pending = <<p>>, !.created = @ \cup SetsIn(p, target)]
        /\ task' = [at |-> IF mode = "Destructive" THEN "sweep" ELSE "sets", mode |-> mode,
                    target |-> target, seen |-> FALSE]
        /\ known' = IF known = "unswept" /\ mode # "Destructive" THEN "blind" ELSE known

-------------------------------------------------------------------------------
(* -D of one jump, -F and -X of the dispatcher and of both generations: -X *)
(* is refused while another jump refers to the dispatcher.                 *)
Removed(chains) ==
    IF chains.jumps <= 1 THEN NoChains
    ELSE [NoChains EXCEPT !.jumps = chains.jumps - 1, !.disp = [to |-> None, also |-> <<>>]]

(* -F and -X of the generations alone: one in use is emptied and stays.    *)
GenerationsRemoved(chains) ==
    [chains EXCEPT !.chain =
        [g \in Generations |->
            IF chains.disp # None /\ chains.disp.to = g /\ chains.chain[g] # None
            THEN <<>> ELSE None]]

(* cleanup_rules_impl()                                                    *)
RulesRemoved(sweep) ==
    [f \in Families |->
        IF fw.owned[f] \/ sweep THEN Removed(ipt[f])
        ELSE IF \E g \in Families : fw.owned[g] THEN GenerationsRemoved(ipt[f])
        ELSE ipt[f]]

Disowned == [fw EXCEPT !.active = Fresh.active, !.owned = Fresh.owned]

(* The sets that some rule of a family names                               *)
Named(chains) ==
    LET of(rules) == IF rules = None THEN {} ELSE {rules[k].set : k \in DOMAIN rules}
    IN  (UNION {of(chains.chain[g]) : g \in Generations})
            \cup (IF chains.disp = None THEN {} ELSE of(chains.disp.also))

(* cleanup_live_impl(): ipset refuses to destroy a set some rule names.    *)
SetsRemoved(chains, sweep, preserve) ==
    [n \in SetNames |->
        IF (n \notin fw.created /\ ~sweep) \/ (preserve /\ Dynamic(n)) THEN sets[n]
        ELSE IF sets[n] # None /\ \E f \in Families : n \in Named(chains[f]) THEN {}
        ELSE None]

(* apply(Destructive) begins by removing everything, also what an earlier  *)
(* process left.                                                           *)
IptSweep ==
    /\ task.at = "sweep"
    /\ ipt' = RulesRemoved(TRUE)
    /\ sets' = SetsRemoved(RulesRemoved(TRUE), TRUE, ~ConfigOf(plan).clear)
    /\ fw' = Disowned
    /\ task' = [task EXCEPT !.at = "sets"]
    /\ served' = NotServed
    /\ known' = CASE known = "unswept" /\ ConfigOf(plan).clear -> "yes"
                  [] known = "unswept" /\ ~ConfigOf(plan).clear -> "kept"
                  [] OTHER -> known
    /\ UNCHANGED <<backend, plan, runtime, nft, trouble>>

-------------------------------------------------------------------------------
(* Mutant: every queued set is flushed.                                    *)
RestoredAll(filled) ==
    [n \in SetNames |->
        IF n \notin SetsIn(plan, task.target) THEN sets[n]
        ELSE IF filled /\ ~Dynamic(n) THEN EntriesOf(plan, n)
        ELSE {}]

(* ipset restore: creates and flushes the static sets, creates the dynamic *)
(* ones when everything is made anew, then adds the entries.               *)
Restored(filled) ==
    LET wanted == SetsIn(plan, task.target)
    IN  [n \in SetNames |->
            IF n \notin wanted THEN sets[n]
            ELSE IF ~Dynamic(n) THEN IF filled THEN EntriesOf(plan, n) ELSE {}
            ELSE IF task.mode # "Destructive" THEN sets[n]
            ELSE IF ConfigOf(plan).clear \/ sets[n] = None THEN {}
            ELSE sets[n]]

IptFillSets ==
    /\ task.at = "sets"
    /\ \/ /\ sets' = Restored(TRUE)
          /\ task' = [task EXCEPT !.at = "dispatch"]
          /\ UNCHANGED <<backend, plan, runtime, fw, trouble>>
       \/ /\ Trouble
          /\ sets' \in {sets, Restored(FALSE)}
          /\ Throw
    /\ UNCHANGED <<ipt, nft, served, known>>

(* dispatcher_chains_exist(): chains that are gone are all made anew.      *)
DispatcherMissing(f) ==
    f \in EnabledFamilies(plan) /\ fw.active[f] # None /\ ipt[f].disp = None

IptCheckDispatchers ==
    /\ task.at = "dispatch"
    /\ IF \E f \in Families : DispatcherMissing(f)
       THEN ipt' = RulesRemoved(TRUE) /\ fw' = Disowned /\ served' = NotServed
       ELSE UNCHANGED <<ipt, fw, served>>
    /\ task' = [task EXCEPT !.at = "restore4"]
    /\ UNCHANGED <<backend, plan, runtime, sets, nft, known, trouble>>

-------------------------------------------------------------------------------
(* build_rule_lines(): where a rule goes.  Rules that drop or pass a set   *)
(* are appended to the dispatcher, after its jump to the generation.       *)
InDispatcher(rule) == rule.set # None /\ rule.act.kind # "mark"

(* build_ipt_script(), as iptables-restore executes it                     *)
Switched(f, rules) ==
    LET g == task.target[f]
        dispatched == {r \in ToSet(rules) : InDispatcher(r)}
    IN  [jumps |-> ipt[f].jumps + (IF fw.active[f] = None THEN 1 ELSE 0),
         disp  |-> [to |-> g, also |-> Keep(rules, dispatched)],
         chain |-> [ipt[f].chain EXCEPT ![g] = Keep(rules, ToSet(rules) \ dispatched)]]

NeedsIpv6 == ConfigOf(plan).ipv6 \/ RulesIn(plan, 6, task.target) # <<>>

(* A switch to the other generation does not look at the jump.             *)
IptServes(f) ==
    [plan |-> plan, regular |-> /\ f \in EnabledFamilies(plan)
                                /\ ~ListVerdicts(plan) /\ ~Widened(plan)
                                /\ fw.active[f] = None \/ ipt[f].jumps > 0]

(* iptables-restore or ip6tables-restore: all of the script or nothing.    *)
(* It is refused when a rule names a set that is not there or a dispatcher *)
(* to be flushed is gone.                                                  *)
IptRestore(f) ==
    LET rules == RulesIn(plan, f, task.target)
        done  == [fw EXCEPT !.active[f] = task.target[f], !.owned[f] = TRUE]
    IN  /\ task.at = IF f = 4 THEN "restore4" ELSE "restore6"
        /\ \/ /\ Exist(rules)
              /\ fw.active[f] # None => ipt[f].disp # None
              /\ ipt' = [ipt EXCEPT ![f] = Switched(f, rules)]
              /\ served' = [served EXCEPT ![f] = IptServes(f)]
              /\ IF f = 4 /\ NeedsIpv6
                 THEN /\ task' = [task EXCEPT !.at = "restore6"]
                      /\ fw' = done
                      /\ UNCHANGED <<backend, plan, runtime>>
                 ELSE Return(done)
              /\ UNCHANGED trouble
           \/ /\ \/ ~Exist(rules) /\ UNCHANGED trouble
                 \/ fw.active[f] # None /\ ipt[f].disp = None /\ UNCHANGED trouble
                 \/ Trouble
              /\ Throw
              /\ UNCHANGED <<ipt, served>>
        /\ UNCHANGED <<sets, nft, known>>

IptApply ==
    \/ IptSweep
    \/ IptFillSets
    \/ IptCheckDispatchers
    \/ \E f \in Families : IptRestore(f)

(* cleanup()                                                               *)
IptCleanup ==
    /\ ipt' = RulesRemoved(FALSE)
    /\ sets' = SetsRemoved(RulesRemoved(FALSE), FALSE, FALSE)
    /\ UNCHANGED nft

-------------------------------------------------------------------------------
(* What iptables does with a packet: the generation's verdict unless the   *)
(* dispatcher drops the packet afterwards                                  *)
IptVerdict(p) ==
    LET chains == ipt[FamilyOf(p.addr)]
        first  == IF chains.disp.to = None \/ chains.chain[chains.disp.to] = None THEN Pass
                  ELSE FirstOf(chains.chain[chains.disp.to], p, Members)
    IN  IF chains.jumps = 0 \/ chains.disp = None THEN Pass
        ELSE IF FirstOf(chains.disp.also, p, Members) = Drop THEN Drop
        ELSE first
==============================================================================
