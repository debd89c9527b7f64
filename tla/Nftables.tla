------------------------------ MODULE Nftables ------------------------------
(***************************************************************************)
(* NftablesFirewall (firewall/nftables.cpp): apply() reads the live table  *)
(* and hands nft one batch, which the kernel takes as a whole or not at    *)
(* all.  There is no prepare_apply(): what an attempt that threw had       *)
(* queued comes before what the next one queues.                           *)
(***************************************************************************)
EXTENDS FirewallState

NftTarget == [f \in Families |-> "A"]

NftPrepare(mode, p) ==
    /\ fw' = [fw EXCEPT !.pending = Append(@, p)]
    /\ task' = [at |-> "read", mode |-> mode, target |-> NftTarget, seen |-> FALSE]
    /\ UNCHANGED known

(* read_live_table_state(): a listing that fails, is empty or cannot be    *)
(* parsed shows no table.  A refresh of the sets needs the table.          *)
NftRead ==
    /\ task.at = "read"
    /\ \E seen \in BOOLEAN :
           /\ \/ seen = (nft # None) /\ UNCHANGED trouble
              \/ ~seen /\ nft # None /\ Trouble
           /\ IF task.mode = "StaticSetsOnly" /\ ~seen THEN Throw
              ELSE /\ task' = [task EXCEPT !.at = "batch", !.seen = seen]
                   /\ UNCHANGED <<backend, plan, runtime, fw>>
    /\ UNCHANGED <<sets, ipt, nft, served, known>>

(* What is queued, in the order it was                                     *)
QueuedRules == FlattenSeq([i \in DOMAIN fw.pending |->
                              RulesIn(fw.pending[i], 4, NftTarget)
                                  \o RulesIn(fw.pending[i], 6, NftTarget)])

QueuedSets == UNION {SetsIn(fw.pending[i], NftTarget) : i \in DOMAIN fw.pending}

QueuedEntries(n) ==
    LET with == {j \in DOMAIN fw.pending : n \in SetsIn(fw.pending[j], NftTarget)}
    IN  UNION {EntriesOf(fw.pending[i], n) : i \in with}

(* build_apply_document(): sets that exist keep their place; a dynamic one *)
(* keeps its elements unless they are to be cleared.  To a table that was  *)
(* not seen everything is added, and nothing in it is flushed or deleted.  *)
BatchSets ==
    [n \in SetNames |->
        IF n \notin QueuedSets THEN sets[n]
        ELSE IF ~task.seen THEN Members[n] \cup (IF Dynamic(n) THEN {} ELSE QueuedEntries(n))
        ELSE IF ~Dynamic(n) THEN QueuedEntries(n)
        ELSE IF sets[n] = None \/ (task.mode = "Destructive" /\ ConfigOf(plan).clear) THEN {}
        ELSE sets[n]]

BatchRules ==
    CASE task.mode = "StaticSetsOnly" -> nft
      [] task.mode # "StaticSetsOnly" /\ ~task.seen /\ nft # None -> nft \o QueuedRules
      [] OTHER -> QueuedRules

(* The refresh of the sets changes no rule: it enforces a plan only if the *)
(* rules that are there are the plan's.  A table that was there and not    *)
(* seen keeps its rules in front of the plan's.                            *)
NftServes(f) ==
    [plan |-> plan, regular |-> /\ f \in EnabledFamilies(plan)
                                /\ Len(fw.pending) = 1 /\ ~Widened(plan)
                                /\ task.seen \/ nft = None
                                /\ BatchRules = QueuedRules]

(* nft -j -f -: refused when the table it is to change is gone.            *)
NftBatch ==
    /\ task.at = "batch"
    /\ \/ /\ task.seen => nft # None
          /\ sets' = BatchSets
          /\ nft' = BatchRules
          /\ served' = [f \in Families |-> NftServes(f)]
          /\ known' = "yes"
          /\ Return(fw)
          /\ UNCHANGED trouble
       \/ /\ (task.seen /\ nft = None /\ UNCHANGED trouble) \/ Trouble
          /\ Throw
          /\ UNCHANGED <<sets, nft, served, known>>
    /\ UNCHANGED ipt

NftApply == NftRead \/ NftBatch

(* cleanup() deletes the table with all that is in it.                     *)
NftCleanup ==
    /\ nft' = None
    /\ sets' = [n \in SetNames |-> None]
    /\ UNCHANGED ipt

-------------------------------------------------------------------------------
(* What nftables does with a packet: the rules of DNS detours are in the   *)
(* chain of locally generated packets, all others in prerouting.           *)
NftVerdict(p) ==
    IF nft = None THEN Pass
    ELSE FirstOf(Keep(nft, {r \in ToSet(nft) : r.fam = FamilyOf(p.addr) /\ (r.dst # None) = p.local}),
                 p, Members)
==============================================================================
