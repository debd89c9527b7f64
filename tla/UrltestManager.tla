---------------------------- MODULE UrltestManager ----------------------------
(***************************************************************************)
(* routing/urltest_manager, for one urltest outbound, and the control      *)
(* tasks of daemon_runtime.cpp that carry its decisions to the kernel.     *)
(*                                                                         *)
(* The event loop registers, clears, queues probes and commits results.  A *)
(* worker of blocking_executor_ tests the candidates one by one and posts  *)
(* a commit to the loop; a commit that changes the selection posts a       *)
(* second task that rebuilds the routing.  A reload may come between any   *)
(* two of these.                                                           *)
(***************************************************************************)
EXTENDS CircuitBreaker, Sequencing

CONSTANTS
    Children,   \* the outbounds a urltest may choose from
    Marked,     \* those that have an entry in marks_
    Groups,     \* the values outbound_groups may have: sequences of
                \* [weight, outbounds] records
    Latencies,  \* latencies a successful test may report
    Tolerance,  \* tolerance_ms
    Word,       \* 2^32, the values of a uint32_t
    None,       \* no outbound selected, no result yet, not registered
    Failed,     \* the result of a test that failed
    MaxGeneration,      \* bound on generation_
    MaxRegistrations    \* bound on the times the outbound is registered

ASSUME UrltestAssumption ==
    /\ Marked \subseteq Children
    /\ \A gs \in Groups : gs \in Seq([weight : Int, outbounds : Seq(Children)])
    /\ Word \in Nat \ {0}
    /\ Latencies \subseteq 0 .. Word - 1 /\ Tolerance \in Int
    /\ None \notin Children \cup Latencies /\ Failed \notin Latencies \cup {None}

VARIABLES
    state,      \* states_[tag], or None
    generation, \* generation_
    timers,     \* the repeating tasks the scheduler holds for the outbound
    probes,     \* the probe tasks the executor holds
    control,    \* the commits and selection changes in control_tasks_
    chosen,     \* firewall_state_: urltest_selections_[tag]
    epoch       \* history: how many times the outbound was registered

vars == <<state, generation, timers, probes, control, chosen, epoch>>

Results == {Failed} \cup Latencies
Selections == Children \cup {None}

Init ==
    /\ state = None
    /\ generation = 1
    /\ timers = 0
    /\ probes = {}
    /\ control = <<>>
    /\ chosen = None
    /\ epoch = 0

-------------------------------------------------------------------------------
(* The child tags in the order of the groups, repetitions included.        *)
Listed(groups) ==
    LET upTo[n \in 0 .. Len(groups)] ==
            IF n = 0 THEN <<>> ELSE upTo[n - 1] \o groups[n].outbounds
    IN  upTo[Len(groups)]

NewState(groups) ==
    [groups |-> groups, res |-> [c \in Children |-> None],
     cb |-> [c \in Children |-> NewEntry], sel |-> None, inflight |-> FALSE, gen |-> 0]

(* One child of queue_probe_unlocked(): w is what the loop has so far.     *)
Consider(w, c) ==
    IF c \notin Marked THEN w
    ELSE LET e == w.cb[c]
             asked == AfterIsAllowed(e)
         IN  IF IsAllowed(e)
             THEN [cb |-> [w.cb EXCEPT ![c] = BeginRequest(asked)],
                   todo |-> Append(w.todo, c)]
             ELSE [w EXCEPT !.cb[c] = asked]

Candidates(s) ==
    LET tags == Listed(s.groups)
        after[n \in 0 .. Len(tags)] ==
            IF n = 0 THEN [cb |-> s.cb, todo |-> <<>>] ELSE Consider(after[n - 1], tags[n])
    IN  after[Len(tags)]

(* The requests begun for the candidates of todo end.                      *)
EndAll(cb, todo) ==
    LET after[n \in 0 .. Len(todo)] ==
            IF n = 0 THEN cb ELSE [after[n - 1] EXCEPT ![todo[n]] = EndRequest(@)]
    IN  after[Len(todo)]

(* What queue_probe_unlocked() does with the state s, which the loop holds *)
(* alone from the first lock to the last: the executor takes the probe or  *)
(* refuses it, and a refusal gives back what was taken.                    *)
QueueProbe(s) ==
    LET w == Candidates(s)
        taken == [s EXCEPT !.inflight = TRUE, !.gen = generation, !.cb = w.cb]
    IN  /\ generation < MaxGeneration
        /\ generation' = generation + 1
        /\ \/ /\ state' = taken
              /\ probes' = probes \cup {[gen |-> generation, todo |-> w.todo,
                                         res |-> [c \in Children |-> None],
                                         epoch |-> epoch']}
           \/ /\ state' = [taken EXCEPT !.inflight = FALSE,
                                        !.cb = EndAll(w.cb, w.todo)]
              /\ probes' = probes

(* Mutant: a new registration counts its generations afresh.               *)
RegisterAfresh(groups) ==
    /\ epoch < MaxRegistrations
    /\ epoch' = epoch + 1
    /\ timers' = timers + 1
    /\ state' = [NewState(groups) EXCEPT !.inflight = TRUE, !.gen = 1,
                                         !.cb = Candidates(NewState(groups)).cb]
    /\ generation' = 2
    /\ probes' = probes \cup {[gen |-> 1, todo |-> Candidates(NewState(groups)).todo,
                               res |-> [c \in Children |-> None], epoch |-> epoch']}
    /\ UNCHANGED <<control, chosen>>

(* register_urltest(), from complete_running_runtime().  When the tag is   *)
(* registered already, states_.emplace() changes nothing and the id of the *)
(* new timer is lost.                                                      *)
Register(groups) ==
    /\ epoch < MaxRegistrations /\ timers < MaxRegistrations
    /\ timers' = timers + 1
    /\ IF state = None
       THEN /\ epoch' = epoch + 1
            /\ QueueProbe(NewState(groups))
       ELSE /\ epoch' = epoch
            /\ IF state.inflight
               THEN UNCHANGED <<state, generation, probes>>
               ELSE QueueProbe(state)
    /\ UNCHANGED <<control, chosen>>

(* run_tests(): a timer fires, an orphaned one too.                        *)
RunTests ==
    /\ timers > 0
    /\ state # None /\ ~state.inflight
    /\ epoch' = epoch
    /\ QueueProbe(state)
    /\ UNCHANGED <<timers, control, chosen>>

(* The cooldown of an open breaker ends.                                   *)
Cooldown(c) ==
    /\ state # None
    /\ state.cb[c].st = "open" /\ ~state.cb[c].cooled
    /\ state' = [state EXCEPT !.cb[c].cooled = TRUE]
    /\ UNCHANGED <<generation, timers, probes, control, chosen, epoch>>

-------------------------------------------------------------------------------
(* The worker: is_probe_current(), then tester_.test().                    *)
IsProbeCurrent(p) == state # None /\ state.gen = p.gen

(* Mutant: the worker waits for the circuit to close.                      *)
TestWaits(p) ==
    /\ p.todo # <<>>
    /\ state # None => state.cb[Head(p.todo)].st # "half_open"
    /\ \E r \in Results : probes' = (probes \ {p})
           \cup {[p EXCEPT !.todo = Tail(@), !.res[Head(p.todo)] = r]}
    /\ UNCHANGED <<state, generation, timers, control, chosen, epoch>>

Test(p) ==
    /\ p \in probes
    /\ p.todo # <<>>
    /\ IF IsProbeCurrent(p)
       THEN \E r \in Results :
              \* results.emplace() keeps the first result of a child
              LET c == Head(p.todo)
                  got == IF p.res[c] = None THEN [p.res EXCEPT ![c] = r] ELSE p.res
              IN  probes' = (probes \ {p})
                            \cup {[p EXCEPT !.todo = Tail(@), !.res = got]}
       ELSE probes' = probes \ {p}
    /\ UNCHANGED <<state, generation, timers, control, chosen, epoch>>

(* on_commit_: commit_urltest_probe_results() posts to the loop.           *)
PostCommit(p) ==
    /\ p \in probes
    /\ p.todo = <<>>
    /\ probes' = probes \ {p}
    /\ control' = Append(control, [kind |-> "commit", gen |-> p.gen, res |-> p.res,
                                   sel |-> None, epoch |-> p.epoch])
    /\ UNCHANGED <<state, generation, timers, chosen, epoch>>

-------------------------------------------------------------------------------
(* A child select_outbound() may return.                                   *)
Usable(s, c) == s.cb[c].st # "open" /\ s.res[c] \in Latencies

GroupUsable(s, i) == {c \in ToSet(s.groups[i].outbounds) : Usable(s, c)}

(* The casts of the configured int64_t values to uint32_t.                 *)
Weight(s, i) == s.groups[i].weight % Word
ToleranceMs == Tolerance % Word

(* The groups are sorted by weight; with few of them std::sort keeps the   *)
(* order of equal ones.                                                    *)
Before(s, i, j) ==
    \/ Weight(s, i) < Weight(s, j)
    \/ Weight(s, i) = Weight(s, j) /\ i <= j

(* min_latency.  When it is the largest uint32_t the group counts as one   *)
(* without a usable child.                                                 *)
Fastest(s, i, c) ==
    /\ c \in GroupUsable(s, i)
    /\ s.res[c] # Word - 1
    /\ \A d \in GroupUsable(s, i) : s.res[c] <= s.res[d]

(* A child is within min_latency + tolerance, a sum that wraps around.     *)
FastEnough(s, i, c) ==
    /\ Usable(s, c)
    /\ \E d \in GroupUsable(s, i) :
          Fastest(s, i, d) /\ s.res[c] <= (s.res[d] + ToleranceMs) % Word

(* The group of the smallest weight with a child that is fast enough, and  *)
(* its first such child.                                                   *)
OpenGroups(s) ==
    {i \in DOMAIN s.groups : \E c \in GroupUsable(s, i) : FastEnough(s, i, c)}
Preferred(s) == CHOOSE i \in OpenGroups(s) : \A j \in OpenGroups(s) : Before(s, i, j)
FirstFast(s, g) ==
    LET outs == s.groups[g].outbounds
        fast == {k \in DOMAIN outs : FastEnough(s, g, outs[k])}
    IN  outs[CHOOSE k \in fast : \A l \in fast : k <= l]

(* Mutant: the current selection is kept although a preferred group is up. *)
SelectSticky(s) ==
    CASE \E g \in OpenGroups(s) : s.sel \in ToSet(s.groups[g].outbounds) /\ FastEnough(s, g, s.sel)
            -> s.sel
      [] OpenGroups(s) = {} -> None
      [] OTHER -> FirstFast(s, Preferred(s))

SelectOutbound(s) ==
    IF OpenGroups(s) = {} THEN None
    ELSE IF /\ s.sel \in ToSet(s.groups[Preferred(s)].outbounds)
            /\ FastEnough(s, Preferred(s), s.sel)
    THEN s.sel
    ELSE FirstFast(s, Preferred(s))

(* The part of commit_probe_results() that takes the results in.           *)
Recorded(s, res) ==
    LET Entry(c) == IF res[c] = None THEN s.cb[c]
                    ELSE IF res[c] = Failed THEN RecordFailure(EndRequest(s.cb[c]))
                    ELSE RecordSuccess(EndRequest(s.cb[c]))
    IN  [s EXCEPT !.inflight = FALSE,
                  !.cb = [c \in Children |-> Entry(c)],
                  !.res = [c \in Children |-> IF res[c] = None THEN @[c] ELSE res[c]]]

(* commit_probe_results() on the loop, then on_change_.                    *)
Commit ==
    /\ control # <<>> /\ Head(control).kind = "commit"
    /\ IF state # None /\ Head(control).gen = state.gen
       THEN \E s \in {Recorded(state, Head(control).res)} :
            LET new == SelectOutbound(s)
            IN  /\ state' = [s EXCEPT !.sel = new]
                /\ control' = IF new = state.sel THEN Tail(control)
                              ELSE Append(Tail(control), [kind |-> "change", gen |-> 0,
                                               res |-> [c \in Children |-> None],
                                               sel |-> new, epoch |-> epoch])
       ELSE /\ state' = state
            /\ control' = Tail(control)
    /\ UNCHANGED <<generation, timers, probes, chosen, epoch>>

(* Mutant: a rebuild that fails loses the selection.                       *)
ChangeAfterRebuild ==
    /\ control # <<>> /\ Head(control).kind = "change"
    /\ control' = Tail(control)
    /\ chosen' \in {Head(control).sel, chosen}
    /\ UNCHANGED <<state, generation, timers, probes, epoch>>

(* The task handle_urltest_selection_change() posted.  Whether the rebuild *)
(* that follows succeeds or throws, firewall_state_ has the selection.     *)
Change ==
    /\ control # <<>> /\ Head(control).kind = "change"
    /\ control' = Tail(control)
    /\ chosen' = Head(control).sel
    /\ UNCHANGED <<state, generation, timers, probes, epoch>>

(* clear(), in reconcile_prepared_runtime() or in a teardown.  The         *)
(* selection in firewall_state_ stays, and the routing is rebuilt from it. *)
Clear ==
    /\ state # None
    /\ generation < MaxGeneration
    /\ timers' = timers - 1
    /\ state' = None
    /\ generation' = generation + 1
    /\ UNCHANGED <<probes, control, chosen, epoch>>

-------------------------------------------------------------------------------
WorkerStep == \E p \in probes : Test(p) \/ PostCommit(p)

LoopStep == Commit \/ Change

Next ==
    \/ \E gs \in Groups : Register(gs)
    \/ Clear
    \/ RunTests
    \/ \E c \in Children : Cooldown(c)
    \/ \E p \in probes : Test(p)
    \/ \E p \in probes : PostCommit(p)
    \/ Commit
    \/ Change

Spec == Init /\ [][Next]_vars

(* The workers run what the executor accepted and the loop what is posted: *)
(* together they do not stop while there is work.  Timers, reloads and     *)
(* cooldowns are not promised.                                             *)
FairSpec == Spec /\ WF_<<probes, control>>(WorkerStep \/ LoopStep)
-------------------------------------------------------------------------------
Tasks == {control[i] : i \in DOMAIN control}
Changing == \E t \in Tasks : t.kind = "change"

(* is_probe_current() and the generation test of commit_probe_results():   *)
(* what was measured for an earlier registration of the outbound is never  *)
(* taken for the present one, although clear() forgets the state and its   *)
(* generation.                                                             *)
StaleProbesNeverCount ==
    state # None => \A p \in probes \cup {t \in Tasks : t.kind = "commit"} :
                        p.gen = state.gen => p.epoch = epoch

(* Between probes a half-open breaker has a free slot, also when an        *)
(* outbound is listed in two groups and began more requests than ended:    *)
(* is_allowed() never locks it out for good.  It is said of a              *)
(* half_open_max_requests other than 0: with 0, which the configuration    *)
(* accepts, the first trial that succeeds is the last one.                 *)
BreakerNeverStarves ==
    HalfOpenMaxRequests > 0 /\ state # None /\ ~state.inflight =>
        \A c \in Children : state.cb[c].st = "half_open" =>
                                state.cb[c].active < HalfOpenMaxRequests

(* select_outbound() looks for a child in group i when min_latency and the *)
(* tolerance add up to a uint32_t; when the sum wraps around no child is   *)
(* below it, and the code goes on to the next group.                       *)
Comparable(s, i) ==
    \E c \in GroupUsable(s, i) : Fastest(s, i, c) /\ s.res[c] + ToleranceMs < Word

(* select_outbound(): what is selected has a closed or half-open breaker,  *)
(* answered last time, is within tolerance_ms of every usable child of its *)
(* group, and no comparable group comes before it by weight, with the      *)
(* weights and the tolerance as uint32_t.  Nothing is selected only when   *)
(* no group is comparable.  It holds between commits as well, while        *)
(* breakers open, cool down and let trials through.                        *)
SelectionBest ==
    state # None =>
        IF state.sel = None THEN \A i \in DOMAIN state.groups : ~Comparable(state, i)
        ELSE \E i \in DOMAIN state.groups :
                /\ state.sel \in GroupUsable(state, i)
                /\ \A d \in GroupUsable(state, i) :
                      state.res[state.sel] <= state.res[d] + ToleranceMs
                /\ \A j \in DOMAIN state.groups : Comparable(state, j) => Before(state, i, j)

(* The routing follows the manager: when no change is posted and the       *)
(* manager has a selection, firewall_state_ has the same one, whatever     *)
(* reloads and stale tasks came in between.  Without a reload the same     *)
(* holds when nothing is selected.                                         *)
RoutingFollows ==
    state # None /\ ~Changing /\ (state.sel # None \/ epoch = 1) => chosen = state.sel

(* Every probe that was accepted ends: probe_inflight is lifted, or a      *)
(* reload forgets the state.                                               *)
ProbesEnd == (state # None /\ state.inflight) ~> (state = None \/ ~state.inflight)
===============================================================================
