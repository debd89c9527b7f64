---------------------------- MODULE ResolverSync ----------------------------
(***************************************************************************)
(* What the daemon knows of dnsmasq: the generated configuration and its   *)
(* hash, the TXT probe that asks dnsmasq which configuration it serves,    *)
(* and resolver_sync_ (daemon/resolver_sync_state_machine.cpp), which      *)
(* turns both into the state that the API shows and an apply relies on.    *)
(***************************************************************************)
EXTENDS Naturals, FiniteSets

CONSTANTS
    Confs,      \* configurations
    Versions    \* contents of the list caches, and of the router's DNS proxy

ASSUME ConfsAssumption == Confs # {}
ASSUME VersionsAssumption == Versions \subseteq Nat /\ 0 \in Versions

None == "none"
(* What compute_config_hash() and generate() digest in the same walk: the  *)
(* servers and rules of the configuration, the cached lists and the        *)
(* Keenetic addresses.  Equal hashes are taken for equal contents.         *)
Digest(c, l, k) == [conf |-> c, lists |-> l, keen |-> k]
NoHash == Digest(None, 0, 0)

VARIABLES
    config,     \* config_
    lists,      \* the list caches on disk
    keen,       \* the snapshot in the Keenetic DNS cache
    rci,        \* what the router's RCI would answer
    generation, \* resolver_generation_snapshot_: its configuration
    sync,       \* resolver_sync_
    probe,      \* the TXT probe that is out
    timers,     \* which of the resolver's timers are scheduled
    active,     \* routing_runtime_active_
    dnsmasq     \* external: what dnsmasq is doing and serves

knowledge == <<config, lists, keen, rci, generation, sync, probe, timers, active>>

(* A TXT timestamp has seconds: what was generated in the second in which  *)
(* an apply starts does not count as older than the apply.                 *)
Aged(t, same) == IF t = "new" /\ ~same THEN "old" ELSE t

-----------------------------------------------------------------------------
(* resolver_sync_: on says runtime_active_ and resolver_configured_, ts    *)
(* whether the TXT is older than the apply, recent that the converging     *)
(* window is open.                                                         *)
RuntimeStopped(s) == [s EXCEPT !.on = FALSE, !.actual = NoHash, !.ts = None, !.status = "off"]

(* expected_hash_updated() and apply_started()                             *)
ExpectHash(s, h) == [s EXCEPT !.on = TRUE, !.expected = h]
ApplyStarted(s, age) == [s EXCEPT !.recent = TRUE, !.ts = age]

ProbeSucceeded(s, h, age) ==
    [s EXCEPT !.on = TRUE, !.actual = h, !.ts = age, !.status = "success"]

(* A query that failed leaves the last hash in place, an answer without a  *)
(* usable TXT does not.                                                    *)
ProbeFailed(s, st) ==
    IF st = "failed" THEN [s EXCEPT !.on = TRUE, !.status = st]
    ELSE [s EXCEPT !.on = TRUE, !.status = st, !.actual = NoHash, !.ts = None]

Converging(s) ==
    /\ s.recent
    /\ \/ s.status \in {"unknown", "failed", "missing"}
       \/ s.expected # s.actual /\ s.ts = "old"

(* snapshot(): resolver_config_sync_state and resolver_live_status         *)
SyncState(s) ==
    CASE ~s.on -> "none"
      [] s.on /\ Converging(s) -> "converging"
      [] s.on /\ ~Converging(s) /\ s.status = "success" ->
            IF s.expected = s.actual THEN "converged" ELSE "stale"
      [] s.on /\ ~Converging(s) /\ s.status = "missing" -> "stale"
      [] OTHER -> "none"

LiveStatus(s) ==
    CASE ~s.on -> "unknown"
      [] s.on /\ s.status = "failed" -> "unavailable"
      [] s.on /\ s.status = "missing" /\ ~Converging(s) -> "degraded"
      [] s.on /\ (s.status = "success" \/ (s.status # "failed" /\ Converging(s))) -> "healthy"
      [] OTHER -> "unknown"

(* The window of 15 seconds closes.                                        *)
WindowCloses ==
    /\ sync.recent
    /\ sync' = [sync EXCEPT !.recent = FALSE]
    /\ UNCHANGED <<config, lists, keen, rci, generation, probe, timers, active, dnsmasq>>

-----------------------------------------------------------------------------
(* make_resolver_generation_snapshot() and update_resolver_config_hash()   *)
UpdateHash(c, k, s) ==
    /\ generation' = c
    /\ sync' = ExpectHash(s, Digest(c, lists, k))

(* The start of an apply is a new apply_started_ts_: what dnsmasq loaded   *)
(* and what probes saw before is now older, or of the same second.         *)
StartApply(c, k, p, same) ==
    /\ dnsmasq' = [dnsmasq EXCEPT !.ts = Aged(@, same)]
    /\ probe' = [p EXCEPT !.ts = Aged(@, same)]
    /\ UpdateHash(c, k, ApplyStarted(sync, Aged(sync.ts, same)))

(* refresh_keenetic_dns_cache(true): extract_keenetic_dns_snapshot_from_   *)
(* rci() either yields the snapshot that is now cached or throws, and the  *)
(* cached one stays in use.                                                *)
RefreshKeenetic(k) == k \in {rci, keen} /\ keen' = k

(* The router's DNS proxy, and a download without a reload                 *)
RciChanges ==
    /\ \E v \in Versions : v > rci /\ rci' = v
    /\ UNCHANGED <<config, lists, keen, generation, sync, probe, timers, active, dnsmasq>>
ListsChange ==
    /\ \E v \in Versions : v > lists /\ lists' = v
    /\ UNCHANGED <<config, keen, rci, generation, sync, probe, timers, active, dnsmasq>>

-----------------------------------------------------------------------------
NoProbe == [at |-> "none", fresh |-> FALSE, status |-> "unknown", hash |-> NoHash, ts |-> None]

(* refresh_resolver_config_hash_actual_async() in a state with these       *)
(* values; resolver_hash_refresh_inflight_ is set while a probe is out.    *)
ProbeAsync(on, p, s) ==
    /\ sync' = IF on THEN s ELSE RuntimeStopped(s)
    /\ probe' = IF on /\ p.at = "none"
                THEN [NoProbe EXCEPT !.at = "asking", !.fresh = TRUE] ELSE p

(* runtime_generation_ has moved on under the probe.                       *)
Outdated == [probe EXCEPT !.fresh = FALSE]

(* The periodic timer, and the one-shot that is set while the state is     *)
(* converging: maybe_schedule_resolver_config_hash_actual_refresh()        *)
ProbeTimer ==
    /\ \E t \in timers \cap {"periodic", "retry"} :
         timers' = IF t = "retry" THEN timers \ {t} ELSE timers
    /\ IF probe.at = "none" THEN ProbeAsync(active, probe, sync)
       ELSE UNCHANGED <<probe, sync>>
    /\ UNCHANGED <<config, lists, keen, rci, generation, active, dnsmasq>>

(* query_resolver_config_hash_txt() on resolver_io_executor_: the newest   *)
(* matching TXT of the answer, an answer without one, or no answer.        *)
Answer(p, st, h, age) == [p EXCEPT !.at = "answered", !.status = st, !.hash = h, !.ts = age]
QueryTxt(p) ==
    CASE dnsmasq.at = "up" /\ dnsmasq.txt -> Answer(p, "success", dnsmasq.has, dnsmasq.ts)
      [] dnsmasq.at = "up" /\ ~dnsmasq.txt -> Answer(p, "missing", NoHash, None)
      [] OTHER -> Answer(p, "failed", NoHash, None)
ProbeAsk(lost) ==
    /\ probe.at = "asking"
    /\ probe' = IF lost THEN Answer(probe, "failed", NoHash, None) ELSE QueryTxt(probe)
    /\ UNCHANGED <<config, lists, keen, rci, generation, sync, timers, active, dnsmasq>>

(* Mutant: a result of an earlier generation returns before it clears      *)
(* resolver_hash_refresh_inflight_.                                        *)
ProbeCommitLeaky ==
    /\ probe.at = "answered" /\ probe.fresh
    /\ probe' = NoProbe
    /\ sync' = IF probe.status = "success" THEN ProbeSucceeded(sync, probe.hash, probe.ts)
               ELSE ProbeFailed(sync, probe.status)
    /\ UNCHANGED <<config, lists, keen, rci, generation, timers, active, dnsmasq>>

(* commit_resolver_hash_probe_result(), posted to the loop                 *)
ProbeCommit ==
    /\ probe.at = "answered"
    /\ probe' = NoProbe
    /\ IF ~probe.fresh THEN UNCHANGED <<sync, timers>>
       ELSE LET s == IF probe.status = "success"
                     THEN ProbeSucceeded(sync, probe.hash, probe.ts)
                     ELSE ProbeFailed(sync, probe.status)
            IN /\ sync' = s
               /\ timers' = IF SyncState(s) = "converging" THEN timers \cup {"retry"}
                            ELSE timers
    /\ UNCHANGED <<config, lists, keen, rci, generation, active, dnsmasq>>

(* Mutant: a record that is newer than the apply confirms it.              *)
ConfirmationMatchesAny(h) ==
    dnsmasq.at = "up" /\ dnsmasq.txt /\ dnsmasq.ts = "new"

(* resolver_hash_confirmation_matches()                                    *)
ConfirmationMatches(h) ==
    dnsmasq.at = "up" /\ dnsmasq.txt /\ dnsmasq.has = h /\ dnsmasq.ts = "new"

(* The condition under which an apply leaves dnsmasq alone                 *)
ResolverIsCurrent ==
    /\ sync.expected # NoHash /\ sync.actual = sync.expected
    /\ LiveStatus(sync) = "healthy"
=============================================================================
